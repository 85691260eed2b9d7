------------------------------ MODULE MCFdTable ------------------------------
(* Symmetry for the runs of FdTable: handles and FILE pointers are only     *)
(* compared for equality.                                                   *)
EXTENDS FdTable, TLC

HandleAndFileSymmetry == Permutations(Handles) \cup Permutations(Files)

\* No guard reads call, so runs without a property over it leave it out.
WithoutCall == <<fdsinitialized, fdtab, osOpen, stream, history>>
==============================================================================
