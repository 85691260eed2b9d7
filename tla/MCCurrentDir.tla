----------------------------- MODULE MCCurrentDir -----------------------------
(* A small tree and the names of up to three segments for the runs of         *)
(* CurrentDir.                                                                *)
EXTENDS CurrentDir

Tree == {<<>>, <<"a">>, <<"a", "b">>, <<"b">>}
Leaves == {<<"f">>, <<"a", "f">>}

Root == <<"">>

NamesOf(segs) == {s \in BoundedSeq(segs, 3) : s # <<>>}

\* No two separators next to each other, except for the one before a name that is
\* relative to a directory.
Plain == {p \in [abs : BOOLEAN, segs : NamesOf({"", ".", "..", "a", "b", "f"})] :
             \A i \in 1..(Len(p.segs) - 1) : p.segs[i] # ""}
==============================================================================
