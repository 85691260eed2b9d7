------------------------------ MODULE MCEnviron ------------------------------
(* Three names for the run of Environ, of which one begins with another.     *)
EXTENDS Environ

CONSTANTS P, PWD, TMP, x, y
BeginsWith == {<<P, PWD>>}

ValueSymmetry == Permutations(Values)

\* In main nothing reads what _initenv worked with.
LocalsGone == IF pc = "main" THEN <<vector, answer, history>> ELSE vars
==============================================================================
