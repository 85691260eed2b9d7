----------------------------- MODULE MCCwdPassing -----------------------------
(* Names, symmetry and views for the runs of CwdPassing: processes that do     *)
(* not run yet and directories other than \ are only compared for equality.    *)
EXTENDS CwdPassing, TLC

CONSTANTS P, TMP

\* Bound: the values in the key at a time.
MaxRegistry == 2
FewValues == Len(registry) <= MaxRegistry

Interchangeable == Permutations(Procs \ Roots) \cup Permutations(Dirs \ {Top})

\* The locals of a call, where a later step reads them.
Needed(f, labels) == [p \in Procs |-> IF pc[p] \in labels THEN f[p] ELSE None]

\* Of environ getenv takes the first string; troubles are only added to, so where one
\* excuses a child already the others, and born, do not matter.
Judged(p) == IF ~PassedOn(p) THEN <<>>
             ELSE <<trouble[p], IF pc[p] \in Starting \ {"started"} THEN born[p] ELSE None>>

\* What is passed is passed, whatever it says.
Seen == [i \in DOMAIN registry |->
            LET v == registry[i]
            IN  IF v.type = "long" \/ Hides(v) THEN v ELSE v.name]
CallsGone ==
    <<Seen, existing, awaits, pc, waited,
      Needed(cwd, Starting \cup Running \cup {"wait"}),
      Needed([p \in Procs |-> IF env[p] = <<>> THEN <<>> ELSE Head(env[p])], {"enumerate", "initdir"}),
      Needed(idx, {"enumerate"}),
      Needed([p \in Procs |-> Judged(p)], OnTheWay \cup {"initdir"})>>

\* The same, with what ArgumentsMatchedThere speaks of.
GlobbedToo ==
    <<registry, existing, cwd, awaits, pc, waited,
      Needed(env, {"enumerate", "initdir"}), Needed(idx, {"enumerate"}),
      Needed(globbed, {"initenv", "enumerate", "initdir", "started"}),
      Needed(trouble, OnTheWay \cup Starting)>>
==============================================================================
