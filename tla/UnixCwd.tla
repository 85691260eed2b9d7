-------------------------------- MODULE UnixCwd --------------------------------
(***************************************************************************)
(* A process's current directory, and what a name stands for: a walk from  *)
(* the root if it starts with a separator and from the current directory   *)
(* if not, where ".." goes to the parent, and at the root nowhere.         *)
(*                                                                         *)
(* The walk is lexical: no links, and a directory walked through and left  *)
(* again need not exist.  A name that tries to leave the root may also be  *)
(* refused.                                                                *)
(***************************************************************************)
EXTENDS Integers, Sequences, SequencesExt

CONSTANTS Dirs, Files, Paths, ENOENT, ENOTDIR, ENOSYS

VARIABLES where, call

vars == <<where, call>>

None == [op |-> "none", path |-> [abs |-> TRUE, segs |-> <<>>], result |-> ENOENT]

Init == where = <<>> /\ call = None

Step(w, seg) ==
    IF seg \in {"", "."} THEN w
    ELSE IF seg # ".." THEN [w EXCEPT !.at = Append(@, seg)]
    ELSE IF w.at = <<>> THEN [w EXCEPT !.refusable = TRUE]
    ELSE [w EXCEPT !.at = Front(@)]

Walk(p) ==
    LET walked[i \in 0 .. Len(p.segs)] ==
            IF i = 0 THEN [at |-> IF p.abs THEN <<>> ELSE where, refusable |-> FALSE]
            ELSE Step(walked[i - 1], p.segs[i])
    IN  walked[Len(p.segs)]

Answers(p) ==
    LET w == Walk(p)
    IN  {IF w.at \in Dirs \cup Files THEN w.at ELSE ENOENT}
            \cup (IF w.refusable THEN {ENOENT} ELSE {})

\* What a call that wants a directory answers where a name leads to r.
OrNotDir(r) == IF r \in Files THEN ENOTDIR ELSE r

Chdir(p) == \E r \in Answers(p) :
    /\ call' = [op |-> "chdir", path |-> p, result |-> OrNotDir(r)]
    /\ where' = IF r \in Dirs THEN r ELSE where

\* A call that opens or removes what p stands for, lists it, or takes it for the
\* root without minding it afterwards.
Use(p) ==
    /\ \E r \in Answers(p) :
          \/ call' = [op |-> "root", path |-> p, result |-> OrNotDir(r)]
          \/ \E op \in {"file", "find"} : call' = [op |-> op, path |-> p, result |-> r]
    /\ UNCHANGED where

Chroot(p) == call' = [op |-> "chroot", path |-> p, result |-> ENOSYS] /\ UNCHANGED where

\* A step is a call, and call' says with which argument.
Next == /\ call'.path \in Paths
        /\ LET p == call'.path IN Chdir(p) \/ Use(p) \/ Chroot(p)

Spec == Init /\ [][Next]_vars
==============================================================================
