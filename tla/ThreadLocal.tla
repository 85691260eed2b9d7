----------------------------- MODULE ThreadLocal -----------------------------
(***************************************************************************)
(* "Per thread errno", "currentdir is per thread" (inc/cethread.h): every  *)
(* thread has a cell of its own, which holds what that thread last stored  *)
(* until the thread ends, and starts as zero.                              *)
(***************************************************************************)
CONSTANTS Threads, Values, Zero

VARIABLES cell, ended

vars == <<cell, ended>>

Init == cell = [t \in Threads |-> Zero] /\ ended = {}

Store(t, v) == /\ t \notin ended
               /\ cell' = [cell EXCEPT ![t] = v]
               /\ UNCHANGED ended

End(t) == /\ t \notin ended
          /\ cell' = [cell EXCEPT ![t] = Zero]
          /\ ended' = ended \cup {t}

Next == \E t \in Threads : End(t) \/ \E v \in Values : Store(t, v)

Spec == Init /\ [][Next]_vars
==============================================================================
