-------------------------------- MODULE EnvMap --------------------------------
(***************************************************************************)
(* What a program may expect of its environment: a variable has the value  *)
(* last put, or else the first one found at the start.  A name that has no *)
(* value may be answered with that of a shorter name it begins with.       *)
(***************************************************************************)
CONSTANTS Names, Values, Shorter, Unset

VARIABLES running, value, answer

vars == <<running, value, answer>>

Init == /\ running = FALSE
        /\ value = [n \in Names |-> Unset]
        /\ answer = Unset

Import(n, v) ==
    /\ ~running /\ value[n] = Unset
    /\ value' = [value EXCEPT ![n] = v]
    /\ UNCHANGED <<running, answer>>

Start == ~running /\ running' = TRUE /\ UNCHANGED <<value, answer>>

Put(n, v) ==
    /\ running
    /\ value' = [value EXCEPT ![n] = v]
    /\ UNCHANGED <<running, answer>>

\* The names whose value a lookup of n may be answered with.
Matches(n) == {m \in Names : (m = n \/ <<m, n>> \in Shorter) /\ value[m] # Unset}

Get(n) ==
    /\ running
    /\ IF Matches(n) = {} THEN answer' = Unset
                          ELSE \E m \in Matches(n) : answer' = value[m]
    /\ UNCHANGED <<running, value>>

Next == \/ Start
        \/ \E n \in Names : Get(n)
        \/ \E n \in Names, v \in Values : Import(n, v) \/ Put(n, v)

Spec == Init /\ [][Next]_vars
==============================================================================
