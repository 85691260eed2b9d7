--------------------------- MODULE CwdPassingProofs ---------------------------
(***************************************************************************)
(* A child starts in its parent's directory, for any number of processes,  *)
(* directories and values.  There are two halves.  Whatever other values   *)
(* are written, and however they move PWD while the child reads, the child *)
(* gets to PWD unless one hides it (Fresh).  And as long as every parent   *)
(* waits, processes form one line in which all but the last wait, so       *)
(* nobody writes PWD between a parent's write and its child's read (Line). *)
(***************************************************************************)
EXTENDS CwdPassing, FiniteSetTheorems, TLAPS

\* One program runs at the beginning.
OneRoot == \A p, q \in Roots : p = q

------------------------------------------------------------------------------
PwdIs(d) == \E i \in DOMAIN registry :
    registry[i] = [name |-> PWD, type |-> "REG_SZ", data |-> d]

\* PWD is still to be read, or was the first that counts.
Ahead(q) == \E i \in DOMAIN registry : registry[i].name = PWD /\ i > idx[q]
Got(q) == env[q] # <<>> /\ Head(env[q]) = [name |-> PWD, data |-> born[q]]

Fresh(q) ==
    trouble[q] \cap {"refused", "crossed"} = {} =>
        /\ pc[q] = "exec_create" => PwdIs(cwd[q])
        /\ pc[q] \in {"setargv", "initenv"} => PwdIs(born[q])
        /\ pc[q] = "enumerate" /\ "hidden" \notin trouble[q] =>
               /\ Clear(registry) /\ PwdIs(born[q])
               /\ Got(q) \/ (env[q] = <<>> /\ Ahead(q))
        /\ pc[q] = "initdir" /\ "hidden" \notin trouble[q] => Got(q)

\* What xceinit finds.
Unread(q) ==
    /\ pc[q] \in {"none", "setargv", "initenv"} => env[q] = <<>> /\ idx[q] = 0
    /\ pc[q] \in {"none", "setargv", "initenv", "enumerate", "initdir"} => cwd[q] = Top

Reading == \A q \in Procs : Unread(q) /\ Fresh(q)

------------------------------------------------------------------------------
Awaited(c) == \E p \in Procs : pc[p] = "wait" /\ awaits[p] = c

\* The end of the line: the process that runs, or the one that has exited and
\* whose parent has not noticed.
AtEnd(p) == pc[p] \in Starting \cup Running \/ (pc[p] = "exited" /\ Awaited(p))

OneEnd == \A p, q \in Procs : AtEnd(p) /\ AtEnd(q) => p = q

OneParent == \A p, q \in Procs :
    pc[p] = "wait" /\ pc[q] = "wait" /\ awaits[p] = awaits[q] => p = q

Waiting == \A p \in Procs : pc[p] = "wait" => awaits[p] \in Procs /\ pc[awaits[p]] # "none"

NobodyCrossed == \A p \in Procs :
    pc[p] \in OnTheWay \cup {"initdir"} => "crossed" \notin trouble[p]

Line == TypeOK /\ OneEnd /\ OneParent /\ Waiting /\ NobodyCrossed

IInv == TypeOK /\ Reading /\ (waited => Line)

------------------------------------------------------------------------------
\* A write leaves the value, and the others behind or after where they were.
LEMMA WrittenValues ==
    ASSUME NEW r \in Seq(Values), Distinct(r), NEW v \in Values, NEW s \in Written(r, v)
    PROVE  /\ s \in Seq(Values) /\ Distinct(s)
           /\ \E i \in DOMAIN s : s[i] = v
           /\ \A i \in DOMAIN r : r[i].name # v.name => \E j \in DOMAIN s : j >= i /\ s[j] = r[i]
<1>1. CASE \E i \in DOMAIN r : r[i].name = v.name
    <2>1. s = [i \in DOMAIN r |-> IF r[i].name = v.name THEN v ELSE r[i]]
        BY <1>1 DEF Written
    <2>2. s \in Seq(Values) /\ DOMAIN s = DOMAIN r
        BY <2>1
    <2>3. \A i \in DOMAIN r : s[i].name = r[i].name
        BY <2>1
    <2>4. Distinct(s)
        BY <2>2, <2>3 DEF Distinct
    <2>5. \A i \in DOMAIN r : i >= i /\ (r[i].name # v.name => s[i] = r[i])
        BY <2>1
    <2> QED BY <1>1, <2>1, <2>2, <2>4, <2>5
<1>2. CASE ~\E i \in DOMAIN r : r[i].name = v.name
    <2>1. PICK k \in 1 .. Len(r) + 1 :
              s = [i \in 1 .. Len(r) + 1 |-> IF i < k THEN r[i] ELSE IF i = k THEN v ELSE r[i - 1]]
        BY <1>2 DEF Written
    <2>2. /\ \A i \in 1 .. k - 1 : s[i] = r[i]
          /\ s[k] = v
          /\ \A i \in k + 1 .. Len(r) + 1 : i - 1 \in DOMAIN r /\ s[i] = r[i - 1]
          /\ DOMAIN s = 1 .. Len(r) + 1
        BY <2>1
    <2>3. \A i \in 1 .. Len(r) + 1 : s[i] \in Values
        BY <2>2
    <2>4. s \in Seq(Values)
        BY <2>1, <2>3
    <2> DEFINE o(i) == IF i < k THEN i ELSE i - 1
    <2>7. \A i \in DOMAIN s : i # k => o(i) \in DOMAIN r /\ s[i] = r[o(i)]
        <3> SUFFICES ASSUME NEW i \in DOMAIN s, i # k
                     PROVE  o(i) \in DOMAIN r /\ s[i] = r[o(i)]
            OBVIOUS
        <3>1. i \in 1 .. Len(r) + 1 /\ Len(r) \in Nat /\ DOMAIN r = 1 .. Len(r)
            BY <2>2
        <3>2. CASE i < k
            <4>1. i \in 1 .. k - 1 /\ i \in 1 .. Len(r) /\ o(i) = i
                BY <3>1, <3>2
            <4> QED BY <4>1, <3>1, <2>2
        <3>3. CASE i > k
            <4>1. i \in k + 1 .. Len(r) + 1 /\ o(i) = i - 1
                BY <3>1, <3>3
            <4> HIDE DEF o
            <4> QED BY <4>1, <2>2
        <3> QED BY <3>1, <3>2, <3>3
    <2>8. \A i, j \in DOMAIN s : i # k /\ j # k /\ o(i) = o(j) => i = j
        BY <2>2
    <2>9. \A i \in DOMAIN s : i # k => s[i].name # s[k].name
        BY <2>2, <2>7, <1>2
    <2>5. Distinct(s)
        <3> SUFFICES ASSUME NEW i \in DOMAIN s, NEW j \in DOMAIN s, s[i].name = s[j].name, i # j
                     PROVE  FALSE
            BY DEF Distinct
        <3>1. i # k /\ j # k
            BY <2>9
        <3>2. r[o(i)].name = r[o(j)].name /\ o(i) \in DOMAIN r /\ o(j) \in DOMAIN r
            BY <2>7, <3>1
        <3>3. o(i) = o(j)
            BY <3>2 DEF Distinct
        <3> QED BY <2>8, <3>1, <3>3
    <2>6. ASSUME NEW i \in DOMAIN r PROVE \E j \in DOMAIN s : j >= i /\ s[j] = r[i]
        <3>1. CASE i < k
            BY <3>1, <2>2
        <3>2. CASE i >= k
            <4>1. i + 1 \in k + 1 .. Len(r) + 1 /\ (i + 1) - 1 = i
                BY <3>2
            <4> QED BY <4>1, <2>2
        <3> QED BY <3>1, <3>2
    <2> QED BY <2>2, <2>4, <2>5, <2>6
<1> QED BY <1>1, <1>2

LEMMA WriteTyped ==
    ASSUME TypeOK, NEW p \in Procs, NEW v \in Values, XCERegSetValueExA(p, v)
    PROVE  /\ registry' \in Seq(Values) /\ Distinct(registry')
           /\ trouble' \in [Procs -> SUBSET Troubles]
<1>1. registry' \in Seq(Values) /\ Distinct(registry')
    BY WrittenValues DEF XCERegSetValueExA, TypeOK
<1>2. \A q \in Procs : Befalls(q, v.name) \subseteq Troubles
    BY DEF Befalls, Troubles
<1>3. \A q \in Procs : trouble[q] \cup Befalls(q, v.name) \in SUBSET Troubles
    BY <1>2 DEF TypeOK
<1> QED BY <1>1, <1>3 DEF XCERegSetValueExA

LEMMA Typing == TypeOK /\ [Next]_vars => TypeOK'
<1> SUFFICES ASSUME TypeOK, [Next]_vars PROVE TypeOK'
    OBVIOUS
<1> USE TopAssumption DEF TypeOK, Step, local, Starting, Running
<1>1. CASE UNCHANGED vars
    BY <1>1 DEF vars
<1>2. CASE MkdirRmdir
    BY <1>2 DEF MkdirRmdir
<1>3. ASSUME NEW p \in Procs, Chdir(p) PROVE TypeOK'
    BY <1>3 DEF Chdir
<1>4. ASSUME NEW p \in Procs, ExecWrite(p) PROVE TypeOK'
    <2>1. [name |-> PWD, type |-> "REG_SZ", data |-> cwd[p]] \in Values
        BY NamesAssumption DEF Values
    <2>2. /\ registry' \in Seq(Values) /\ Distinct(registry')
          /\ trouble' \in [Procs -> SUBSET Troubles]
        <3>1. CASE XCERegSetValueExA(p, [name |-> PWD, type |-> "REG_SZ", data |-> cwd[p]])
            BY <3>1, <2>1, WriteTyped
        <3>2. CASE trouble' = [trouble EXCEPT ![p] = {"refused"}] /\ UNCHANGED registry
            BY <3>2 DEF Troubles
        <3> QED BY <1>4, <3>1, <3>2 DEF ExecWrite
    <2> QED BY <1>4, <2>2 DEF ExecWrite
<1>13. ASSUME NEW p \in Procs, XCESetEnvironmentVariableInRegA(p) PROVE TypeOK'
    <2>1. /\ registry' \in Seq(Values) /\ Distinct(registry')
          /\ trouble' \in [Procs -> SUBSET Troubles]
        BY <1>13, WriteTyped DEF XCESetEnvironmentVariableInRegA
    <2> QED BY <1>13, <2>1 DEF XCESetEnvironmentVariableInRegA
<1>5. ASSUME NEW p \in Procs, ExecCreate(p) PROVE TypeOK'
    <2>1. PICK c \in Procs \ {p} :
              /\ born' = [born EXCEPT ![c] = cwd[p]]
              /\ trouble' = [trouble EXCEPT ![c] = trouble[p]]
              /\ \/ /\ pc' = [pc EXCEPT ![p] = "wait", ![c] = "setargv"]
                    /\ awaits' = [awaits EXCEPT ![p] = c]
                    /\ UNCHANGED waited
                 \/ /\ pc' = [pc EXCEPT ![p] = "main", ![c] = "setargv"]
                    /\ waited' = FALSE
                    /\ UNCHANGED awaits
        BY <1>5 DEF ExecCreate
    <2>2. born' \in [Procs -> Dirs] /\ trouble' \in [Procs -> SUBSET Troubles]
        BY <2>1
    <2>3. awaits' \in [Procs -> Procs \cup {None}] /\ waited' \in BOOLEAN
        BY <2>1
    <2>4. pc' \in [Procs -> {"none", "wait", "exited"} \cup Starting \cup Running]
        BY <2>1
    <2> QED BY <1>5, <2>2, <2>3, <2>4 DEF ExecCreate
<1>12. ASSUME NEW p \in Procs, ExecCreateFails(p) PROVE TypeOK'
    BY <1>12 DEF ExecCreateFails
<1>6. ASSUME NEW p \in Procs, WaitDone(p) PROVE TypeOK'
    BY <1>6 DEF WaitDone
<1>7. ASSUME NEW p \in Procs, Exit(p) PROVE TypeOK'
    BY <1>7 DEF Exit
<1>8. ASSUME NEW p \in Procs, SetArgv(p) PROVE TypeOK'
    BY <1>8 DEF SetArgv
<1>14. ASSUME NEW p \in Procs, InitEnvOpen(p) PROVE TypeOK'
    <2>1. trouble' \in [Procs -> SUBSET Troubles]
        <3>1. trouble[p] \cup {t \in {"hidden"} : ~Clear(registry)} \in SUBSET Troubles
            BY DEF Troubles
        <3>2. trouble[p] \cup {"refused"} \in SUBSET Troubles
            BY DEF Troubles
        <3> QED BY <1>14, <3>1, <3>2 DEF InitEnvOpen
    <2>2. pc' \in [Procs -> {"none", "wait", "exited"} \cup Starting \cup Running]
        BY <1>14 DEF InitEnvOpen
    <2> QED BY <1>14, <2>1, <2>2 DEF InitEnvOpen
<1>9. ASSUME NEW p \in Procs, InitEnv(p) PROVE TypeOK'
    <2> DEFINE v == registry[idx[p] + 1]
    <2>1. v \in Values
        <3>1. registry \in Seq(Values) /\ idx[p] \in Nat /\ idx[p] < Len(registry)
            BY <1>9 DEF InitEnv
        <3> HIDE DEF TypeOK
        <3> QED BY <3>1
    <2>2. v.type = "REG_SZ" /\ v.name \in Beginnings => [name |-> v.name, data |-> v.data] \in Entries
        BY <2>1 DEF Values, Entries
    <2>3. env' \in [Procs -> Seq(Entries)]
        <3>1. CASE v.type = "REG_SZ" /\ v.name \in Beginnings
            <4>1. Append(env[p], [name |-> v.name, data |-> v.data]) \in Seq(Entries)
                BY <2>2, <3>1
            <4> QED BY <1>9, <3>1, <4>1 DEF InitEnv
        <3>2. CASE ~(v.type = "REG_SZ" /\ v.name \in Beginnings)
            BY <1>9, <3>2 DEF InitEnv
        <3> QED BY <3>1, <3>2
    <2>4. idx' \in [Procs -> Nat]
        BY <1>9 DEF InitEnv
    <2> QED BY <1>9, <2>3, <2>4 DEF InitEnv
<1>15. ASSUME NEW p \in Procs, InitEnvEnd(p) PROVE TypeOK'
    BY <1>15 DEF InitEnvEnd
<1>10. ASSUME NEW p \in Procs, InitDir(p) PROVE TypeOK'
    <2>1. env[p] # <<>> => Head(env[p]) \in Entries
        <3>1. env[p] \in Seq(Entries)
            OBVIOUS
        <3> HIDE DEF TypeOK
        <3> QED BY <3>1
    <2>3. \A e \in Entries : e.data \in Dirs
        BY DEF Entries
    <2>2. cwd' \in [Procs -> Dirs]
        BY <1>10, <2>1, <2>3 DEF InitDir
    <2> QED BY <1>10, <2>2 DEF InitDir
<1>11. ASSUME NEW p \in Procs, Main(p) PROVE TypeOK'
    BY <1>11 DEF Main
<1> QED BY <1>1, <1>2, <1>3, <1>4, <1>5, <1>6, <1>7, <1>8, <1>9, <1>10, <1>11, <1>12,
           <1>13, <1>14, <1>15 DEF Next

LEMMA InitTyped == Init => TypeOK
<1>1. \A n \in Nat : BoundedSeq(Values, n) \subseteq Seq(Values)
    BY DEF BoundedSeq, SeqOf
<1>2. Cardinality(Names) \in Nat
    BY NamesAssumption, FS_CardinalityType
<1> QED BY <1>1, <1>2, RootsAssumption, TopAssumption
        DEF Init, TypeOK, Starting, Running, Troubles

\* The type invariant, whatever calls and failures happen.
THEOREM TypeCorrect == Spec => []TypeOK
BY InitTyped, Typing, PTL DEF Spec

------------------------------------------------------------------------------
(* What the child reads *)

\* Who does not move, while the registry stays.
LEMMA Stays ==
    ASSUME Reading, NEW q \in Procs, UNCHANGED registry, pc'[q] = pc[q], cwd'[q] = cwd[q],
           born'[q] = born[q], env'[q] = env[q], idx'[q] = idx[q], trouble'[q] = trouble[q]
    PROVE  Unread(q)' /\ Fresh(q)'
<1>1. Unread(q) /\ Fresh(q)
    BY DEF Reading
<1>2. Unread(q)'
    BY <1>1 DEF Unread
<1>3. Fresh(q)'
    BY <1>1 DEF Fresh, PwdIs, Clear, Got, Ahead
<1> QED BY <1>2, <1>3

\* A write of another value leaves PWD ahead of who has not read it.
LEMMA WriteKeeps ==
    ASSUME TypeOK, Reading, NEW p \in Procs, NEW v \in Values, XCERegSetValueExA(p, v),
           UNCHANGED <<cwd, env, idx, born>>,
           NEW q \in Procs \ {p}, pc'[q] = pc[q]
    PROVE  Unread(q)' /\ Fresh(q)'
<1> USE DEF TypeOK
<1>1. Unread(q)'
    BY DEF Reading, Unread
<1>2. trouble'[q] = trouble[q] \cup Befalls(q, v.name)
    BY DEF XCERegSetValueExA
<1>3. /\ registry' \in Seq(Values)
      /\ \A i \in DOMAIN registry : registry[i].name # v.name =>
             \E j \in DOMAIN registry' : j >= i /\ registry'[j] = registry[i]
    BY WrittenValues DEF XCERegSetValueExA
<1>4. SUFFICES ASSUME trouble'[q] \cap {"refused", "crossed"} = {}, pc[q] \in OnTheWay \cup {"initdir"}
               PROVE  Fresh(q)'
    BY <1>1 DEF Fresh, OnTheWay
<1>5. Fresh(q) /\ trouble[q] \cap {"refused", "crossed"} = {}
    BY <1>2, <1>4 DEF Reading
<1>6. CASE pc[q] = "initdir"
    BY <1>2, <1>4, <1>5, <1>6 DEF Fresh, Got
<1>7. CASE pc[q] \in OnTheWay
    <2>1. v.name # PWD
        BY <1>2, <1>4, <1>7 DEF Befalls
    <2>2. ASSUME NEW d, PwdIs(d) PROVE PwdIs(d)'
        <3>1. PICK i \in DOMAIN registry : registry[i] = [name |-> PWD, type |-> "REG_SZ", data |-> d]
            BY <2>2 DEF PwdIs
        <3>2. registry[i].name # v.name
            BY <2>1, <3>1
        <3>3. PICK j \in DOMAIN registry' : registry'[j] = registry[i]
            BY <1>3, <3>2
        <3> QED BY <3>1, <3>3 DEF PwdIs
    <2>3. Ahead(q) => Ahead(q)'
        <3> SUFFICES ASSUME Ahead(q) PROVE Ahead(q)'
            OBVIOUS
        <3>1. PICK i \in DOMAIN registry : registry[i].name = PWD /\ i > idx[q]
            BY DEF Ahead
        <3>2. PICK j \in DOMAIN registry' : j >= i /\ registry'[j] = registry[i]
            BY <1>3, <2>1, <3>1
        <3>3. j > idx[q] /\ registry'[j].name = PWD
            BY <1>3, <3>1, <3>2
        <3> QED BY <3>2, <3>3 DEF Ahead
    <2>4. Got(q)' <=> Got(q)
        BY DEF Got
    <2>5. pc[q] = "enumerate" /\ "hidden" \notin trouble'[q]
              => Clear(registry') /\ "hidden" \notin trouble[q]
        BY <1>2 DEF Befalls
    <2>6. pc'[q] = pc[q] /\ cwd'[q] = cwd[q] /\ born'[q] = born[q] /\ env'[q] = env[q]
        OBVIOUS
    <2>7. /\ pc[q] = "exec_create" => PwdIs(cwd[q])'
          /\ pc[q] \in {"setargv", "initenv"} => PwdIs(born[q])'
        BY <1>5, <2>2, <2>6 DEF Fresh, PwdIs
    <2>8. pc[q] = "enumerate" /\ "hidden" \notin trouble'[q] =>
              /\ Clear(registry)' /\ PwdIs(born[q])'
              /\ Got(q)' \/ ((env[q] = <<>>)' /\ Ahead(q)')
        <3> SUFFICES ASSUME pc[q] = "enumerate", "hidden" \notin trouble'[q]
                     PROVE  /\ Clear(registry)' /\ PwdIs(born[q])'
                            /\ Got(q)' \/ ((env[q] = <<>>)' /\ Ahead(q)')
            OBVIOUS
        <3>1. PwdIs(born[q]) /\ (Got(q) \/ (env[q] = <<>> /\ Ahead(q)))
            BY <1>5, <2>5 DEF Fresh
        <3>2. PwdIs(born[q])'
            BY <3>1, <2>2, <2>6 DEF PwdIs
        <3>3. Clear(registry)'
            BY <2>5 DEF Clear
        <3>4. Got(q)' \/ ((env[q] = <<>>)' /\ Ahead(q)')
            BY <3>1, <2>3, <2>4, <2>6
        <3> QED BY <3>2, <3>3, <3>4
    <2> QED BY <1>7, <2>6, <2>7, <2>8 DEF Fresh, OnTheWay
<1> QED BY <1>4, <1>6, <1>7

\* Before PWD nothing answers for it and nothing ends the loop: the next value is
\* PWD, or is passed.
LEMMA ReadNext ==
    ASSUME TypeOK, NEW q \in Procs, Clear(registry), PwdIs(born[q]), env[q] = <<>>, Ahead(q)
    PROVE  /\ idx[q] < Len(registry) /\ idx[q] + 1 \in DOMAIN registry
           /\ \/ registry[idx[q] + 1] = [name |-> PWD, type |-> "REG_SZ", data |-> born[q]]
              \/ ~Hides(registry[idx[q] + 1]) /\ \E i \in DOMAIN registry :
                     registry[i].name = PWD /\ i > idx[q] + 1
<1> DEFINE r == registry
<1>1. r \in Seq(Values) /\ idx[q] \in Nat /\ Distinct(r)
    BY DEF TypeOK
<1>2. PICK i \in DOMAIN r : r[i].name = PWD /\ i > idx[q]
    BY DEF Ahead
<1>3. \A j \in DOMAIN r : r[j].name = PWD => j = i
    BY <1>1, <1>2 DEF Distinct
<1>4. r[i] = [name |-> PWD, type |-> "REG_SZ", data |-> born[q]]
    BY <1>3 DEF PwdIs
<1>5. \A j \in 1 .. i - 1 : ~Hides(r[j])
    BY <1>3 DEF Clear
<1>6. idx[q] < Len(r) /\ idx[q] + 1 \in DOMAIN r
    BY <1>1, <1>2
<1>7. CASE i = idx[q] + 1
    BY <1>4, <1>6, <1>7
<1>8. CASE i # idx[q] + 1
    <2>1. i > idx[q] + 1 /\ idx[q] + 1 \in 1 .. i - 1
        BY <1>1, <1>2, <1>8
    <2> QED BY <1>2, <1>5, <1>6, <2>1
<1> QED BY <1>7, <1>8

LEMMA ReadingSteps == TypeOK /\ Reading /\ [Next]_vars => Reading'
<1> SUFFICES ASSUME TypeOK, Reading, [Next]_vars PROVE Reading'
    OBVIOUS
<1>o. ASSUME NEW p \in Procs, Unread(p)', Fresh(p)',
             \A q \in Procs \ {p} : Unread(q)' /\ Fresh(q)'
      PROVE  Reading'
    BY <1>o DEF Reading
<1>u. \A q \in Procs : Unread(q) /\ Fresh(q)
    BY DEF Reading
<1>1. CASE UNCHANGED vars
    BY <1>1, Stays DEF vars, Reading
<1>2. CASE MkdirRmdir
    BY <1>2, Stays DEF MkdirRmdir, local, Reading
<1>3. ASSUME NEW p \in Procs, Chdir(p) PROVE Reading'
    <2>1. \A q \in Procs \ {p} : Unread(q)' /\ Fresh(q)'
        BY <1>3, Stays DEF Chdir, local, TypeOK
    <2>2. Unread(p)' /\ Fresh(p)'
        BY <1>3 DEF Chdir, Unread, Fresh
    <2> QED BY <1>o, <2>1, <2>2
<1>4. ASSUME NEW p \in Procs, ExecWrite(p) PROVE Reading'
    <2> DEFINE v == [name |-> PWD, type |-> "REG_SZ", data |-> cwd[p]]
    <2>1. v \in Values
        BY NamesAssumption DEF Values, TypeOK
    <2>2. /\ pc'[p] = "exec_create" /\ \A q \in Procs \ {p} : pc'[q] = pc[q]
          /\ UNCHANGED <<cwd, env, idx, born>>
        BY <1>4 DEF ExecWrite, Step, local, TypeOK
    <2>3. Unread(p)'
        BY <2>2 DEF Unread
    <2>4. CASE XCERegSetValueExA(p, v)
        <3> HIDE DEF v
        <3>1. \A q \in Procs \ {p} : Unread(q)' /\ Fresh(q)'
            BY <2>1, <2>2, <2>4, WriteKeeps
        <3>2. \E i \in DOMAIN registry' : registry'[i] = v
            BY <2>1, <2>4, WrittenValues DEF XCERegSetValueExA, TypeOK
        <3>3. PwdIs(cwd[p])'
            BY <2>2, <3>2 DEF PwdIs, v
        <3>4. Fresh(p)'
            BY <2>2, <3>3 DEF Fresh
        <3> QED BY <1>o, <2>3, <3>1, <3>4
    <2>5. CASE trouble' = [trouble EXCEPT ![p] = {"refused"}] /\ UNCHANGED registry
        <3>1. \A q \in Procs \ {p} : Unread(q)' /\ Fresh(q)'
            BY <2>2, <2>5, Stays DEF TypeOK
        <3>2. "refused" \in trouble'[p]
            BY <2>5 DEF TypeOK
        <3>3. Fresh(p)'
            BY <3>2 DEF Fresh
        <3> QED BY <1>o, <2>3, <3>1, <3>3
    <2> QED BY <1>4, <2>4, <2>5 DEF ExecWrite
<1>5. ASSUME NEW p \in Procs, XCESetEnvironmentVariableInRegA(p) PROVE Reading'
    <2>1. PICK v \in Values : XCERegSetValueExA(p, v)
        BY <1>5 DEF XCESetEnvironmentVariableInRegA
    <2>2. UNCHANGED <<cwd, env, idx, born, pc>> /\ pc[p] = "main"
        BY <1>5 DEF XCESetEnvironmentVariableInRegA, local
    <2>3. \A q \in Procs \ {p} : Unread(q)' /\ Fresh(q)'
        BY <2>1, <2>2, WriteKeeps
    <2>4. Unread(p)' /\ Fresh(p)'
        BY <2>2 DEF Unread, Fresh
    <2> QED BY <1>o, <2>3, <2>4
<1>6. ASSUME NEW p \in Procs, ExecCreate(p) PROVE Reading'
    <2>1. PICK c \in Procs \ {p} :
              /\ pc[c] = "none"
              /\ born' = [born EXCEPT ![c] = cwd[p]]
              /\ trouble' = [trouble EXCEPT ![c] = trouble[p]]
              /\ \/ pc' = [pc EXCEPT ![p] = "wait", ![c] = "setargv"]
                 \/ pc' = [pc EXCEPT ![p] = "main", ![c] = "setargv"]
        BY <1>6 DEF ExecCreate
    <2>2. UNCHANGED <<registry, cwd, env, idx>> /\ pc[p] = "exec_create"
        BY <1>6 DEF ExecCreate
    <2>3. /\ pc'[p] \in {"wait", "main"} /\ pc'[c] = "setargv"
          /\ born'[c] = cwd[p] /\ trouble'[c] = trouble[p]
        BY <2>1 DEF TypeOK
    <2>4. ASSUME NEW q \in Procs \ {p, c} PROVE Unread(q)' /\ Fresh(q)'
        <3>1. pc'[q] = pc[q] /\ born'[q] = born[q] /\ trouble'[q] = trouble[q]
            BY <2>1 DEF TypeOK
        <3> QED BY <2>2, <3>1, Stays
    <2>5. Unread(p)' /\ Fresh(p)'
        BY <2>3 DEF Unread, Fresh
    <2>6. Unread(c)'
        BY <1>u, <2>1, <2>2, <2>3 DEF Unread
    <2>7. trouble[p] \cap {"refused", "crossed"} = {} => PwdIs(cwd[p])
        BY <1>u, <2>2 DEF Fresh
    <2>8. Fresh(c)'
        BY <2>2, <2>3, <2>7 DEF Fresh, PwdIs
    <2> QED BY <2>4, <2>5, <2>6, <2>8 DEF Reading
<1>7. ASSUME NEW p \in Procs, ExecCreateFails(p) \/ WaitDone(p) \/ Exit(p) \/ Main(p)
      PROVE  Reading'
    <2>1. pc'[p] \in {"main", "exited"} /\ \A q \in Procs \ {p} : pc'[q] = pc[q]
        BY <1>7 DEF ExecCreateFails, WaitDone, Exit, Main, Step, TypeOK
    <2>2. UNCHANGED <<registry, cwd, env, idx, born, trouble>>
        BY <1>7 DEF ExecCreateFails, WaitDone, Exit, Main, local
    <2>3. \A q \in Procs \ {p} : Unread(q)' /\ Fresh(q)'
        BY <2>1, <2>2, Stays
    <2>4. Unread(p)' /\ Fresh(p)'
        BY <2>1 DEF Unread, Fresh
    <2> QED BY <1>o, <2>3, <2>4
<1>8. ASSUME NEW p \in Procs, SetArgv(p) PROVE Reading'
    <2>1. /\ pc[p] = "setargv" /\ pc'[p] = "initenv"
          /\ \A q \in Procs \ {p} : pc'[q] = pc[q]
        BY <1>8 DEF SetArgv, Step, TypeOK
    <2>2. UNCHANGED <<registry, cwd, env, idx, born, trouble>>
        BY <1>8 DEF SetArgv
    <2>3. \A q \in Procs \ {p} : Unread(q)' /\ Fresh(q)'
        BY <2>1, <2>2, Stays
    <2>4. Unread(p)' /\ Fresh(p)'
        BY <1>u, <2>1, <2>2 DEF Unread, Fresh, PwdIs
    <2> QED BY <1>o, <2>3, <2>4
<1>9. ASSUME NEW p \in Procs, InitEnvOpen(p) PROVE Reading'
    <2>1. UNCHANGED <<registry, cwd, env, idx, born>> /\ pc[p] = "initenv"
        BY <1>9 DEF InitEnvOpen, Step, local
    <2>2. \A q \in Procs \ {p} : pc'[q] = pc[q] /\ trouble'[q] = trouble[q]
        BY <1>9 DEF InitEnvOpen, Step, TypeOK
    <2>3. \A q \in Procs \ {p} : Unread(q)' /\ Fresh(q)'
        BY <2>1, <2>2, Stays
    <2>4. CASE /\ Step(p, "initenv", "enumerate")
               /\ trouble' = [trouble EXCEPT ![p] = @ \cup {t \in {"hidden"} : ~Clear(registry)}]
        <3>1. pc'[p] = "enumerate" /\ trouble'[p] = trouble[p] \cup {t \in {"hidden"} : ~Clear(registry)}
            BY <2>4 DEF Step, TypeOK
        <3>2. env[p] = <<>> /\ idx[p] = 0 /\ cwd[p] = Top
            BY <1>u, <2>1 DEF Unread
        <3>3. Unread(p)'
            BY <2>1, <3>1, <3>2 DEF Unread
        <3>4. SUFFICES ASSUME trouble'[p] \cap {"refused", "crossed"} = {}, "hidden" \notin trouble'[p]
                       PROVE  Clear(registry) /\ PwdIs(born[p]) /\ Ahead(p)
            BY <1>o, <2>1, <2>3, <3>1, <3>2, <3>3 DEF Fresh, PwdIs, Clear, Ahead
        <3>5. Clear(registry)
            BY <3>1, <3>4
        <3>6. PwdIs(born[p])
            BY <1>u, <2>1, <3>1, <3>4 DEF Fresh
        <3>7. \A i \in DOMAIN registry : i > 0
            BY DEF TypeOK
        <3>8. PICK i \in DOMAIN registry : registry[i] = [name |-> PWD, type |-> "REG_SZ", data |-> born[p]]
            BY <3>6 DEF PwdIs
        <3>9. registry[i].name = PWD /\ i > idx[p]
            BY <3>2, <3>7, <3>8
        <3> QED BY <3>5, <3>6, <3>9 DEF Ahead
    <2>5. CASE /\ Step(p, "initenv", "initdir")
               /\ trouble' = [trouble EXCEPT ![p] = @ \cup {"refused"}]
        <3>1. pc'[p] = "initdir" /\ "refused" \in trouble'[p]
            BY <2>5 DEF Step, TypeOK
        <3>2. Unread(p)'
            BY <1>u, <2>1, <3>1 DEF Unread
        <3>3. Fresh(p)'
            BY <3>1 DEF Fresh
        <3> QED BY <1>o, <2>3, <3>2, <3>3
    <2> QED BY <1>9, <2>4, <2>5 DEF InitEnvOpen
<1>10. ASSUME NEW p \in Procs, InitEnv(p) PROVE Reading'
    <2> DEFINE v == registry[idx[p] + 1]
               e == [name |-> v.name, data |-> v.data]
               counts == v.type = "REG_SZ" /\ v.name \in Beginnings
    <2>1. /\ UNCHANGED <<registry, cwd, born, pc, trouble>>
          /\ pc[p] = "enumerate" /\ idx[p] < Len(registry) /\ v.type # "long"
        BY <1>10 DEF InitEnv
    <2>2. /\ \A q \in Procs \ {p} : env'[q] = env[q] /\ idx'[q] = idx[q]
          /\ env'[p] = IF counts THEN Append(env[p], e) ELSE env[p]
          /\ idx'[p] = idx[p] + 1
        BY <1>10 DEF InitEnv, TypeOK
    <2>3. \A q \in Procs \ {p} : Unread(q)' /\ Fresh(q)'
        BY <2>1, <2>2, Stays
    <2>4. Unread(p)'
        BY <1>u, <2>1 DEF Unread
    <2>5. SUFFICES ASSUME trouble[p] \cap {"refused", "crossed", "hidden"} = {}
                   PROVE  Got(p)' \/ (env'[p] = <<>> /\ Ahead(p)')
        <3>1. trouble'[p] \cap {"refused", "crossed"} = {} /\ "hidden" \notin trouble'[p]
                  => trouble[p] \cap {"refused", "crossed", "hidden"} = {}
            BY <2>1
        <3>2. trouble[p] \cap {"refused", "crossed", "hidden"} = {} => Clear(registry) /\ PwdIs(born[p])
            BY <1>u, <2>1 DEF Fresh
        <3>3. Fresh(p)'
            BY <2>1, <2>5, <3>1, <3>2 DEF Fresh, PwdIs, Clear
        <3> QED BY <1>o, <2>3, <2>4, <3>3
    <2>6. /\ Clear(registry) /\ PwdIs(born[p])
          /\ Got(p) \/ (env[p] = <<>> /\ Ahead(p))
        BY <1>u, <2>1, <2>5 DEF Fresh
    <2>t. env[p] \in Seq(Entries) /\ idx[p] \in Nat
        BY DEF TypeOK
    <2>7. CASE Got(p)
        <3>1. env'[p] # <<>> /\ Head(env'[p]) = Head(env[p])
            BY <2>2, <2>7, <2>t DEF Got
        <3> QED BY <2>1, <2>7, <3>1 DEF Got
    <2>8. CASE env[p] = <<>> /\ Ahead(p)
        <3>1. CASE v = [name |-> PWD, type |-> "REG_SZ", data |-> born[p]]
            <4>1. counts /\ e = [name |-> PWD, data |-> born[p]]
                BY <3>1, NamesAssumption
            <4> HIDE DEF e, counts
            <4>2. env'[p] = <<e>>
                BY <2>2, <2>8, <4>1
            <4>3. env'[p] # <<>> /\ Head(env'[p]) = e
                BY <4>2
            <4> QED BY <2>1, <4>1, <4>3 DEF Got
        <3>2. CASE ~Hides(v) /\ \E i \in DOMAIN registry : registry[i].name = PWD /\ i > idx[p] + 1
            <4>1. env'[p] = <<>>
                BY <2>2, <2>8, <3>2 DEF Hides
            <4>2. Ahead(p)'
                BY <2>1, <2>2, <3>2 DEF Ahead
            <4> QED BY <4>1, <4>2
        <3> QED BY <2>6, <2>8, <3>1, <3>2, ReadNext
    <2> QED BY <2>6, <2>7, <2>8
<1>11. ASSUME NEW p \in Procs, InitEnvEnd(p) PROVE Reading'
    <2>1. /\ UNCHANGED <<registry, cwd, env, idx, born, trouble>> /\ pc[p] = "enumerate"
          /\ idx[p] < Len(registry) => registry[idx[p] + 1].type = "long"
        BY <1>11 DEF InitEnvEnd, Step, local
    <2>2. pc'[p] = "initdir" /\ \A q \in Procs \ {p} : pc'[q] = pc[q]
        BY <1>11 DEF InitEnvEnd, Step, TypeOK
    <2>3. \A q \in Procs \ {p} : Unread(q)' /\ Fresh(q)'
        BY <2>1, <2>2, Stays
    <2>4. Unread(p)'
        BY <1>u, <2>1, <2>2 DEF Unread
    <2>5. trouble[p] \cap {"refused", "crossed"} = {} /\ "hidden" \notin trouble[p] => Got(p)
        <3> SUFFICES ASSUME trouble[p] \cap {"refused", "crossed"} = {}, "hidden" \notin trouble[p],
                            ~Got(p)
                     PROVE  FALSE
            OBVIOUS
        <3>1. Clear(registry) /\ PwdIs(born[p]) /\ env[p] = <<>> /\ Ahead(p)
            BY <1>u, <2>1 DEF Fresh
        <3>2. registry[idx[p] + 1].type = "long"
            BY <2>1, <3>1, ReadNext, Zenon
        <3>3. \/ registry[idx[p] + 1] = [name |-> PWD, type |-> "REG_SZ", data |-> born[p]]
              \/ ~Hides(registry[idx[p] + 1])
            BY <3>1, ReadNext, Zenon
        <3>4. registry[idx[p] + 1] # [name |-> PWD, type |-> "REG_SZ", data |-> born[p]]
            BY <3>2
        <3> QED BY <3>2, <3>3, <3>4 DEF Hides
    <2>6. Fresh(p)'
        BY <2>1, <2>2, <2>5 DEF Fresh, Got
    <2> QED BY <1>o, <2>3, <2>4, <2>6
<1>12. ASSUME NEW p \in Procs, InitDir(p) PROVE Reading'
    <2>1. /\ UNCHANGED <<registry, env, idx, born, trouble>>
          /\ \A q \in Procs \ {p} : cwd'[q] = cwd[q]
        BY <1>12 DEF InitDir, local, TypeOK
    <2>2. pc'[p] = "started" /\ \A q \in Procs \ {p} : pc'[q] = pc[q]
        BY <1>12 DEF InitDir, Step, TypeOK
    <2>3. \A q \in Procs \ {p} : Unread(q)' /\ Fresh(q)'
        BY <2>1, <2>2, Stays
    <2>4. Unread(p)' /\ Fresh(p)'
        BY <2>2 DEF Unread, Fresh
    <2> QED BY <1>o, <2>3, <2>4
<1> QED BY <1>1, <1>2, <1>3, <1>4, <1>5, <1>6, <1>7, <1>8, <1>9, <1>10, <1>11, <1>12 DEF Next

------------------------------------------------------------------------------
(* Who runs at the same time *)

LEMMA Initially == OneRoot /\ Init => IInv
<1> SUFFICES ASSUME OneRoot, Init PROVE IInv
    OBVIOUS
<1>1. TypeOK
    BY InitTyped
<1>2. OneEnd
    BY DEF Init, OneRoot, OneEnd, AtEnd, Awaited, Starting, Running
<1>3. Reading
    BY RootsAssumption DEF Init, Reading, Unread, Fresh
<1>4. OneParent /\ Waiting /\ NobodyCrossed
    BY DEF Init, OneParent, Waiting, NobodyCrossed
<1> QED BY <1>1, <1>2, <1>3, <1>4 DEF IInv, Line

\* A step of one process from one running label to another moves nobody else.
LEMMA Running_step ==
    ASSUME Line, NEW p \in Procs, NEW to \in Starting \cup Running,
           pc[p] \in Starting \cup Running, pc' = [pc EXCEPT ![p] = to],
           UNCHANGED awaits
    PROVE  OneEnd' /\ OneParent' /\ Waiting'
<1>1. \A q \in Procs : q # p => pc'[q] = pc[q]
    BY DEF Line, TypeOK
<1>2. pc'[p] = to /\ to \notin {"none", "wait", "exited"} /\ pc[p] \notin {"none", "wait", "exited"}
    BY DEF Line, TypeOK, Starting, Running
<1>3. \A q \in Procs : AtEnd(q)' => AtEnd(q)
    BY <1>1, <1>2 DEF AtEnd, Awaited
<1>4. OneEnd'
    BY <1>3 DEF Line, OneEnd
<1>5. OneParent'
    BY <1>1, <1>2 DEF Line, OneParent
<1>6. Waiting'
    BY <1>1, <1>2 DEF Line, Waiting
<1> QED BY <1>4, <1>5, <1>6

\* The process that runs is the only one that does.
LEMMA Alone ==
    ASSUME Line, NEW p \in Procs, NEW q \in Procs, p # q,
           pc[p] \in Starting \cup Running
    PROVE  pc[q] \notin Starting \cup Running
BY DEF Line, OneEnd, AtEnd

\* The process that runs writes: it crosses nobody.
LEMMA WriteCrossesNobody ==
    ASSUME Line, NEW p \in Procs, pc[p] = "main", NEW v \in Values, XCERegSetValueExA(p, v),
           \A q \in Procs \ {p} : pc'[q] = pc[q]
    PROVE  NobodyCrossed'
<1>1. trouble'[p] = {}
    BY DEF XCERegSetValueExA
<1>2. \A q \in Procs \ {p} : pc[q] \notin OnTheWay \cup {"initdir"}
    BY Alone DEF OnTheWay, Starting, Running
<1> QED BY <1>1, <1>2 DEF NobodyCrossed

LEMMA LineSteps == Line /\ [Next]_vars /\ waited' => Line'
<1> SUFFICES ASSUME Line, [Next]_vars, waited' PROVE Line'
    OBVIOUS
<1>t. TypeOK /\ TypeOK'
    BY Typing DEF Line
<1>c. ASSUME OneEnd' /\ OneParent' /\ Waiting', UNCHANGED trouble,
             \A q \in Procs : pc'[q] \in OnTheWay \cup {"initdir"} => pc[q] \in OnTheWay \cup {"initdir"}
      PROVE  Line'
    BY <1>c, <1>t DEF Line, NobodyCrossed
<1>1. CASE UNCHANGED vars
    BY <1>1, <1>t DEF Line, OneEnd, AtEnd, Awaited, OneParent, Waiting, NobodyCrossed, vars
<1>2. CASE MkdirRmdir
    BY <1>2, <1>t DEF MkdirRmdir, Line, OneEnd, AtEnd, Awaited, OneParent, Waiting, NobodyCrossed
<1>3. ASSUME NEW p \in Procs, Chdir(p) PROVE Line'
    BY <1>3, <1>t DEF Chdir, Line, OneEnd, AtEnd, Awaited, OneParent, Waiting, NobodyCrossed
<1>4. ASSUME NEW p \in Procs, ExecWrite(p) PROVE Line'
    <2>1. OneEnd' /\ OneParent' /\ Waiting'
        BY <1>4, Running_step DEF ExecWrite, Step, Starting, Running
    <2>2. pc[p] = "main" /\ \A q \in Procs \ {p} : pc'[q] = pc[q]
        BY <1>4, <1>t DEF ExecWrite, Step, TypeOK
    <2>3. CASE XCERegSetValueExA(p, [name |-> PWD, type |-> "REG_SZ", data |-> cwd[p]])
        <3>1. [name |-> PWD, type |-> "REG_SZ", data |-> cwd[p]] \in Values
            BY <1>t, NamesAssumption DEF Values, TypeOK
        <3> QED BY <1>t, <2>1, <2>2, <2>3, <3>1, WriteCrossesNobody DEF Line
    <2>4. CASE trouble' = [trouble EXCEPT ![p] = {"refused"}] /\ UNCHANGED registry
        <3>1. "crossed" \notin trouble'[p] /\ \A q \in Procs \ {p} : trouble'[q] = trouble[q]
            BY <2>4, <1>t DEF TypeOK
        <3> QED BY <1>t, <2>1, <2>2, <3>1 DEF Line, NobodyCrossed
    <2> QED BY <1>4, <2>3, <2>4 DEF ExecWrite
<1>5. ASSUME NEW p \in Procs, XCESetEnvironmentVariableInRegA(p) PROVE Line'
    <2>1. PICK v \in Values : XCERegSetValueExA(p, v)
        BY <1>5 DEF XCESetEnvironmentVariableInRegA
    <2>2. UNCHANGED <<pc, awaits>> /\ pc[p] = "main"
        BY <1>5 DEF XCESetEnvironmentVariableInRegA
    <2>3. NobodyCrossed'
        BY <2>1, <2>2, WriteCrossesNobody
    <2>4. OneEnd' /\ OneParent' /\ Waiting'
        BY <2>2 DEF Line, OneEnd, AtEnd, Awaited, OneParent, Waiting
    <2> QED BY <1>t, <2>3, <2>4 DEF Line
<1>6. ASSUME NEW p \in Procs, ExecCreate(p) PROVE Line'
    <2>1. ASSUME NEW c \in Procs \ {p}, pc[p] = "exec_create", pc[c] = "none",
                 pc' = [pc EXCEPT ![p] = "wait", ![c] = "setargv"],
                 awaits' = [awaits EXCEPT ![p] = c],
                 trouble' = [trouble EXCEPT ![c] = trouble[p]]
          PROVE  Line'
        <3>1. /\ pc'[p] = "wait" /\ pc'[c] = "setargv" /\ awaits'[p] = c
              /\ \A q \in Procs \ {p, c} : pc'[q] = pc[q]
              /\ \A q \in Procs \ {p} : awaits'[q] = awaits[q]
              /\ trouble'[c] = trouble[p] /\ \A q \in Procs \ {c} : trouble'[q] = trouble[q]
            BY <2>1, <1>t DEF TypeOK
        <3>2. \A q \in Procs : pc[q] = "wait" => awaits[q] # c
            BY <2>1 DEF Line, Waiting
        <3>3. \A q \in Procs : AtEnd(q)' => q = c
            <4> SUFFICES ASSUME NEW q \in Procs, AtEnd(q)', q # c PROVE FALSE
                OBVIOUS
            <4>1. q # p
                BY <3>1 DEF AtEnd, Starting, Running
            <4>2. AtEnd(q)
                BY <3>1, <4>1 DEF AtEnd, Awaited
            <4>3. AtEnd(p)
                BY <2>1 DEF AtEnd, Running
            <4> QED BY <4>1, <4>2, <4>3 DEF Line, OneEnd
        <3>4. OneEnd'
            BY <3>3 DEF OneEnd
        <3>5. OneParent'
            BY <3>1, <3>2 DEF Line, OneParent
        <3>6. Waiting'
            <4>1. \A q \in Procs : pc'[q] = "none" => pc[q] = "none"
                BY <3>1
            <4>2. \A q \in Procs \ {p} : pc'[q] = "wait" => pc[q] = "wait"
                BY <3>1
            <4>3. awaits'[p] \in Procs /\ pc'[awaits'[p]] # "none"
                BY <3>1
            <4> QED BY <3>1, <4>1, <4>2, <4>3 DEF Line, Waiting
        <3>7. NobodyCrossed'
            <4>1. "crossed" \notin trouble[p]
                BY <2>1 DEF Line, NobodyCrossed, OnTheWay
            <4> QED BY <3>1, <4>1 DEF Line, NobodyCrossed, OnTheWay
        <3> QED BY <1>t, <3>4, <3>5, <3>6, <3>7 DEF Line
    <2>2. waited' # FALSE
        OBVIOUS
    <2> QED BY <1>6, <2>1, <2>2 DEF ExecCreate
<1>7. ASSUME NEW p \in Procs, WaitDone(p) PROVE Line'
    <2>1. /\ pc[p] = "wait" /\ pc'[p] = "main"
          /\ \A q \in Procs \ {p} : pc'[q] = pc[q] /\ awaits'[q] = awaits[q]
        BY <1>7, <1>t DEF WaitDone, Step, TypeOK
    <2>2. awaits[p] \in Procs /\ AtEnd(awaits[p]) /\ pc[awaits[p]] = "exited"
        BY <1>7, <1>t DEF WaitDone, Step, AtEnd, Awaited, TypeOK
    <2>3. \A q \in Procs : AtEnd(q)' => q = p
        <3> SUFFICES ASSUME NEW q \in Procs, AtEnd(q)', q # p PROVE FALSE
            OBVIOUS
        <3>1. AtEnd(q)
            BY <2>1 DEF AtEnd, Awaited
        <3>2. q = awaits[p]
            BY <3>1, <2>2 DEF Line, OneEnd
        <3>3. PICK r \in Procs \ {p} : pc[r] = "wait" /\ awaits[r] = q
            BY <3>2, <2>1, <2>2 DEF AtEnd, Awaited, Starting, Running
        <3> QED BY <3>2, <3>3, <2>1 DEF Line, OneParent
    <2>4. OneEnd'
        BY <2>3 DEF OneEnd
    <2>5. OneParent'
        BY <2>1 DEF Line, OneParent
    <2>6. Waiting'
        BY <2>1 DEF Line, Waiting
    <2>7. UNCHANGED trouble
        BY <1>7 DEF WaitDone
    <2> QED BY <1>c, <2>1, <2>4, <2>5, <2>6, <2>7 DEF OnTheWay
<1>8. ASSUME NEW p \in Procs, Exit(p) PROVE Line'
    <2>1. /\ pc[p] = "main" /\ pc'[p] = "exited" /\ awaits' = awaits
          /\ \A q \in Procs \ {p} : pc'[q] = pc[q]
        BY <1>8, <1>t DEF Exit, Step, TypeOK
    <2>2. \A q \in Procs : AtEnd(q)' => AtEnd(q)
        BY <2>1 DEF AtEnd, Awaited, Running
    <2>3. OneEnd'
        BY <2>2 DEF Line, OneEnd
    <2>4. OneParent'
        BY <2>1 DEF Line, OneParent
    <2>5. Waiting'
        BY <2>1 DEF Line, Waiting
    <2>6. UNCHANGED trouble
        BY <1>8 DEF Exit
    <2> QED BY <1>c, <2>1, <2>3, <2>4, <2>5, <2>6 DEF OnTheWay
<1>9. ASSUME NEW p \in Procs, SetArgv(p) PROVE Line'
    <2>1. OneEnd' /\ OneParent' /\ Waiting'
        BY <1>9, Running_step DEF SetArgv, Step, Starting, Running
    <2> QED BY <1>9, <1>c, <1>t, <2>1 DEF SetArgv, Step, TypeOK, OnTheWay
<1>10. ASSUME NEW p \in Procs, InitEnvEnd(p) PROVE Line'
    <2>1. OneEnd' /\ OneParent' /\ Waiting'
        BY <1>10, Running_step DEF InitEnvEnd, Step, Starting, Running
    <2> QED BY <1>10, <1>c, <1>t, <2>1 DEF InitEnvEnd, Step, TypeOK, OnTheWay
<1>11. ASSUME NEW p \in Procs, InitDir(p) PROVE Line'
    <2>1. OneEnd' /\ OneParent' /\ Waiting'
        BY <1>11, Running_step DEF InitDir, Step, Starting, Running
    <2> QED BY <1>11, <1>c, <1>t, <2>1 DEF InitDir, Step, TypeOK, OnTheWay
<1>12. ASSUME NEW p \in Procs, Main(p) PROVE Line'
    <2>1. OneEnd' /\ OneParent' /\ Waiting'
        BY <1>12, Running_step DEF Main, Step, Starting, Running
    <2> QED BY <1>12, <1>c, <1>t, <2>1 DEF Main, Step, TypeOK, OnTheWay
<1>13. ASSUME NEW p \in Procs, ExecCreateFails(p) PROVE Line'
    <2>1. OneEnd' /\ OneParent' /\ Waiting'
        BY <1>13, Running_step DEF ExecCreateFails, Step, Starting, Running
    <2> QED BY <1>13, <1>c, <1>t, <2>1 DEF ExecCreateFails, Step, TypeOK, OnTheWay
<1>14. ASSUME NEW p \in Procs, InitEnv(p) PROVE Line'
    <2>1. UNCHANGED <<pc, awaits, trouble>>
        BY <1>14 DEF InitEnv
    <2> QED BY <1>t, <2>1 DEF Line, OneEnd, AtEnd, Awaited, OneParent, Waiting, NobodyCrossed
<1>15. ASSUME NEW p \in Procs, InitEnvOpen(p) PROVE Line'
    <2>1. OneEnd' /\ OneParent' /\ Waiting'
        BY <1>15, Running_step DEF InitEnvOpen, Step, Starting, Running
    <2>2. /\ \A q \in Procs \ {p} : pc'[q] = pc[q] /\ trouble'[q] = trouble[q]
          /\ pc[p] = "initenv"
          /\ "crossed" \in trouble'[p] => "crossed" \in trouble[p]
        BY <1>15, <1>t DEF InitEnvOpen, Step, TypeOK
    <2> QED BY <1>t, <2>1, <2>2 DEF Line, NobodyCrossed, OnTheWay
<1> QED BY <1>1, <1>2, <1>3, <1>4, <1>5, <1>6, <1>7, <1>8, <1>9, <1>10, <1>11, <1>12,
           <1>13, <1>14, <1>15 DEF Next

\* Once somebody has not waited, that stays so.
LEMMA HistoryStays == IInv /\ [Next]_vars /\ waited' => waited
BY DEF IInv, Next, vars, MkdirRmdir, Chdir, XCESetEnvironmentVariableInRegA, ExecWrite, ExecCreate,
       ExecCreateFails, WaitDone, Exit, SetArgv, InitEnvOpen, InitEnv, InitEnvEnd, InitDir, Main

LEMMA Steps == IInv /\ [Next]_vars => IInv'
BY Typing, ReadingSteps, LineSteps, HistoryStays DEF IInv

------------------------------------------------------------------------------
LEMMA StartStep ==
    ASSUME IInv, [Next]_vars, NEW c \in Procs, pc[c] = "initdir", pc'[c] = "started", PassedOn(c)
    PROVE  IF born[c] \in existing THEN cwd'[c] = born[c] ELSE cwd'[c] = Top
<1>1. InitDir(c)
    BY DEF Next, vars, MkdirRmdir, Chdir, XCESetEnvironmentVariableInRegA, ExecWrite, ExecCreate,
           ExecCreateFails, WaitDone, Exit, SetArgv, InitEnvOpen, InitEnv, InitEnvEnd, InitDir,
           Main, Step, IInv, TypeOK
<1>2. trouble[c] \cap {"refused", "crossed"} = {} /\ "hidden" \notin trouble[c]
    BY DEF PassedOn, IInv, Line, NobodyCrossed
<1>3. Got(c) /\ cwd[c] = Top
    BY <1>2 DEF IInv, Reading, Fresh, Unread
<1>4. env[c] # <<>> /\ Head(env[c]).data = born[c]
    BY <1>3 DEF Got
<1> QED BY <1>1, <1>3, <1>4 DEF InitDir, IInv, TypeOK

\* Where one program runs at the beginning, a process that finds PWD starts in the
\* directory its parent made it in, if that still exists, and else in \ : whatever
\* other values are written before and while it reads them, and as long as every
\* parent waits, whatever is written (ceprocess.c:94-111, ceenv.c:76-118, cestdlib.c:53-60).
THEOREM ChildrenStartWhereTheirParentIs == OneRoot => (Spec => StartsInParentsDirectory)
<1> SUFFICES ASSUME OneRoot PROVE Spec => StartsInParentsDirectory
    OBVIOUS
<1>1. Init => IInv
    BY Initially
<1>2. IInv /\ [Next]_vars => IInv'
    BY Steps
<1>3. IInv /\ [Next]_vars =>
          [\A c \in Procs : pc[c] = "initdir" /\ pc'[c] = "started" /\ PassedOn(c)
               => IF born[c] \in existing THEN cwd'[c] = born[c] ELSE cwd'[c] = Top]_vars
    BY StartStep
<1> QED BY <1>1, <1>2, <1>3, PTL DEF Spec, StartsInParentsDirectory
==============================================================================
