---------------------------- MODULE EnvironProofs ----------------------------
(***************************************************************************)
(* The environment vector for any number of names and values and any       *)
(* initial size: it is always ended, the start takes every value, and      *)
(* getenv and putenv behave as EnvMap says.                                *)
(*                                                                         *)
(* That a search from the start finds a first entry is kept as a part of   *)
(* the invariant: it holds of the empty vector, an entry added at the end  *)
(* is the first if there was none, and a replacement has the same name.    *)
(***************************************************************************)
EXTENDS Environ, SequenceTheorems, TLAPS

\* A name that had a string at the start, and is yet to be read.
Ahead(n) == \E i \in DOMAIN registry :
                i > idx /\ registry[i].name = n /\ registry[i].type = "REG_SZ"

Reading == /\ pc = "open" => idx = 0
           /\ pc # "main" => ~complete /\ \A n \in atStart : Found({n}) \/ Ahead(n)

Firsts == \A S \in SUBSET Names : Found(S) =>
              \E i \in 0 .. _envcount - 1 :
                  environ[i].name \in S /\ \A j \in 0 .. i - 1 : environ[j].name \notin S

IInv == TypeOK /\ Terminated /\ Firsts /\ Reading /\ InitTakesEveryValue

------------------------------------------------------------------------------
\* The index a search stops at.
LEMMA FirstFound ==
    ASSUME Firsts, NEW S \in SUBSET Names, Found(S)
    PROVE  /\ FirstOf(S) \in 0 .. _envcount - 1 /\ environ[FirstOf(S)].name \in S
           /\ \A j \in 0 .. FirstOf(S) - 1 : environ[j].name \notin S
<1> DEFINE Test(i) == environ[i].name \in S /\ \A j \in 0 .. i - 1 : environ[j].name \notin S
<1>1. \E i \in 0 .. _envcount - 1 : Test(i)
    BY DEF Firsts
<1>2. FirstOf(S) = CHOOSE i \in 0 .. _envcount - 1 : Test(i)
    BY DEF FirstOf
<1> HIDE DEF Test
<1>3. FirstOf(S) \in 0 .. _envcount - 1 /\ Test(FirstOf(S))
    BY <1>1, <1>2
<1> QED BY <1>3 DEF Test

\* An index a search would stop at is the one it stops at.
LEMMA FirstUnique ==
    ASSUME Firsts, NEW S \in SUBSET Names, _envcount \in Nat,
           NEW i \in 0 .. _envcount - 1, environ[i].name \in S,
           \A j \in 0 .. i - 1 : environ[j].name \notin S
    PROVE  Found(S) /\ FirstOf(S) = i
<1>1. Found(S)
    BY DEF Found
<1>2. /\ FirstOf(S) \in 0 .. _envcount - 1 /\ environ[FirstOf(S)].name \in S
      /\ \A j \in 0 .. FirstOf(S) - 1 : environ[j].name \notin S
    BY <1>1, FirstFound
<1> QED BY <1>1, <1>2, SMT

\* What _appendenv leaves: the old strings, the new one and the NULL.
LEMMA Appended ==
    ASSUME TypeOK, Terminated, NEW e \in Entries, _appendenv(e)
    PROVE  /\ _envsize' \in Nat \ {0} /\ _envcount' = _envcount + 1
           /\ _envcount \in Nat /\ _envcount' < _envsize'
           /\ environ' \in [0 .. _envsize' - 1 -> Entries \cup {Null, Garbage}]
           /\ environ'[_envcount] = e /\ environ'[_envcount'] = Null
           /\ \A i \in 0 .. _envcount - 1 : environ'[i] = environ[i] /\ environ'[i] \in Entries
<1> DEFINE size == IF _envcount >= _envsize - 1 THEN 2 * _envsize ELSE _envsize
           new(i) == CASE i = _envcount -> e
                       [] i = _envcount + 1 -> Null
                       [] OTHER -> IF i < _envsize THEN environ[i] ELSE Garbage
<1>1. /\ _envsize' = size /\ _envcount' = _envcount + 1
      /\ environ' = [i \in 0 .. size - 1 |-> new(i)]
    BY DEF _appendenv
<1>2. _envcount \in Nat /\ _envsize \in Nat \ {0} /\ _envcount < _envsize
    BY DEF TypeOK, Terminated
<1>3. size \in Nat \ {0} /\ _envcount + 1 < size /\ _envsize <= size
    BY <1>2
<1>4. \A i \in 0 .. size - 1 : new(i) \in Entries \cup {Null, Garbage}
    BY <1>2 DEF TypeOK
<1>5. new(_envcount) = e /\ new(_envcount + 1) = Null
    BY <1>2
<1>6. \A i \in 0 .. _envcount - 1 : new(i) = environ[i] /\ new(i) \in Entries
    BY <1>2 DEF Terminated
<1> HIDE DEF size, new
<1> QED BY <1>1, <1>2, <1>3, <1>4, <1>5, <1>6

\* An entry at the end leaves every search where it stopped, or is its first.
LEMMA AppendKeepsFirsts ==
    ASSUME TypeOK, Terminated, Firsts, NEW e \in Entries, _appendenv(e)
    PROVE  /\ Terminated' /\ Firsts'
           /\ \A S \in SUBSET Names : Found(S)' <=> Found(S) \/ e.name \in S
<1>1. /\ _envcount \in Nat /\ _envcount' = _envcount + 1 /\ _envcount' < _envsize'
      /\ environ'[_envcount] = e /\ environ'[_envcount'] = Null
      /\ \A i \in 0 .. _envcount - 1 : environ'[i] = environ[i] /\ environ'[i] \in Entries
    BY Appended
<1>2. Terminated'
    BY <1>1 DEF Terminated
<1>3. ASSUME NEW S \in SUBSET Names PROVE Found(S)' <=> Found(S) \/ e.name \in S
    <2>1. CASE Found(S)
        BY <1>1, <2>1 DEF Found
    <2>2. CASE ~Found(S)
        BY <1>1, <2>2 DEF Found
    <2> QED BY <2>1, <2>2
<1>4. ASSUME NEW S \in SUBSET Names, Found(S)'
      PROVE \E i \in 0 .. _envcount' - 1 :
                environ'[i].name \in S /\ \A j \in 0 .. i - 1 : environ'[j].name \notin S
    <2>1. CASE Found(S)
        <3>1. PICK i \in 0 .. _envcount - 1 :
                  environ[i].name \in S /\ \A j \in 0 .. i - 1 : environ[j].name \notin S
            BY <2>1 DEF Firsts
        <3> QED BY <3>1, <1>1
    <2>2. CASE ~Found(S)
        <3>1. \A j \in 0 .. _envcount - 1 : environ'[j].name \notin S
            BY <1>1, <2>2 DEF Found
        <3>2. environ'[_envcount].name \in S
            BY <1>1, <1>3, <1>4, <2>2
        <3> QED BY <3>1, <3>2, <1>1
    <2> QED BY <2>1, <2>2
<1>5. Firsts'
    BY <1>4 DEF Firsts, Found
<1> QED BY <1>2, <1>3, <1>5

\* A replacement keeps every name where it is.
LEMMA ReplaceKeepsFirsts ==
    ASSUME TypeOK, Terminated, Firsts, NEW e \in Entries, _replaceenv(e)
    PROVE  /\ FirstOf({e.name}) \in 0 .. _envcount - 1
           /\ environ[FirstOf({e.name})].name = e.name
           /\ environ' = [environ EXCEPT ![FirstOf({e.name})] = e]
           /\ environ' \in [0 .. _envsize - 1 -> Entries \cup {Null, Garbage}]
           /\ Terminated' /\ Firsts' /\ UNCHANGED <<_envsize, _envcount>>
           /\ \A S \in SUBSET Names : Found(S)' <=> Found(S)
<1> DEFINE k == FirstOf({e.name})
<1>1. k \in 0 .. _envcount - 1 /\ environ[k].name = e.name
    <2>1. {e.name} \in SUBSET Names
        BY DEF Entries
    <2> QED BY <2>1, FirstFound DEF _replaceenv
<1>2. environ' = [environ EXCEPT ![k] = e] /\ UNCHANGED <<_envsize, _envcount>>
    BY DEF _replaceenv
<1> HIDE DEF k
<1>3. /\ _envcount \in Nat /\ _envsize \in Nat /\ _envcount < _envsize
      /\ environ \in [0 .. _envsize - 1 -> Entries \cup {Null, Garbage}]
      /\ \A i \in 0 .. _envcount - 1 : environ[i] \in Entries
    BY DEF TypeOK, Terminated
<1>4. environ' \in [0 .. _envsize - 1 -> Entries \cup {Null, Garbage}]
    BY <1>1, <1>2, <1>3
<1>5. \A i \in 0 .. _envcount - 1 : environ'[i] \in Entries /\ environ'[i].name = environ[i].name
    BY <1>1, <1>2, <1>3
<1>6. Terminated'
    BY <1>1, <1>2, <1>3, <1>5 DEF Terminated
<1>7. \A S \in SUBSET Names : Found(S)' <=> Found(S)
    BY <1>2, <1>5 DEF Found
<1>8. Firsts'
    <2>1. SUFFICES ASSUME NEW S \in SUBSET Names, Found(S)
                   PROVE \E i \in 0 .. _envcount - 1 :
                            environ'[i].name \in S /\ \A j \in 0 .. i - 1 : environ'[j].name \notin S
        BY <1>2, <1>7 DEF Firsts, Found
    <2>2. PICK i \in 0 .. _envcount - 1 :
              environ[i].name \in S /\ \A j \in 0 .. i - 1 : environ[j].name \notin S
        BY <2>1 DEF Firsts
    <2> QED BY <2>2, <1>3, <1>5
<1> QED BY <1>1, <1>2, <1>4, <1>6, <1>7, <1>8 DEF k

------------------------------------------------------------------------------
\* What InsertAt gives: the elements before, the new one, the others moved on.
LEMMA Inserted ==
    ASSUME NEW T, NEW r \in Seq(T), NEW e \in T, NEW k \in 1 .. Len(r) + 1
    PROVE  /\ InsertAt(r, k, e) \in Seq(T) /\ Len(InsertAt(r, k, e)) = Len(r) + 1
           /\ \A i \in 1 .. k - 1 : InsertAt(r, k, e)[i] = r[i]
           /\ \A i \in k .. Len(r) : InsertAt(r, k, e)[i + 1] = r[i]
<1> DEFINE a == SubSeq(r, 1, k - 1)
           b == SubSeq(r, k, Len(r))
<1>1. /\ a \in Seq(T) /\ Len(a) = k - 1 /\ \A i \in 1 .. k - 1 : a[i] = r[i]
      /\ b \in Seq(T) /\ Len(b) = Len(r) - k + 1
      /\ \A i \in 1 .. Len(r) - k + 1 : b[i] = r[k + i - 1]
    OBVIOUS
<1> DEFINE c == a \o <<e>>
<1>2. InsertAt(r, k, e) = c \o b
    BY DEF InsertAt
<1> HIDE DEF a, b
<1>3. c \in Seq(T) /\ Len(c) = k /\ \A i \in 1 .. k - 1 : c[i] = r[i]
    BY <1>1
<1> HIDE DEF c
<1>4. /\ c \o b \in Seq(T) /\ Len(c \o b) = Len(c) + Len(b)
      /\ \A i \in 1 .. Len(c) + Len(b) :
            (c \o b)[i] = IF i <= Len(c) THEN c[i] ELSE b[i - Len(c)]
    BY <1>1, <1>3, ConcatProperties
<1>5. \A i \in 1 .. k - 1 : (c \o b)[i] = r[i]
    BY <1>1, <1>3, <1>4
<1>6. \A i \in k .. Len(r) : (c \o b)[i + 1] = b[i + 1 - k]
    BY <1>1, <1>3, <1>4
<1>7. \A i \in k .. Len(r) : b[i + 1 - k] = r[i]
    BY <1>1
<1>8. Len(c) + Len(b) = Len(r) + 1
    BY <1>1, <1>3
<1> QED BY <1>2, <1>4, <1>5, <1>6, <1>7, <1>8

------------------------------------------------------------------------------
\* The empty vector.
LEMMA Begins == Init => IInv
<1> SUFFICES ASSUME Init PROVE IInv
    OBVIOUS
<1> USE SizeAssumption DEF Init
<1>1. registry \in Seq(RegistryValues)
    BY DEF BoundedSeq, SeqOf
<1>2. environ \in [0 .. _envsize - 1 -> Entries \cup {Null, Garbage}]
    OBVIOUS
<1>3. TypeOK
    BY <1>1, <1>2 DEF TypeOK, Strings
<1>4. Terminated /\ Firsts /\ InitTakesEveryValue
    BY DEF Terminated, Firsts, Found, InitTakesEveryValue
<1>5. Reading
    <2>1. ASSUME NEW n \in atStart PROVE Ahead(n)
        <3>1. PICK i \in DOMAIN registry : registry[i].name = n /\ registry[i].type = "REG_SZ"
            BY DEF Strings
        <3> QED BY <1>1, <3>1 DEF Ahead
    <2> QED BY <2>1 DEF Reading
<1> QED BY <1>3, <1>4, <1>5 DEF IInv

\* What is said of the vector alone stays with it.
LEMMA VectorKept ==
    ASSUME Terminated, Firsts, UNCHANGED vector
    PROVE  Terminated' /\ Firsts' /\ \A S \in SUBSET Names : Found(S)' <=> Found(S)
<1>1. Terminated'
    BY DEF Terminated, vector
<1>2. \A S \in SUBSET Names : Found(S)' <=> Found(S)
    BY DEF Found, vector
<1>3. Firsts'
    BY DEF Firsts, Found, vector
<1> QED BY <1>1, <1>2, <1>3

\* One RegEnumValue: what was ahead is in the vector now, or still ahead.
LEMMA Enumerates == ASSUME IInv, _initenv PROVE IInv'
<1>0. TypeOK /\ Terminated /\ Firsts /\ Reading /\ InitTakesEveryValue /\ pc = "enumerate"
    BY DEF IInv, _initenv
<1>1. CASE idx >= Len(registry)
    <2>1. pc' = "main" /\ complete' = TRUE /\ UNCHANGED <<registry, idx, vector, answer, atStart>>
        BY <1>1 DEF _initenv
    <2>2. \A n \in atStart : Found({n})
        BY <1>0, <1>1 DEF Reading, Ahead, TypeOK
    <2> QED BY <1>0, <2>1, <2>2 DEF IInv, TypeOK, Terminated, Firsts, Reading, Found,
                    InitTakesEveryValue, vector
<1>2. CASE idx < Len(registry)
    <2> DEFINE v == registry[idx + 1]
    <2>1. v \in RegistryValues /\ idx \in Nat /\ idx + 1 \in DOMAIN registry
        BY <1>0, <1>2 DEF TypeOK
    <2>2. UNCHANGED <<registry, answer, atStart>>
        BY DEF _initenv
    <2>3. ASSUME NEW n \in atStart, Ahead(n), ~(v.name = n /\ v.type = "REG_SZ"), idx' = idx + 1
          PROVE Ahead(n)'
        <3>1. PICK i \in DOMAIN registry :
                  i > idx /\ registry[i].name = n /\ registry[i].type = "REG_SZ"
            BY <2>3 DEF Ahead
        <3>2. i # idx + 1
            BY <2>3, <3>1
        <3>3. i \in Nat
            BY <1>0 DEF TypeOK
        <3> QED BY <2>1, <2>2, <2>3, <3>1, <3>2, <3>3 DEF Ahead
    <2>4. CASE v.type = "long"
        <3>1. pc' = "main" /\ UNCHANGED <<idx, vector, complete>>
            BY <1>2, <2>1, <2>4 DEF _initenv
        <3> QED BY <1>0, <2>2, <3>1 DEF IInv, TypeOK, Terminated, Firsts, Reading, Found,
                        InitTakesEveryValue, vector
    <2>5. CASE v.type = "other"
        <3>1. idx' = idx + 1 /\ UNCHANGED <<pc, vector, complete>>
            BY <1>2, <2>1, <2>5 DEF _initenv, Skip
        <3>2. \A n \in atStart : Found({n})' \/ Ahead(n)'
            BY <1>0, <2>3, <2>5, <3>1 DEF Reading, Found, vector
        <3>3. Reading'
            BY <1>0, <2>2, <3>1, <3>2 DEF Reading
        <3>4. Terminated' /\ Firsts' /\ TypeOK'
            BY <1>0, <2>1, <2>2, <3>1, VectorKept DEF TypeOK, vector
        <3>5. InitTakesEveryValue'
            BY <1>0, <3>1 DEF InitTakesEveryValue, Reading
        <3> QED BY <3>3, <3>4, <3>5 DEF IInv
    <2>6. CASE v.type = "REG_SZ"
        <3> DEFINE e == [name |-> v.name, value |-> v.value]
        <3>1. e \in Entries /\ e.name = v.name
            BY <2>1 DEF RegistryValues, Entries
        <3>2. _appendenv(e) /\ idx' = idx + 1 /\ UNCHANGED <<pc, complete>>
            BY <1>2, <2>1, <2>6 DEF _initenv
        <3> HIDE DEF e
        <3>3. Terminated' /\ Firsts' /\ \A S \in SUBSET Names : Found(S)' <=> Found(S) \/ e.name \in S
            BY <1>0, <3>1, <3>2, AppendKeepsFirsts
        <3>4. TypeOK'
            BY <1>0, <2>1, <2>2, <3>1, <3>2, Appended DEF TypeOK
        <3>5. \A n \in atStart : Found({n})' \/ Ahead(n)'
            BY <1>0, <2>3, <3>1, <3>2, <3>3 DEF Reading, TypeOK
        <3>6. Reading' /\ InitTakesEveryValue'
            BY <1>0, <2>2, <3>2, <3>5 DEF Reading, InitTakesEveryValue
        <3> QED BY <3>3, <3>4, <3>6 DEF IInv
    <2> QED BY <2>1, <2>4, <2>5, <2>6 DEF RegistryValues, Kinds
<1> QED BY <1>0, <1>1, <1>2 DEF TypeOK

\* Another process writes a value: what was ahead still is.
LEMMA RegistryWritten ==
    ASSUME IInv, NEW n \in Names, NEW v \in Values, RegistrySet(n, v) PROVE IInv'
<1> DEFINE entry == [name |-> n, type |-> "REG_SZ", value |-> v]
<1>0. TypeOK /\ Terminated /\ Firsts /\ Reading /\ InitTakesEveryValue
    BY DEF IInv
<1>1. pc # "main" /\ UNCHANGED <<pc, idx, vector, answer, history>>
    BY DEF RegistrySet
<1>2. entry \in RegistryValues /\ entry.name = n /\ entry.type = "REG_SZ"
    BY DEF RegistryValues, Kinds
<1>3. registry \in Seq(RegistryValues) /\ Len(registry) \in Nat /\ idx \in Nat
    BY <1>0 DEF TypeOK
<1> SUFFICES registry' \in Seq(RegistryValues) /\ \A m \in Names : Ahead(m) => Ahead(m)'
    <2>1. Terminated' /\ Firsts' /\ \A S \in SUBSET Names : Found(S)' <=> Found(S)
        BY <1>0, <1>1, VectorKept
    <2>2. TypeOK'
        BY <1>0, <1>1 DEF TypeOK, vector, history
    <2>3. Reading' /\ InitTakesEveryValue'
        BY <1>0, <1>1, <2>1 DEF Reading, InitTakesEveryValue, history, TypeOK
    <2> QED BY <2>1, <2>2, <2>3 DEF IInv
<1>4. ASSUME NEW i \in DOMAIN registry, registry[i].name = n,
             registry' = [registry EXCEPT ![i] = entry]
      PROVE registry' \in Seq(RegistryValues) /\ \A m \in Names : Ahead(m) => Ahead(m)'
    <2> HIDE DEF entry
    <2>1. registry' \in Seq(RegistryValues)
        BY <1>2, <1>3, <1>4
    <2>2. ASSUME NEW m \in Names, Ahead(m) PROVE Ahead(m)'
        <3>1. PICK j \in DOMAIN registry :
                  j > idx /\ registry[j].name = m /\ registry[j].type = "REG_SZ"
            BY <2>2 DEF Ahead
        <3>2. j \in DOMAIN registry' /\ registry'[j].name = m /\ registry'[j].type = "REG_SZ"
            BY <1>2, <1>3, <1>4, <3>1
        <3> QED BY <1>1, <3>1, <3>2 DEF Ahead
    <2> QED BY <2>1, <2>2
<1>5. ASSUME NEW i \in 1 .. Len(registry) + 1, registry' = InsertAt(registry, i, entry)
      PROVE registry' \in Seq(RegistryValues) /\ \A m \in Names : Ahead(m) => Ahead(m)'
    <2> HIDE DEF entry
    <2>1. /\ registry' \in Seq(RegistryValues) /\ Len(registry') = Len(registry) + 1
          /\ \A j \in 1 .. i - 1 : registry'[j] = registry[j]
          /\ \A j \in i .. Len(registry) : registry'[j + 1] = registry[j]
        BY <1>2, <1>3, <1>5, Inserted
    <2>2. ASSUME NEW m \in Names, Ahead(m) PROVE Ahead(m)'
        <3>1. PICK j \in DOMAIN registry :
                  j > idx /\ registry[j].name = m /\ registry[j].type = "REG_SZ"
            BY <2>2 DEF Ahead
        <3>2. j \in 1 .. Len(registry)
            BY <1>3, <3>1
        <3>3. CASE j < i
            <4>1. j \in DOMAIN registry' /\ registry'[j] = registry[j]
                BY <1>3, <2>1, <3>2, <3>3
            <4> QED BY <1>1, <3>1, <4>1 DEF Ahead
        <3>4. CASE j >= i
            <4>1. j + 1 \in DOMAIN registry' /\ registry'[j + 1] = registry[j] /\ j + 1 > idx
                BY <1>3, <2>1, <3>1, <3>2, <3>4
            <4> QED BY <1>1, <3>1, <4>1 DEF Ahead
        <3> QED BY <3>2, <3>3, <3>4
    <2> QED BY <2>1, <2>2
<1> QED BY <1>4, <1>5 DEF RegistrySet

\* Every step keeps the invariant.
LEMMA Stays == ASSUME IInv, [Next]_vars PROVE IInv'
<1>0. TypeOK /\ Terminated /\ Firsts /\ Reading /\ InitTakesEveryValue
    BY DEF IInv
<1>1. ASSUME UNCHANGED <<registry, idx, vector, history>>, answer' \in Values \cup {Unset},
             pc' \in {"open", "enumerate", "main"}, pc' = "open" => pc = "open",
             pc = "main" => pc' = "main"
      PROVE IInv'
    <2>1. Terminated' /\ Firsts' /\ \A S \in SUBSET Names : Found(S)' <=> Found(S)
        BY <1>0, <1>1, VectorKept
    <2>2. TypeOK'
        BY <1>0, <1>1 DEF TypeOK, vector, history
    <2>3. \A n \in Names : Ahead(n)' <=> Ahead(n)
        BY <1>1 DEF Ahead
    <2>4. Reading' /\ InitTakesEveryValue'
        BY <1>0, <1>1, <2>1, <2>3 DEF Reading, InitTakesEveryValue, history, TypeOK
    <2> QED BY <2>1, <2>2, <2>4 DEF IInv
<1>2. CASE UNCHANGED vars
    BY <1>0, <1>1, <1>2 DEF vars, TypeOK
<1>3. CASE Open
    BY <1>0, <1>1, <1>3 DEF Open, TypeOK
<1>4. CASE _initenv
    BY <1>4, Enumerates
<1>5. ASSUME NEW n \in Names, NEW v \in Values, RegistrySet(n, v) PROVE IInv'
    BY <1>5, RegistryWritten
<1>6. ASSUME NEW n \in Names, xcegetenv(n) PROVE IInv'
    <2>1. Beginnings(n) \in SUBSET Names
        BY DEF Beginnings
    <2>2. _findenv(n) \in Values \cup {Unset}
        <3>1. CASE Found(Beginnings(n))
            <4>1. environ[FirstOf(Beginnings(n))] \in Entries
                BY <1>0, <2>1, <3>1, FirstFound DEF Terminated
            <4> QED BY <3>1, <4>1 DEF _findenv, Entries
        <3> QED BY <3>1 DEF _findenv
    <2> QED BY <1>1, <1>6, <2>2 DEF xcegetenv
<1>7. ASSUME NEW n \in Names, NEW v \in Values, xceputenv(n, v) PROVE IInv'
    <2> DEFINE e == [name |-> n, value |-> v]
    <2>1. e \in Entries
        BY DEF Entries
    <2>2. pc = "main" /\ UNCHANGED <<registry, pc, idx, answer, history>>
        BY <1>7 DEF xceputenv
    <2>3. _replaceenv(e) \/ _appendenv(e)
        BY <1>7 DEF xceputenv
    <2> HIDE DEF e
    <2>4. Terminated' /\ Firsts' /\ TypeOK' /\ \A S \in SUBSET Names : Found(S) => Found(S)'
        <3>1. CASE _replaceenv(e)
            BY <1>0, <2>1, <2>2, <3>1, ReplaceKeepsFirsts DEF TypeOK, history
        <3>2. CASE _appendenv(e)
            BY <1>0, <2>1, <2>2, <3>2, Appended, AppendKeepsFirsts DEF TypeOK, history
        <3> QED BY <2>3, <3>1, <3>2
    <2>5. Reading' /\ InitTakesEveryValue'
        BY <1>0, <2>2, <2>4 DEF Reading, InitTakesEveryValue, history, TypeOK
    <2> QED BY <2>4, <2>5 DEF IInv
<1> QED BY <1>2, <1>3, <1>4, <1>5, <1>6, <1>7 DEF Next

\* The invariant holds throughout.
LEMMA Invariance == Spec => []IInv
BY Begins, Stays, PTL DEF Spec

------------------------------------------------------------------------------
\* The vector, the registry and the counters keep their types.
THEOREM TypeCorrect == Spec => []TypeOK
<1>1. IInv => TypeOK
    BY DEF IInv
<1> QED BY <1>1, Invariance, PTL

\* The vector has a NULL after its strings, inside it, however it has grown.
THEOREM AlwaysTerminated == Spec => []Terminated
<1>1. IInv => Terminated
    BY DEF IInv
<1> QED BY <1>1, Invariance, PTL

\* The start passes over no value that was a string when it began, whatever other
\* processes write or add, unless it ends at one that does not fit.
THEOREM NothingPassedOver == Spec => []InitTakesEveryValue
<1>1. IInv => InitTakesEveryValue
    BY DEF IInv
<1> QED BY <1>1, Invariance, PTL

------------------------------------------------------------------------------
(* getenv and putenv implement EnvMap *)

\* A string at the end gives its name a value only if it had none.
LEMMA AppendedValue ==
    ASSUME IInv, NEW e \in Entries, _appendenv(e), NEW n \in Names
    PROVE  ValueOf(n)' = IF ~Found({n}) /\ n = e.name THEN e.value ELSE ValueOf(n)
<1>0. TypeOK /\ Terminated /\ Firsts
    BY DEF IInv
<1>1. /\ _envcount \in Nat /\ _envcount' = _envcount + 1 /\ environ'[_envcount] = e
      /\ \A i \in 0 .. _envcount - 1 : environ'[i] = environ[i] /\ environ'[i] \in Entries
    BY <1>0, Appended
<1>2. Firsts' /\ (Found({n})' <=> Found({n}) \/ e.name = n)
    BY <1>0, AppendKeepsFirsts
<1>3. CASE Found({n})
    <2> DEFINE k == FirstOf({n})
               Stop(i) == environ'[i].name \in {n}
                          /\ \A j \in 0 .. i - 1 : environ'[j].name \notin {n}
    <2>1. /\ k \in 0 .. _envcount - 1 /\ environ[k].name = n
          /\ \A j \in 0 .. k - 1 : environ[j].name # n
        BY <1>0, <1>3, FirstFound
    <2>2. FirstOf({n})' = CHOOSE i \in 0 .. _envcount' - 1 : Stop(i)
        BY DEF FirstOf
    <2> HIDE DEF k
    <2>3. environ'[k] = environ[k] /\ \A j \in 0 .. k - 1 : environ'[j] = environ[j]
        BY <1>1, <2>1
    <2>4. k \in 0 .. _envcount' - 1 /\ Stop(k)
        BY <1>1, <2>1, <2>3
    <2>5. \A i \in 0 .. _envcount' - 1 : Stop(i) => i = k
        BY <1>1, <2>4
    <2> HIDE DEF Stop
    <2>6. FirstOf({n})' = k
        BY <2>2, <2>4, <2>5
    <2> QED BY <1>2, <1>3, <2>3, <2>6 DEF ValueOf, k
<1>4. CASE ~Found({n}) /\ n = e.name
    <2>1. /\ environ'[_envcount].name \in {n}
          /\ \A j \in 0 .. _envcount - 1 : environ'[j].name \notin {n}
        BY <1>1, <1>4 DEF Found
    <2> DEFINE Stop(i) == environ'[i].name \in {n}
                          /\ \A j \in 0 .. i - 1 : environ'[j].name \notin {n}
    <2>2. Stop(_envcount) /\ _envcount \in 0 .. _envcount' - 1
        BY <1>1, <2>1
    <2>3. \A i \in 0 .. _envcount' - 1 : Stop(i) => i = _envcount
        BY <1>1, <2>1
    <2>4. FirstOf({n})' = CHOOSE i \in 0 .. _envcount' - 1 : Stop(i)
        BY DEF FirstOf
    <2> HIDE DEF Stop
    <2>5. FirstOf({n})' = _envcount
        BY <2>2, <2>3, <2>4
    <2> QED BY <1>1, <1>2, <1>4, <2>5 DEF ValueOf
<1>5. CASE ~Found({n}) /\ n # e.name
    BY <1>2, <1>5 DEF ValueOf
<1> QED BY <1>3, <1>4, <1>5

\* A replacement gives its name a value and leaves the others theirs.
LEMMA ReplacedValue ==
    ASSUME IInv, NEW e \in Entries, _replaceenv(e), NEW n \in Names
    PROVE  ValueOf(n)' = IF n = e.name THEN e.value ELSE ValueOf(n)
<1>0. TypeOK /\ Terminated /\ Firsts /\ Found({e.name})
    BY DEF IInv, _replaceenv
<1> DEFINE k == FirstOf({e.name})
<1>1. /\ k \in 0 .. _envcount - 1 /\ environ[k].name = e.name
      /\ environ' = [environ EXCEPT ![k] = e] /\ UNCHANGED <<_envsize, _envcount>>
      /\ \A S \in SUBSET Names : Found(S)' <=> Found(S)
    BY <1>0, ReplaceKeepsFirsts
<1>2. environ \in [0 .. _envsize - 1 -> Entries \cup {Null, Garbage}]
      /\ _envcount \in Nat /\ _envsize \in Nat /\ _envcount < _envsize
    BY <1>0 DEF TypeOK, Terminated
<1> HIDE DEF k
<1>3. environ'[k] = e /\ \A i \in 0 .. _envcount - 1 :
          environ'[i].name = environ[i].name /\ (i # k => environ'[i] = environ[i])
    BY <1>1, <1>2
<1>4. \A S : FirstOf(S)' = FirstOf(S)
    BY <1>1, <1>2, <1>3 DEF FirstOf
<1>5. CASE n = e.name
    BY <1>0, <1>1, <1>3, <1>4, <1>5 DEF ValueOf, k
<1>6. CASE n # e.name
    <2>1. CASE Found({n})
        <3>1. FirstOf({n}) \in 0 .. _envcount - 1 /\ environ[FirstOf({n})].name \in {n}
            BY <1>0, <2>1, FirstFound
        <3>2. FirstOf({n}) # k
            BY <1>1, <1>6, <3>1
        <3>3. environ'[FirstOf({n})] = environ[FirstOf({n})] /\ Found({n})'
            BY <1>1, <1>3, <2>1, <3>1, <3>2
        <3> QED BY <1>4, <1>6, <2>1, <3>3 DEF ValueOf
    <2>2. CASE ~Found({n})
        BY <1>1, <1>6, <2>2 DEF ValueOf
    <2> QED BY <2>1, <2>2
<1> QED BY <1>5, <1>6

\* The values as EnvMap sees them.
Valuation == [n \in Names |-> ValueOf(n)]

\* The values are those of the vector.
LEMMA ValuesKept ==
    ASSUME UNCHANGED vector PROVE UNCHANGED Valuation
<1>1. ASSUME NEW n PROVE ValueOf(n)' = ValueOf(n)
    <2>1. Found({n})' <=> Found({n})
        BY DEF Found, vector
    <2>2. FirstOf({n})' = FirstOf({n})
        BY DEF FirstOf, vector
    <2> QED BY <2>1, <2>2 DEF ValueOf, vector
<1> QED BY <1>1 DEF Valuation

\* What a name that is there is answered with is a value.
LEMMA ValueIsSet ==
    ASSUME IInv, NEW n \in Names PROVE ValueOf(n) # Unset <=> Found({n})
<1>1. CASE Found({n})
    <2>1. FirstOf({n}) \in 0 .. _envcount - 1
        BY <1>1, FirstFound DEF IInv
    <2>2. environ[FirstOf({n})].value \in Values
        BY <2>1 DEF IInv, Terminated, Entries
    <2> QED BY <1>1, <2>2, MarkAssumption DEF ValueOf
<1> QED BY <1>1 DEF ValueOf

\* getenv answers with the value of the name, or of a beginning of it.
LEMMA Answered ==
    ASSUME IInv, NEW n \in Names, xcegetenv(n) PROVE Map!Get(n)
<1>0. TypeOK /\ Firsts /\ Terminated
    BY DEF IInv
<1>1. pc = "main" /\ answer' = _findenv(n) /\ UNCHANGED <<pc, vector>>
    BY DEF xcegetenv
<1>2. UNCHANGED Valuation
    BY <1>1, ValuesKept
<1>3. Beginnings(n) \in SUBSET Names
    BY DEF Beginnings
<1>4. Map!Matches(n) = {m \in Beginnings(n) : Found({m})}
    BY ValueIsSet DEF Map!Matches, Beginnings
<1>5. CASE Found(Beginnings(n))
    <2> DEFINE k == FirstOf(Beginnings(n))
    <2>1. /\ k \in 0 .. _envcount - 1 /\ environ[k].name \in Beginnings(n)
          /\ \A j \in 0 .. k - 1 : environ[j].name \notin Beginnings(n)
        BY <1>0, <1>3, <1>5, FirstFound
    <2> HIDE DEF k
    <2>2. PICK m \in Beginnings(n) : m = environ[k].name
        BY <2>1
    <2>3. \A j \in 0 .. k - 1 : environ[j].name \notin {m}
        BY <2>1, <2>2
    <2>4. Found({m}) /\ FirstOf({m}) = k
        BY <1>0, <1>3, <2>1, <2>2, <2>3, FirstUnique DEF TypeOK
    <2>5. answer' = ValueOf(m) /\ m \in Names
        BY <1>1, <1>3, <1>5, <2>4 DEF _findenv, ValueOf, k
    <2>6. m \in Map!Matches(n)
        BY <1>4, <2>4
    <2> QED BY <1>1, <1>2, <2>5, <2>6 DEF Map!Get, Valuation
<1>6. CASE ~Found(Beginnings(n))
    <2>1. Map!Matches(n) = {}
        BY <1>4, <1>6 DEF Found
    <2> QED BY <1>1, <1>2, <1>6, <2>1 DEF Map!Get, Valuation, _findenv
<1> QED BY <1>5, <1>6

\* Every step is one of EnvMap, or none.
LEMMA MapStep == ASSUME IInv, [Next]_vars PROVE [Map!Next]_Map!vars
<1> USE DEF Valuation
<1>1. CASE UNCHANGED vars
    BY <1>1, ValuesKept DEF vars, Map!vars
<1>2. CASE Open
    <2>1. UNCHANGED Valuation /\ UNCHANGED answer /\ pc = "open"
        BY <1>2, ValuesKept DEF Open
    <2>2. CASE pc' = "main"
        BY <2>1, <2>2 DEF Map!Next, Map!Start
    <2>3. CASE pc' = "enumerate"
        BY <2>1, <2>3 DEF Map!vars
    <2> QED BY <1>2, <2>2, <2>3 DEF Open
<1>3. CASE _initenv
    <2> DEFINE v == registry[idx + 1]
    <2>0. pc = "enumerate" /\ UNCHANGED answer
        BY <1>3 DEF _initenv
    <2>1. CASE UNCHANGED vector /\ pc' = "main"
        <3>1. UNCHANGED Valuation
            BY <2>1, ValuesKept
        <3> QED BY <2>0, <2>1, <3>1 DEF Map!Next, Map!Start
    <2>2. CASE UNCHANGED vector /\ pc' = "enumerate"
        <3>1. UNCHANGED Valuation
            BY <2>2, ValuesKept
        <3> QED BY <2>0, <2>2, <3>1 DEF Map!vars
    <2>3. ASSUME NEW e \in Entries, _appendenv(e), pc' = "enumerate"
          PROVE [Map!Next]_Map!vars
        <3>1. \A n \in Names : ValueOf(n)' = IF ~Found({n}) /\ n = e.name THEN e.value
                                             ELSE ValueOf(n)
            BY <2>3, AppendedValue
        <3>2. e.name \in Names /\ e.value \in Values
            BY DEF Entries
        <3>3. CASE Found({e.name})
            <4>1. UNCHANGED Valuation
                BY <3>1, <3>3
            <4> QED BY <2>0, <2>3, <4>1 DEF Map!vars
        <3>4. CASE ~Found({e.name})
            <4>1. Valuation' = [Valuation EXCEPT ![e.name] = e.value]
                BY <3>1, <3>2, <3>4
            <4>2. ValueOf(e.name) = Unset
                BY <3>4 DEF ValueOf
            <4>3. Map!Import(e.name, e.value)
                BY <2>0, <2>3, <3>2, <4>1, <4>2 DEF Map!Import
            <4> QED BY <3>2, <4>3 DEF Map!Next
        <3> QED BY <3>3, <3>4
    <2>4. CASE idx >= Len(registry)
        BY <1>3, <2>1, <2>4 DEF _initenv
    <2>5. CASE idx < Len(registry)
        <3>1. idx + 1 \in DOMAIN registry /\ v \in RegistryValues
            BY <2>5 DEF IInv, TypeOK
        <3>2. CASE v.type = "long"
            BY <1>3, <2>1, <2>5, <3>1, <3>2 DEF _initenv, IInv, TypeOK
        <3>3. CASE v.type = "other"
            BY <1>3, <2>0, <2>2, <2>5, <3>1, <3>3 DEF _initenv, Skip, IInv, TypeOK
        <3>4. CASE v.type = "REG_SZ"
            <4>1. [name |-> v.name, value |-> v.value] \in Entries
                BY <3>1 DEF RegistryValues, Entries
            <4>2. _appendenv([name |-> v.name, value |-> v.value]) /\ UNCHANGED pc
                BY <1>3, <2>5, <3>1, <3>4 DEF _initenv, IInv, TypeOK
            <4> QED BY <2>0, <2>3, <4>1, <4>2
        <3> QED BY <3>1, <3>2, <3>3, <3>4 DEF RegistryValues, Kinds
    <2> QED BY <2>4, <2>5 DEF IInv, TypeOK
<1>4. ASSUME NEW n \in Names, NEW v \in Values, RegistrySet(n, v) PROVE [Map!Next]_Map!vars
    <2>1. UNCHANGED <<pc, vector, answer>>
        BY <1>4 DEF RegistrySet
    <2> QED BY <2>1, ValuesKept DEF Map!vars
<1>5. ASSUME NEW n \in Names, xcegetenv(n) PROVE [Map!Next]_Map!vars
    BY <1>5, Answered DEF Map!Next
<1>6. ASSUME NEW n \in Names, NEW v \in Values, xceputenv(n, v) PROVE [Map!Next]_Map!vars
    <2> DEFINE e == [name |-> n, value |-> v]
    <2>1. e \in Entries /\ e.name = n /\ e.value = v
        BY DEF Entries
    <2>2. pc = "main" /\ UNCHANGED <<pc, answer>>
          /\ (_replaceenv(e) \/ (~Found({e.name}) /\ _appendenv(e)))
        BY <1>6 DEF xceputenv
    <2> HIDE DEF e
    <2>3. \A m \in Names : ValueOf(m)' = IF m = n THEN v ELSE ValueOf(m)
        <3>1. CASE _replaceenv(e)
            BY <2>1, <3>1, ReplacedValue
        <3>2. CASE ~Found({e.name}) /\ _appendenv(e)
            BY <2>1, <3>2, AppendedValue
        <3> QED BY <2>2, <3>1, <3>2
    <2>4. Valuation' = [Valuation EXCEPT ![n] = v]
        BY <2>3
    <2> QED BY <2>2, <2>4 DEF Map!Next, Map!Put
<1> QED BY <1>1, <1>2, <1>3, <1>4, <1>5, <1>6 DEF Next

\* Of two values read under one name the first stands; putenv sets one name and no
\* other, and getenv returns the last value put, or one of a shorter name.
THEOREM EnvironImplementsEnvMap == Spec => ImplementsEnvMap
<1>1. Init => Map!Init
    BY DEF Init, Map!Init, ValueOf, Found
<1>2. IInv /\ [Next]_vars => [Map!Next]_Map!vars
    BY MapStep
<1> QED BY <1>1, <1>2, Invariance, PTL DEF Spec, ImplementsEnvMap, Map!Spec

==============================================================================
