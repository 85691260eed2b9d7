-------------------------------- MODULE Environ --------------------------------
(***************************************************************************)
(* ceenv.c: the environment of a program, a vector of NAME=value strings   *)
(* that ends with NULL.  It is filled at the start from the values of a    *)
(* key of the registry, by number, while other processes may add values to *)
(* the key or change them; getenv and putenv then search it from the start.*)
(*                                                                         *)
(* A lookup compares as many characters as the name in the entry has: it   *)
(* also stops at an entry whose name is the beginning of the one it looks  *)
(* for.  A replacement compares the '=' too.                               *)
(***************************************************************************)
EXTENDS Integers, SequencesExt

CONSTANTS
    Names, Values,
    Shorter,        \* the pairs <<m, n>> where the name n begins with m # n
    InitialSize,    \* 10
    MaxRegistry,    \* bound: how many values the registry key has at most
    Null, Garbage,  \* in the vector: the NULL at its end; what malloc leaves
    Unset           \* getenv found nothing

ASSUME SizeAssumption == InitialSize \in Nat \ {0}
ASSUME ShorterAssumption ==
    Shorter \subseteq Names \X Names /\ \A n \in Names : <<n, n>> \notin Shorter
ASSUME MarkAssumption ==
    /\ Unset \notin Values
    /\ {Null, Garbage} \cap [name : Names, value : Values] = {} /\ Null # Garbage

VARIABLES
    registry,   \* the values of HKEY_LOCAL_MACHINE\Environment, in their order
    pc, idx,    \* where _initenv is
    environ,    \* the vector: a function on 0 .. _envsize - 1
    _envsize, _envcount,
    answer,     \* what getenv last returned
    atStart,    \* history: the names that had a string when the program started
    complete    \* history: _initenv saw the end of the key

vector == <<environ, _envsize, _envcount>>
history == <<atStart, complete>>
vars == <<registry, pc, idx, vector, answer, history>>

Entries == [name : Names, value : Values]

\* What the registry holds under a name: a string, a value of another type or
\* one that does not fit in the buffers of _initenv.
Kinds == {"REG_SZ", "other", "long"}
RegistryValues == [name : Names, type : Kinds, value : Values]

Strings(r) == {n \in Names : \E i \in DOMAIN r : r[i].name = n /\ r[i].type = "REG_SZ"}

TypeOK ==
    /\ registry \in Seq(RegistryValues)
    /\ pc \in {"open", "enumerate", "main"} /\ idx \in Nat
    /\ _envsize \in Nat \ {0} /\ _envcount \in Nat
    /\ environ \in [0 .. _envsize - 1 -> Entries \cup {Null, Garbage}]
    /\ answer \in Values \cup {Unset}
    /\ atStart \subseteq Names /\ complete \in BOOLEAN

Init ==
    /\ registry \in {r \in BoundedSeq(RegistryValues, MaxRegistry) :
                        \A i, j \in DOMAIN r : r[i].name = r[j].name => i = j}
    /\ pc = "open" /\ idx = 0
    /\ _envsize = InitialSize /\ _envcount = 0
    /\ environ = [i \in 0 .. InitialSize - 1 |-> IF i = 0 THEN Null ELSE Garbage]
    /\ answer = Unset
    /\ atStart = Strings(registry) /\ complete = FALSE

------------------------------------------------------------------------------
(* The vector *)

\* Mutant of _appendenv: room for the string but not for the NULL.
_appendenvTight(e) ==
    LET size == IF _envcount >= _envsize THEN 2 * _envsize ELSE _envsize
    IN  /\ _envsize' = size
        /\ _envcount' = _envcount + 1
        /\ environ' = [i \in 0 .. size - 1 |->
                          CASE i = _envcount -> e
                            [] i = _envcount + 1 -> Null
                            [] OTHER -> IF i < _envsize THEN environ[i] ELSE Garbage]

\* realloc keeps what is there and leaves the rest as it finds it.
_appendenv(e) ==
    LET size == IF _envcount >= _envsize - 1 THEN 2 * _envsize ELSE _envsize
    IN  /\ _envsize' = size
        /\ _envcount' = _envcount + 1
        /\ environ' = [i \in 0 .. size - 1 |->
                          CASE i = _envcount -> e
                            [] i = _envcount + 1 -> Null
                            [] OTHER -> IF i < _envsize THEN environ[i] ELSE Garbage]

\* The first of the entries that have one of some names.
Found(S) == \E i \in 0 .. _envcount - 1 : environ[i].name \in S
FirstOf(S) == CHOOSE i \in 0 .. _envcount - 1 :
                  environ[i].name \in S /\ \A j \in 0 .. i - 1 : environ[j].name \notin S

Beginnings(n) == {m \in Names : m = n \/ <<m, n>> \in Shorter}

_findenv(n) ==
    IF Found(Beginnings(n)) THEN environ[FirstOf(Beginnings(n))].value ELSE Unset

\* Mutant of _replaceenv: the '=' is not compared.
_replaceenvByBeginning(e) ==
    /\ Found(Beginnings(e.name))
    /\ environ' = [environ EXCEPT ![FirstOf(Beginnings(e.name))] = e]
    /\ UNCHANGED <<_envsize, _envcount>>

_replaceenv(e) ==
    /\ Found({e.name})
    /\ environ' = [environ EXCEPT ![FirstOf({e.name})] = e]
    /\ UNCHANGED <<_envsize, _envcount>>

------------------------------------------------------------------------------
(* The start of the program *)

Open ==
    /\ pc = "open"
    /\ pc' \in {"enumerate", "main"}        \* main: the key is not there
    /\ UNCHANGED <<registry, idx, vector, answer, history>>

\* Mutant of Skip: the number is counted up once more before continue.
SkipTwo ==
    /\ idx' = idx + 2
    /\ UNCHANGED <<pc, vector, complete>>

\* Not a string: continue.
Skip ==
    /\ idx' = idx + 1
    /\ UNCHANGED <<pc, vector, complete>>

\* One RegEnumValue.  An error, such as a value that does not fit, ends the loop.
_initenv ==
    /\ pc = "enumerate"
    /\ IF idx >= Len(registry)
       THEN pc' = "main" /\ complete' = TRUE /\ UNCHANGED <<idx, vector>>
       ELSE LET v == registry[idx + 1]
            IN  CASE v.type = "long" ->
                        pc' = "main" /\ UNCHANGED <<idx, vector, complete>>
                  [] v.type = "other" -> Skip
                  [] v.type = "REG_SZ" ->
                        /\ _appendenv([name |-> v.name, value |-> v.value])
                        /\ idx' = idx + 1
                        /\ UNCHANGED <<pc, complete>>
    /\ UNCHANGED <<registry, answer, atStart>>

\* Another process writes a value (XCESetEnvironmentVariableInReg): over the one
\* of that name, or as a new one whose place among the others is the system's
\* choice.  After the start this program does not look.
RegistrySet(n, v) ==
    LET entry == [name |-> n, type |-> "REG_SZ", value |-> v]
    IN  /\ pc # "main"
        /\ \/ \E i \in DOMAIN registry :
                  registry[i].name = n /\ registry' = [registry EXCEPT ![i] = entry]
           \/ /\ \A i \in DOMAIN registry : registry[i].name # n
              /\ Len(registry) < MaxRegistry
              /\ \E i \in 1 .. Len(registry) + 1 : registry' = InsertAt(registry, i, entry)
        /\ UNCHANGED <<pc, idx, vector, answer, history>>

------------------------------------------------------------------------------
(* The program *)

xcegetenv(n) ==
    /\ pc = "main"
    /\ answer' = _findenv(n)
    /\ UNCHANGED <<registry, pc, idx, vector, history>>

xceputenv(n, v) ==
    LET e == [name |-> n, value |-> v]
    IN  /\ pc = "main"
        /\ \/ _replaceenv(e)
           \/ ~Found({n}) /\ _appendenv(e)
        /\ UNCHANGED <<registry, pc, idx, answer, history>>

Next == \/ Open \/ _initenv
        \/ \E n \in Names, v \in Values : RegistrySet(n, v)
        \/ \E n \in Names : xcegetenv(n)
        \/ \E n \in Names, v \in Values : xceputenv(n, v)

Spec == Init /\ [][Next]_vars

------------------------------------------------------------------------------
(* Properties *)

\* However the vector has grown, the strings end with a NULL that is inside it:
\* programs walk along environ themselves (ceenv.c:13, 21).
Terminated ==
    /\ _envcount < _envsize
    /\ environ[_envcount] = Null
    /\ \A i \in 0 .. _envcount - 1 : environ[i] \in Entries

\* If the loop saw the end of the key, every name that had a string when the
\* program started has a value, whatever was written or added meanwhile and
\* whatever the loop passed over: it goes by number (ceenv.c:91).
InitTakesEveryValue ==
    complete => \A n \in atStart : Found({n})

\* The value a name has: that of its first entry.
ValueOf(n) == IF Found({n}) THEN environ[FirstOf({n})].value ELSE Unset

Map == INSTANCE EnvMap WITH running <- pc = "main", value <- [n \in Names |-> ValueOf(n)]

\* Of two values read under one name the first stands; then putenv sets the one
\* name it is given and no name that begins like it, and getenv returns the last
\* value put, or one of a shorter name (ceenv.c:35, 52).
ImplementsEnvMap == Map!Spec
==============================================================================
