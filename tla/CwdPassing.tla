------------------------------ MODULE CwdPassing ------------------------------
(***************************************************************************)
(* How a child process gets the current directory of its parent.  Windows  *)
(* CE has no current directory, so XCEExecuteProcessA (ceprocess.c) leaves *)
(* it in PWD in the registry, which all processes share, and the child's   *)
(* xceinit (cestdlib.c) looks for it in the environment that _initenv      *)
(* (ceenv.c) has read from there, value by value.                          *)
(*                                                                         *)
(* Directories stand for the strings CurrentDir keeps; CwdSurvivesPassing  *)
(* there is why a string means the same in parent and child.  A string     *)
(* that names no directory is one that does not exist.  Every process has  *)
(* one thread.  The write of CHILDPATH, just before PWD's, is one of those  *)
(* of any value that programs make.                                        *)
(***************************************************************************)
EXTENDS Integers, FiniteSets, SequencesExt

CONSTANTS
    Procs,
    Roots,          \* the processes that run from the beginning
    Dirs, Top,      \* the directories; Top is \
    Names,          \* names of registry values
    PWD,
    Beginnings,     \* of these the ones whose text before '=' PWD begins with: P, PW,
                    \* a name that is empty, and PWD itself
    None            \* no process

ASSUME RootsAssumption == Roots \subseteq Procs
ASSUME TopAssumption == Top \in Dirs /\ None \notin Procs
ASSUME NamesAssumption ==
    PWD \in Beginnings /\ Beginnings \subseteq Names /\ IsFiniteSet(Names)

VARIABLES
    registry,   \* the values of HKEY_LOCAL_MACHINE\Environment, in their order
    existing,   \* the directories that exist
    cwd,        \* the current directory of each process
    env,        \* of each process's environ the strings with a name in Beginnings
    idx,        \* how many values each process's _initenv has passed
    globbed,    \* where _setargv looked for the files of the command line
    born,       \* the directory the parent was in when it made the process
    awaits,     \* the process each one waits for
    pc,
    waited,     \* history: every parent has waited for its child
    trouble     \* history: what happened to the last directory passed on by, and
                \* then to, each process

vars == <<registry, existing, cwd, env, idx, globbed, born, awaits, pc, waited, trouble>>
local == <<env, idx, globbed, born>>

\* A value is a string, something else, or too long for the buffers of _initenv.
Values == [name : Names, type : {"REG_SZ"}, data : Dirs]
              \cup [name : Names, type : {"other", "long"}]
Entries == [name : Beginnings, data : Dirs]

\* refused: the registry did not take the write of PWD, or was not opened for the
\* child; crossed: another process wrote PWD before the child had read it; hidden:
\* while the child read, a value before PWD was too long or had a beginning of its name.
Troubles == {"refused", "crossed", "hidden"}

Starting == {"setargv", "initenv", "enumerate", "initdir", "started"}
Running == {"main", "exec_create"}

Distinct(r) == \A i, j \in DOMAIN r : r[i].name = r[j].name => i = j

TypeOK ==
    /\ registry \in Seq(Values) /\ Distinct(registry)
    /\ existing \subseteq Dirs /\ Top \in existing
    /\ cwd \in [Procs -> Dirs]
    /\ env \in [Procs -> Seq(Entries)] /\ idx \in [Procs -> Nat]
    /\ globbed \in [Procs -> Dirs] /\ born \in [Procs -> Dirs]
    /\ awaits \in [Procs -> Procs \cup {None}]
    /\ pc \in [Procs -> {"none", "wait", "exited"} \cup Starting \cup Running]
    /\ waited \in BOOLEAN /\ trouble \in [Procs -> SUBSET Troubles]

Init ==
    /\ registry \in {r \in BoundedSeq(Values, Cardinality(Names)) : Distinct(r)}
    /\ existing = Dirs
    /\ cwd = [p \in Procs |-> Top]
    /\ env = [p \in Procs |-> <<>>] /\ idx = [p \in Procs |-> 0]
    /\ globbed = [p \in Procs |-> Top] /\ born = [p \in Procs |-> Top]
    /\ awaits = [p \in Procs |-> None]
    /\ pc = [p \in Procs |-> IF p \in Roots THEN "main" ELSE "none"]
    /\ waited = TRUE /\ trouble = [p \in Procs |-> {}]

------------------------------------------------------------------------------
Step(p, from, to) == pc[p] = from /\ pc' = [pc EXCEPT ![p] = to]

\* chdir to a directory that exists; to another it changes nothing.
Chdir(p) ==
    /\ pc[p] = "main"
    /\ \E d \in existing : cwd' = [cwd EXCEPT ![p] = d]
    /\ UNCHANGED <<registry, existing, local, awaits, pc, waited, trouble>>

\* Directories come and go, \ stays.
MkdirRmdir ==
    /\ \E d \in Dirs \ {Top} : existing' \in {existing \cup {d}, existing \ {d}}
    /\ UNCHANGED <<registry, cwd, local, awaits, pc, waited, trouble>>

------------------------------------------------------------------------------
(* The registry *)

\* Over the value of that name, or as a new one whose place is the system's choice.
Written(r, v) ==
    IF \E i \in DOMAIN r : r[i].name = v.name
    THEN {[i \in DOMAIN r |-> IF r[i].name = v.name THEN v ELSE r[i]]}
    ELSE {[i \in 1 .. Len(r) + 1 |-> IF i < k THEN r[i] ELSE IF i = k THEN v ELSE r[i - 1]] :
              k \in 1 .. Len(r) + 1}

\* PWD is a string, the loop of _initenv gets to it, and it is the first string that
\* _findenv takes for PWD.
Hides(v) == v.type = "long" \/ (v.type = "REG_SZ" /\ v.name \in Beginnings)
Clear(r) == \E i \in DOMAIN r : /\ r[i].name = PWD /\ r[i].type = "REG_SZ"
                                /\ \A j \in 1 .. i - 1 : ~Hides(r[j])

\* The directory has left the parent, and the child has not read all values.
OnTheWay == {"exec_create", "setargv", "initenv", "enumerate"}

Befalls(q, name) ==
    {t \in {"crossed"} : pc[q] \in OnTheWay /\ name = PWD}
    \cup {t \in {"hidden"} : pc[q] = "enumerate" /\ ~Clear(registry')}

\* RegSetValueEx in p.
XCERegSetValueExA(p, v) ==
    /\ registry' \in Written(registry, v)
    /\ trouble' = [q \in Procs |-> IF q = p THEN {} ELSE trouble[q] \cup Befalls(q, v.name)]

\* A program writes any value: other programs of the library, or of others.
XCESetEnvironmentVariableInRegA(p) ==
    /\ pc[p] = "main"
    /\ \E v \in Values : v.type # "other" /\ XCERegSetValueExA(p, v)
    /\ UNCHANGED <<existing, cwd, local, awaits, pc, waited>>

------------------------------------------------------------------------------
(* XCEExecuteProcessA in the parent *)

\* Mutant of ExecWrite: CHILDPATH alone is written.
ExecWriteNoPwd(p) ==
    /\ Step(p, "main", "exec_create")
    /\ trouble' = [trouble EXCEPT ![p] = {}]
    /\ UNCHANGED <<registry, existing, cwd, local, awaits, waited>>

\* The result of the write is not looked at.
ExecWrite(p) ==
    /\ Step(p, "main", "exec_create")
    /\ \/ XCERegSetValueExA(p, [name |-> PWD, type |-> "REG_SZ", data |-> cwd[p]])
       \/ trouble' = [trouble EXCEPT ![p] = {"refused"}] /\ UNCHANGED registry
    /\ UNCHANGED <<existing, cwd, local, awaits, waited>>

ExecCreateFails(p) ==
    /\ Step(p, "exec_create", "main")
    /\ UNCHANGED <<registry, existing, cwd, local, awaits, waited, trouble>>

\* CreateProcessW; the parent waits or goes on.
ExecCreate(p) ==
    /\ pc[p] = "exec_create"
    /\ \E c \in Procs \ {p} :
          /\ pc[c] = "none"
          /\ born' = [born EXCEPT ![c] = cwd[p]]
          /\ trouble' = [trouble EXCEPT ![c] = trouble[p]]
          /\ \/ /\ pc' = [pc EXCEPT ![p] = "wait", ![c] = "setargv"]
                /\ awaits' = [awaits EXCEPT ![p] = c]
                /\ UNCHANGED waited
             \/ /\ pc' = [pc EXCEPT ![p] = "main", ![c] = "setargv"]
                /\ waited' = FALSE
                /\ UNCHANGED awaits
    /\ UNCHANGED <<registry, existing, cwd, env, idx, globbed>>

\* WaitForSingleObject returns.
WaitDone(p) ==
    /\ Step(p, "wait", "main")
    /\ awaits[p] # None /\ pc[awaits[p]] = "exited"
    /\ awaits' = [awaits EXCEPT ![p] = None]
    /\ UNCHANGED <<registry, existing, cwd, local, waited, trouble>>

Exit(p) ==
    /\ Step(p, "main", "exited")
    /\ UNCHANGED <<registry, existing, cwd, local, awaits, waited, trouble>>

------------------------------------------------------------------------------
(* xceinit in the child *)

SetArgv(c) ==
    /\ Step(c, "setargv", "initenv")
    /\ globbed' = [globbed EXCEPT ![c] = cwd[c]]
    /\ UNCHANGED <<registry, existing, cwd, env, idx, born, awaits, waited, trouble>>

\* RegOpenKeyEx, of a key that need not be there.
InitEnvOpen(c) ==
    /\ \/ /\ Step(c, "initenv", "enumerate")
          /\ trouble' = [trouble EXCEPT ![c] = @ \cup {t \in {"hidden"} : ~Clear(registry)}]
       \/ /\ Step(c, "initenv", "initdir")
          /\ trouble' = [trouble EXCEPT ![c] = @ \cup {"refused"}]
    /\ UNCHANGED <<registry, existing, cwd, local, awaits, waited>>

\* A value is read; it is passed if it is not a string.
InitEnv(c) ==
    /\ pc[c] = "enumerate" /\ idx[c] < Len(registry)
    /\ LET v == registry[idx[c] + 1]
       IN  /\ v.type # "long"
           /\ env' = IF v.type = "REG_SZ" /\ v.name \in Beginnings
                     THEN [env EXCEPT ![c] = Append(@, [name |-> v.name, data |-> v.data])]
                     ELSE env
    /\ idx' = [idx EXCEPT ![c] = @ + 1]
    /\ UNCHANGED <<registry, existing, cwd, globbed, born, awaits, pc, waited, trouble>>

\* There are no more values, or the next one does not fit.
InitEnvEnd(c) ==
    /\ Step(c, "enumerate", "initdir")
    /\ idx[c] < Len(registry) => registry[idx[c] + 1].type = "long"
    /\ UNCHANGED <<registry, existing, cwd, local, awaits, waited, trouble>>

\* chdir(getenv("PWD")), where the first string with a beginning of the name answers,
\* or chdir("\\") when there is none; a failure leaves \ too.
InitDir(c) ==
    /\ Step(c, "initdir", "started")
    /\ cwd' = [cwd EXCEPT ![c] = IF env[c] = <<>> THEN Top
                                 ELSE IF Head(env[c]).data \in existing THEN Head(env[c]).data
                                 ELSE @]
    /\ UNCHANGED <<registry, existing, local, awaits, waited, trouble>>

\* wWinMain calls main.
Main(c) ==
    /\ Step(c, "started", "main")
    /\ UNCHANGED <<registry, existing, cwd, local, awaits, waited, trouble>>

Next ==
    \/ MkdirRmdir
    \/ \E p \in Procs :
          \/ Chdir(p) \/ XCESetEnvironmentVariableInRegA(p)
          \/ ExecWrite(p) \/ ExecCreate(p) \/ ExecCreateFails(p) \/ WaitDone(p) \/ Exit(p)
          \/ SetArgv(p) \/ InitEnvOpen(p) \/ InitEnv(p) \/ InitEnvEnd(p)
          \/ InitDir(p) \/ Main(p)

Spec == Init /\ [][Next]_vars

------------------------------------------------------------------------------
(* Properties *)

\* The registry took the directory and gave it to the child, and if another process
\* wrote PWD in between, somebody has not waited: doc/celib.txt:33 says that PWD is
\* global, and that nobody runs programs at once.
PassedOn(c) ==
    /\ trouble[c] \cap {"refused", "hidden"} = {}
    /\ "crossed" \in trouble[c] => waited

(***************************************************************************)
(* ceprocess.c:94, "pass path to child": a process starts in the directory *)
(* its parent was in when it made the process, or in \ if that directory   *)
(* is gone.  It does so when the registry takes PWD and no value hides it  *)
(* from the child (ceenv.c:79, 94, 35), whatever other values are written  *)
(* and however PWD moves among them while they are read.  That another     *)
(* process writes PWD in between is no excuse as long as every parent      *)
(* waits: it must not happen.                                              *)
(***************************************************************************)
StartsInParentsDirectory ==
    [][\A c \in Procs : pc[c] = "initdir" /\ pc'[c] = "started" /\ PassedOn(c)
           => IF born[c] \in existing THEN cwd'[c] = born[c] ELSE cwd'[c] = Top]_vars

\* ceprocess.c:94 again, for the files the command line stands for: a relative
\* pattern is matched in the directory the child starts in.
ArgumentsMatchedThere ==
    \A c \in Procs : pc[c] = "started" /\ trouble[c] = {} => globbed[c] = cwd[c]
==============================================================================
