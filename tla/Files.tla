--------------------------------- MODULE Files ---------------------------------
(***************************************************************************)
(* The file calls of cestdlib.c and of the wrappers below them, made by    *)
(* several processes on one file system.  A call of the system is atomic;  *)
(* a call of the library is as many steps as it makes calls of the system  *)
(* that another process may get between: rename looks at the new name,     *)
(* removes it and moves the old one there, chmod reads the attributes and  *)
(* writes them back, mktemp looks at one name after the other.             *)
(*                                                                         *)
(* A name is what XCEFixPath leaves of it (CurrentDir), and the strings of *)
(* the A functions are what their conversions give the W functions.  The   *)
(* system is external: a file that is open, read-only or a directory is    *)
(* not deleted, an open file is not moved, nothing is moved onto a name    *)
(* that is taken.                                                          *)
(***************************************************************************)
EXTENDS Integers

CONSTANTS
    Process,
    Plain,          \* names of files, other than those mktemp makes
    Attributes,     \* FILE_ATTRIBUTE_..., without DIRECTORY
    Pid,            \* the system's number of each process
    PidLimit,       \* 2^31: xcegetpid drops the highest bit
    LastLetter,     \* mktemp tries letters 1 .. LastLetter; 25 in the code
    None

ASSUME PlainAssumption == None \notin Plain /\ "READONLY" \in Attributes
ASSUME FileAssumption == None \notin [dir : BOOLEAN, attr : SUBSET Attributes]
ASSUME LetterAssumption == LastLetter \in Nat \ {0}
\* Two processes have different numbers even without the highest bit.
ASSUME PidAssumption ==
    /\ Pid \in [Process -> Nat] /\ PidLimit \in Nat \ {0}
    /\ \A p, q \in Process : Pid[p] % PidLimit = Pid[q] % PidLimit => p = q
\* mktemp's names are not names the processes choose.
ASSUME NamesAssumption ==
    Plain \cap [letter : 1 .. LastLetter, pid : {Pid[p] % PidLimit : p \in Process}] = {}

VARIABLES
    store,      \* the file system: what is under a name
    pc, arg,    \* where each process is, and the locals of its call
    template,   \* what the process's last mktemp returned
    res,        \* what its last call returned
    fresh,      \* history: it has not opened that name since
    kept,       \* history: the names of files that nobody has asked to lose
    killed      \* the processes that were ended, maybe in the middle of a call

filesVars == <<store, pc, arg, template, fresh, res, kept, killed>>
temps == <<template, fresh>>

\* Mutant of xcegetpid: the lowest bits alone.
xcegetpidLow(p) == Pid[p] % 4

xcegetpid(p) == Pid[p] % PidLimit

TempName(p, letter) == [letter |-> letter, pid |-> xcegetpid(p)]
Temp == [letter : 1 .. LastLetter, pid : {xcegetpid(p) : p \in Process}]
Path == Plain \cup Temp

File == [dir : BOOLEAN, attr : SUBSET Attributes]
NewFile == [dir |-> FALSE, attr |-> {}]
NewDir == [dir |-> TRUE, attr |-> {}]

Steps == {"main", "remove", "move", "set", "mktemp", "open", "reopen"}
Locals == [old : Path \cup {None}, new : Path \cup {None}, attr : SUBSET Attributes,
           letter : 0 .. LastLetter, removed : BOOLEAN]
NoLocals == [old |-> None, new |-> None, attr |-> {}, letter |-> 0, removed |-> FALSE]

FilesTypeOK ==
    /\ store \in [Path -> File \cup {None}]
    /\ pc \in [Process -> Steps] /\ arg \in [Process -> Locals]
    /\ template \in [Process -> Temp \cup {None}] /\ fresh \subseteq Process
    /\ res \in [Process -> {0, -1}]
    /\ kept \subseteq Path /\ killed \subseteq Process

FilesInit ==
    /\ store \in [Path -> {None, NewFile}]
    /\ pc = [p \in Process |-> "main"] /\ arg = [p \in Process |-> NoLocals]
    /\ template = [p \in Process |-> None] /\ fresh = {}
    /\ res = [p \in Process |-> 0]
    /\ kept = {n \in Path : store[n] # None} /\ killed = {}

------------------------------------------------------------------------------
(* The system *)

There(n) == store[n] # None
IsOpen(n) == \E p \in Process \ killed : pc[p] = "open" /\ arg[p].new = n
IsFile(n) == There(n) /\ ~store[n].dir
Writable(n) == "READONLY" \notin store[n].attr

CanDelete(n) == IsFile(n) /\ Writable(n) /\ ~IsOpen(n)
CanMove(a, b) == There(a) /\ ~IsOpen(a) /\ ~There(b)
CanCopy(a, b, fail) ==
    /\ IsFile(a)
    /\ There(b) => ~fail /\ a # b /\ IsFile(b) /\ Writable(b) /\ ~IsOpen(b)
\* Directories of the model are empty.
CanRemoveDir(n) == There(n) /\ store[n].dir

\* CreateFileW with the dispositions of xceopenw, to read or to write.  A directory
\* is not opened, a read-only file not written.
Dispositions ==
    {"OPEN_EXISTING", "OPEN_ALWAYS", "CREATE_NEW", "CREATE_ALWAYS", "TRUNCATE_EXISTING"}
CanOpen(n, disposition, write) ==
    LET usable == IsFile(n) /\ (write => Writable(n))
    IN  CASE disposition = "OPEN_EXISTING"     -> usable
          [] disposition = "OPEN_ALWAYS"       -> There(n) => usable
          [] disposition = "CREATE_NEW"        -> ~There(n)
          [] disposition = "CREATE_ALWAYS"     -> There(n) => usable /\ Writable(n)
          [] disposition = "TRUNCATE_EXISTING" -> usable /\ write

\* 0xFFFFFFFF is None.
XCEGetFileAttributes(n) == IF There(n) THEN store[n].attr ELSE None

\* One call of the system: does what it is to do, or fails.
System(can, after) == store' = IF can THEN after ELSE store
Result(can) == IF can THEN 0 ELSE -1

XCEDeleteFile(n) == System(CanDelete(n), [store EXCEPT ![n] = None])
XCEMoveFile(a, b) == System(CanMove(a, b), [store EXCEPT ![b] = store[a], ![a] = None])
XCECopyFile(a, b, fail) == System(CanCopy(a, b, fail), [store EXCEPT ![b] = store[a]])
XCECreateDirectory(n) == System(~There(n), [store EXCEPT ![n] = NewDir])
XCERemoveDirectory(n) == System(CanRemoveDir(n), [store EXCEPT ![n] = None])
XCESetFileAttributes(n, attr) == System(There(n), [store EXCEPT ![n].attr = attr])
\* A file that is there is truncated, or not: its contents are not modelled.
XCECreateFile(n, disposition, write) ==
    System(CanOpen(n, disposition, write) /\ ~There(n), [store EXCEPT ![n] = NewFile])
XCECreateFileForMapping(n, write) == XCECreateFile(n, "OPEN_EXISTING", write)

------------------------------------------------------------------------------
(* Steps of a process *)

At(p, step) == p \notin killed /\ pc[p] = step
Goto(p, step, locals) ==
    /\ pc' = [pc EXCEPT ![p] = step]
    /\ arg' = [arg EXCEPT ![p] = locals]
Goes(p, step, locals) == Goto(p, step, locals) /\ UNCHANGED res
Return(p, value) ==
    /\ Goto(p, "main", NoLocals)
    /\ res' = [res EXCEPT ![p] = value]

\* What disappears is lost as asked, what appears is to be kept.
AsAsked == kept' = (kept \ {n \in Path : There(n) /\ ~There(n)'})
                   \cup {n \in Path : ~There(n) /\ There(n)'}

\* A call of the library that is one call of the system.
Simply(p, can, effect) ==
    /\ At(p, "main")
    /\ effect /\ Return(p, Result(can))
    /\ AsAsked
    /\ UNCHANGED <<temps, killed>>

xceunlink(p, n) == Simply(p, CanDelete(n), XCEDeleteFile(n))
xcemkdir(p, n) == Simply(p, ~There(n), XCECreateDirectory(n))
xcermdir(p, n) == Simply(p, CanRemoveDir(n), XCERemoveDirectory(n))
Move(p, a, b) == Simply(p, CanMove(a, b), XCEMoveFile(a, b))
Copy(p, a, b, fail) == Simply(p, CanCopy(a, b, fail), XCECopyFile(a, b, fail))
\* access is stat: the mode asked for is not looked at.
xceaccess(p, n) == Simply(p, There(n), UNCHANGED store)

------------------------------------------------------------------------------
(* rename *)

xceremove(n) == XCEDeleteFile(n)
Renaming(a, b, removed) == [NoLocals EXCEPT !.old = a, !.new = b, !.removed = removed]

xcerename(p, a, b) ==
    /\ At(p, "main")
    /\ Goes(p, IF There(b) THEN "remove" ELSE "move", Renaming(a, b, FALSE))
    /\ UNCHANGED <<store, temps, kept, killed>>

\* Mutant of RenameRemove: goes on when the file could not be removed, and
\* returns when it was.
RenameRemoveInverted(p) ==
    LET a == arg[p].old
        b == arg[p].new
    IN  /\ At(p, "remove")
        /\ xceremove(b)
        /\ IF CanDelete(b) THEN Return(p, -1) ELSE Goes(p, "move", Renaming(a, b, TRUE))
        /\ UNCHANGED <<temps, kept, killed>>

RenameRemove(p) ==
    LET a == arg[p].old
        b == arg[p].new
    IN  /\ At(p, "remove")
        /\ xceremove(b)
        /\ IF CanDelete(b) THEN Goes(p, "move", Renaming(a, b, TRUE)) ELSE Return(p, -1)
        /\ UNCHANGED <<temps, kept, killed>>

\* A move fails for its source, or because another process has made the target.
RenameMove(p) ==
    LET a == arg[p].old
        b == arg[p].new
    IN  /\ At(p, "move")
        /\ XCEMoveFile(a, b)
        /\ Return(p, Result(CanMove(a, b)))
        /\ IF There(a) /\ ~IsOpen(a) THEN AsAsked ELSE kept' = kept \ {b}
        /\ UNCHANGED <<temps, killed>>

------------------------------------------------------------------------------
(* chmod *)

Chmod(n, attr) == [NoLocals EXCEPT !.new = n, !.attr = attr]

xcechmod(p, n, write) ==
    /\ At(p, "main")
    /\ IF XCEGetFileAttributes(n) = None THEN Return(p, -1)
       ELSE Goes(p, "set", Chmod(n, IF write THEN XCEGetFileAttributes(n) \ {"READONLY"}
                                    ELSE XCEGetFileAttributes(n) \cup {"READONLY"}))
    /\ UNCHANGED <<store, temps, kept, killed>>

ChmodSet(p) ==
    LET n == arg[p].new
    IN  /\ At(p, "set")
        /\ XCESetFileAttributes(n, arg[p].attr)
        /\ Return(p, Result(There(n)))
        /\ UNCHANGED <<temps, kept, killed>>

------------------------------------------------------------------------------
(* mktemp *)

\* Without TMP in the environment there is no name, though it is not used for it.
xcemktemp(p, tmp) ==
    /\ At(p, "main")
    /\ IF tmp THEN Goes(p, "mktemp", [NoLocals EXCEPT !.letter = 1]) ELSE Return(p, -1)
    /\ UNCHANGED <<store, temps, kept, killed>>

\* Mutant of MktempStat: one letter too many.
MktempStatPast(p) ==
    LET letter == arg[p].letter
        n == TempName(p, letter)
    IN  /\ At(p, "mktemp")
        /\ IF There(n) THEN Goes(p, "mktemp", [arg[p] EXCEPT !.letter = letter + 1]) /\ UNCHANGED temps
           ELSE /\ Return(p, 0)
                /\ template' = [template EXCEPT ![p] = n] /\ fresh' = fresh \cup {p}
        /\ UNCHANGED <<store, kept, killed>>

MktempStat(p) ==
    LET letter == arg[p].letter
        n == TempName(p, letter)
    IN  /\ At(p, "mktemp")
        /\ CASE ~There(n) -> /\ Return(p, 0)
                             /\ template' = [template EXCEPT ![p] = n]
                             /\ fresh' = fresh \cup {p}
             [] There(n) /\ letter < LastLetter ->
                             /\ Goes(p, "mktemp", [arg[p] EXCEPT !.letter = letter + 1])
                             /\ UNCHANGED temps
             [] There(n) /\ letter = LastLetter -> Return(p, -1) /\ UNCHANGED temps
        /\ UNCHANGED <<store, kept, killed>>

------------------------------------------------------------------------------
(* Open files, and the stat that opens one *)

Opening(p, n, can, effect) ==
    /\ At(p, "main")
    /\ effect
    /\ IF can THEN Goes(p, "open", [NoLocals EXCEPT !.new = n]) ELSE Return(p, -1)
    /\ fresh' = IF n = template[p] THEN fresh \ {p} ELSE fresh
    /\ AsAsked
    /\ UNCHANGED <<template, killed>>

xceopen(p, n, disposition, write) ==
    Opening(p, n, CanOpen(n, disposition, write), XCECreateFile(n, disposition, write))
xcecreat(p, n) == xceopen(p, n, "CREATE_ALWAYS", TRUE)
Map(p, n, write) ==
    Opening(p, n, CanOpen(n, "OPEN_EXISTING", write), XCECreateFileForMapping(n, write))

xceclose(p) ==
    /\ At(p, "open") /\ Return(p, 0)
    /\ UNCHANGED <<store, temps, kept, killed>>

xcestat_old(p, n) ==
    /\ At(p, "main")
    /\ IF IsFile(n) THEN Goes(p, "reopen", [NoLocals EXCEPT !.new = n])
       ELSE Return(p, Result(There(n)))
    /\ UNCHANGED <<store, temps, kept, killed>>

\* The file may be gone since its attributes were read.
StatOpen(p) ==
    /\ At(p, "reopen") /\ Return(p, Result(CanOpen(arg[p].new, "OPEN_EXISTING", FALSE)))
    /\ UNCHANGED <<store, temps, kept, killed>>

\* A process is ended between two steps of a call; its files are closed.  One is
\* enough (a bound).
Kill(p) ==
    /\ killed = {} /\ pc[p] # "main"
    /\ killed' = killed \cup {p}
    /\ UNCHANGED <<store, pc, arg, temps, res, kept>>

------------------------------------------------------------------------------
\* The names a process uses: common ones, and the one mktemp gave it.
NamesOf(p) == Plain \cup ({template[p]} \ {None})

Simple(p) ==
    \/ \E n \in NamesOf(p) : xceunlink(p, n) \/ xceaccess(p, n)
    \/ \E n \in Plain : xcemkdir(p, n) \/ xcermdir(p, n)
    \/ \E a \in NamesOf(p), b \in Plain :
          Move(p, a, b) \/ \E fail \in BOOLEAN : Copy(p, a, b, fail)

Call(p) ==
    \/ Simple(p)
    \/ \E a \in NamesOf(p), b \in Plain : xcerename(p, a, b)
    \/ \E n \in Plain, write \in BOOLEAN : xcechmod(p, n, write)
    \/ \E tmp \in BOOLEAN : xcemktemp(p, tmp)
    \/ \E n \in NamesOf(p) :
          \/ xcecreat(p, n)
          \/ \E write \in BOOLEAN : \/ Map(p, n, write)
                                  \/ \E d \in Dispositions : xceopen(p, n, d, write)
    \/ \E n \in Plain : xcestat_old(p, n)

Step(p) ==
    \/ RenameRemove(p) \/ RenameMove(p) \/ ChmodSet(p) \/ MktempStat(p)
    \/ xceclose(p) \/ StatOpen(p)

FilesNext == \E p \in Process : Call(p) \/ Step(p) \/ Kill(p)
FilesSpec == FilesInit /\ [][FilesNext]_filesVars

------------------------------------------------------------------------------
(***************************************************************************)
(* The name of a file that nobody deleted or moved away is never empty but *)
(* between the remove and the move of a rename onto it, however many       *)
(* processes rename onto it, make it, open it or are killed.  It is empty  *)
(* for good only after a rename whose source was missing or open (the name *)
(* itself, for instance), or a kill in between.                            *)
(***************************************************************************)
RenameKeepsTarget ==
    \A n \in kept :
        There(n) \/ \E p \in Process : pc[p] = "move" /\ arg[p].removed /\ arg[p].new = n

(***************************************************************************)
(* The name mktemp gave to a process is free until this process opens it,  *)
(* although mktemp makes no file, although other processes look for names  *)
(* at the same time, and although names come back when a file is moved.    *)
(***************************************************************************)
TempNameFree == \A p \in fresh : ~There(template[p])
================================================================================
