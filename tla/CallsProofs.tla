------------------------------ MODULE CallsProofs ------------------------------
(***************************************************************************)
(* What is proved of the calls that share files with other processes, for  *)
(* any number of processes.                                                *)
(*                                                                         *)
(* rename and mktemp: a name that is to be kept is emptied only by the     *)
(* remove of a rename, which leaves its process before the move; and only  *)
(* that process's move ends this, by filling the name or by giving it up.  *)
(* A name mktemp made carries the number of its process, and a process     *)
(* makes files only under common names and under the one it was given.     *)
(*                                                                         *)
(* The user database: a lookup stands before the first entry that fits of  *)
(* those it was told to find (PassedInv), and its stream is the one that   *)
(* is open beyond those of services not found (StreamsAccounted).          *)
(*                                                                         *)
(* The log: until two processes write at once, at most one has the file    *)
(* open for a message, and stands at its end; so each of its two writes    *)
(* appends.                                                                *)
(***************************************************************************)
EXTENDS Files, UserDb, Syslog, SequenceTheorems, FiniteSetTheorems, TLAPS

------------------------------------------------------------------------------
(* rename and mktemp *)

\* What the locals of a call are known to be, by the step it is at.
PlacedAt(step, locals) ==
    /\ step \in {"remove", "move"} => locals.old \in Path /\ locals.new \in Plain
    /\ step \in {"set", "open", "reopen"} => locals.new \in Path
    /\ step = "mktemp" => locals.letter \in 1 .. LastLetter
Placed == \A p \in Process : PlacedAt(pc[p], arg[p])

\* The name a process was given is its own.
OwnNames ==
    \A p \in Process : \/ template[p] \in Temp /\ template[p].pid = xcegetpid(p)
                       \/ template[p] = None /\ p \notin fresh

IInv == FilesTypeOK /\ Placed /\ OwnNames /\ RenameKeepsTarget /\ TempNameFree

------------------------------------------------------------------------------
\* A process goes to a step with the locals that belong to it.
LEMMA Goes_ ==
    ASSUME FilesTypeOK, Placed,
           NEW p \in Process, NEW step \in Steps, NEW locals \in Locals,
           Goto(p, step, locals), PlacedAt(step, locals)
    PROVE  /\ pc' \in [Process -> Steps] /\ arg' \in [Process -> Locals]
           /\ Placed'
           /\ pc'[p] = step /\ arg'[p] = locals
           /\ \A q \in Process \ {p} : pc'[q] = pc[q] /\ arg'[q] = arg[q]
<1>1. /\ pc' = [pc EXCEPT ![p] = step] /\ arg' = [arg EXCEPT ![p] = locals]
      /\ pc \in [Process -> Steps] /\ arg \in [Process -> Locals]
    BY DEF Goto, FilesTypeOK
<1>2. /\ pc' \in [Process -> Steps] /\ arg' \in [Process -> Locals]
      /\ pc'[p] = step /\ arg'[p] = locals
      /\ \A q \in Process \ {p} : pc'[q] = pc[q] /\ arg'[q] = arg[q]
    BY <1>1
<1>3. ASSUME NEW q \in Process PROVE PlacedAt(pc'[q], arg'[q])
    <2>1. CASE q = p BY <2>1, <1>2
    <2>2. CASE q # p BY <2>2, <1>2 DEF Placed
    <2> QED BY <2>1, <2>2
<1> QED BY <1>2, <1>3 DEF Placed, PlacedAt

\* A call that returns leaves no locals.
LEMMA Back ==
    ASSUME FilesTypeOK, Placed, NEW p \in Process, NEW value \in {0, -1}, Return(p, value)
    PROVE  /\ pc' \in [Process -> Steps] /\ arg' \in [Process -> Locals]
           /\ Placed' /\ res' \in [Process -> {0, -1}]
           /\ pc'[p] = "main"
           /\ \A q \in Process \ {p} : pc'[q] = pc[q] /\ arg'[q] = arg[q]
<1>1. NoLocals \in Locals
    BY LetterAssumption DEF NoLocals, Locals
<1>2. "main" \in Steps /\ PlacedAt("main", NoLocals) /\ Goto(p, "main", NoLocals)
    BY DEF Steps, PlacedAt, Return
<1>3. res' \in [Process -> {0, -1}]
    BY DEF Return, FilesTypeOK
<1> QED BY <1>1, <1>2, <1>3, Goes_

\* Processes that are not at the move of a rename leave a name either there or asked
\* to be lost.
LEMMA KeptAsAsked ==
    ASSUME FilesTypeOK, RenameKeepsTarget, NEW p \in Process, pc[p] # "move", AsAsked,
           \A q \in Process \ {p} : pc'[q] = pc[q] /\ arg'[q] = arg[q]
    PROVE  RenameKeepsTarget' /\ kept' \subseteq Path
<1>1. kept' \subseteq Path
    BY DEF AsAsked, FilesTypeOK
<1>2. ASSUME NEW n \in kept', store'[n] = None
      PROVE  \E q \in Process : pc'[q] = "move" /\ arg'[q].removed /\ arg'[q].new = n
    <2>1. n \in kept /\ store[n] = None
        BY <1>2 DEF AsAsked, FilesTypeOK, There
    <2>2. PICK q \in Process : pc[q] = "move" /\ arg[q].removed /\ arg[q].new = n
        BY <2>1 DEF RenameKeepsTarget, There
    <2>3. q # p
        BY <2>2
    <2> QED BY <2>2, <2>3
<1> QED BY <1>1, <1>2 DEF RenameKeepsTarget, There

LEMMA KeptUntouched ==
    ASSUME FilesTypeOK, RenameKeepsTarget, NEW p \in Process, pc[p] # "move", kept' = kept,
           \A n \in Path : store[n] # None => store'[n] # None,
           \A q \in Process \ {p} : pc'[q] = pc[q] /\ arg'[q] = arg[q]
    PROVE  RenameKeepsTarget'
<1>1. ASSUME NEW n \in kept', store'[n] = None
      PROVE  \E q \in Process : pc'[q] = "move" /\ arg'[q].removed /\ arg'[q].new = n
    <2>1. n \in kept /\ store[n] = None
        BY <1>1 DEF FilesTypeOK
    <2>2. PICK q \in Process : pc[q] = "move" /\ arg[q].removed /\ arg[q].new = n
        BY <2>1 DEF RenameKeepsTarget, There
    <2>3. q # p
        BY <2>2
    <2> QED BY <2>2, <2>3
<1> QED BY <1>1 DEF RenameKeepsTarget, There

\* A name mktemp gave stays free while nobody but its process makes it.
LEMMA FreeStays ==
    ASSUME OwnNames, TempNameFree, FilesTypeOK, UNCHANGED template, fresh' \subseteq fresh,
           \A n \in Temp : store'[n] # None =>
              There(n) \/ \E p \in Process \ fresh' : n = template[p] /\ n # None
    PROVE  OwnNames' /\ TempNameFree'
<1>1. OwnNames'
    BY DEF OwnNames, xcegetpid
<1>2. ASSUME NEW q \in fresh' PROVE store'[template'[q]] = None
    <2>1. q \in Process /\ q \in fresh /\ template'[q] = template[q]
        BY <1>2 DEF FilesTypeOK
    <2>2. template[q] \in Temp /\ template[q].pid = xcegetpid(q)
        BY <2>1 DEF OwnNames
    <2>3. ~There(template[q])
        BY <2>1 DEF TempNameFree
    <2>4. ASSUME NEW p \in Process \ fresh', template[q] = template[p], template[p] # None
          PROVE  FALSE
        <3>1. template[p].pid = xcegetpid(p)
            BY <2>4 DEF OwnNames
        <3>2. p = q
            BY <2>1, <2>2, <2>4, <3>1, PidAssumption DEF xcegetpid
        <3> QED BY <3>2, <2>4, <1>2
    <2> QED BY <2>1, <2>2, <2>3, <2>4 DEF There
<1> QED BY <1>1, <1>2 DEF TempNameFree, There

LEMMA FreeUntouched ==
    ASSUME OwnNames, TempNameFree, FilesTypeOK, UNCHANGED temps,
           \A n \in Temp : store'[n] # None => There(n)
    PROVE  OwnNames' /\ TempNameFree'
  BY FreeStays DEF temps

\* Common names are not mktemp's.
LEMMA Apart == Plain \cap Temp = {} /\ Plain \subseteq Path /\ Temp \subseteq Path
  BY NamesAssumption DEF Temp, Path, xcegetpid

------------------------------------------------------------------------------
(* What one call of the system does to the names *)

LEMMA Deletes ==
    ASSUME FilesTypeOK, NEW n \in Path, XCEDeleteFile(n)
    PROVE  /\ store' \in [Path -> File \cup {None}]
           /\ \A m \in Path : store'[m] # None => There(m)
           /\ \A m \in Path \ {n} : store'[m] = store[m]
           /\ ~CanDelete(n) => store' = store
  BY DEF FilesTypeOK, XCEDeleteFile, System, There

LEMMA Moves ==
    ASSUME FilesTypeOK, NEW a \in Path, NEW b \in Path, XCEMoveFile(a, b)
    PROVE  /\ store' \in [Path -> File \cup {None}]
           /\ \A m \in Path \ {b} : store'[m] # None => There(m)
           /\ IF CanMove(a, b) THEN store'[b] # None ELSE store' = store
  BY DEF FilesTypeOK, XCEMoveFile, System, There, CanMove

LEMMA Copies ==
    ASSUME FilesTypeOK, NEW a \in Path, NEW b \in Path, NEW fail, XCECopyFile(a, b, fail)
    PROVE  /\ store' \in [Path -> File \cup {None}]
           /\ \A m \in Path \ {b} : store'[m] # None => There(m)
  BY DEF FilesTypeOK, XCECopyFile, System, There

LEMMA Directories ==
    ASSUME FilesTypeOK, NEW n \in Path, XCECreateDirectory(n) \/ XCERemoveDirectory(n)
    PROVE  /\ store' \in [Path -> File \cup {None}]
           /\ \A m \in Path \ {n} : store'[m] # None => There(m)
<1>1. NewDir \in File
    BY DEF NewDir, File
<1> QED BY <1>1 DEF FilesTypeOK, XCECreateDirectory, XCERemoveDirectory, System, There

LEMMA Creates ==
    ASSUME FilesTypeOK, NEW n \in Path, NEW disposition, NEW write, XCECreateFile(n, disposition, write)
    PROVE  /\ store' \in [Path -> File \cup {None}]
           /\ \A m \in Path \ {n} : store'[m] # None => There(m)
<1>1. NewFile \in File
    BY DEF NewFile, File
<1> QED BY <1>1 DEF FilesTypeOK, XCECreateFile, System, There

LEMMA SetsAttributes ==
    ASSUME FilesTypeOK, NEW n \in Path, NEW attr \in SUBSET Attributes,
           XCESetFileAttributes(n, attr)
    PROVE  /\ store' \in [Path -> File \cup {None}]
           /\ \A m \in Path : store'[m] # None <=> There(m)
<1>1. CASE ~There(n)
    BY <1>1 DEF FilesTypeOK, XCESetFileAttributes, System, There
<1>2. CASE There(n)
    <2>1. store[n] \in File /\ None \notin File
        BY <1>2, FileAssumption DEF FilesTypeOK, There, File
    <2>2. [store[n] EXCEPT !.attr = attr] \in File
        BY <2>1 DEF File
    <2>3. store' = [store EXCEPT ![n] = [store[n] EXCEPT !.attr = attr]]
        BY <1>2 DEF XCESetFileAttributes, System
    <2> QED BY <2>1, <2>2, <2>3 DEF FilesTypeOK, There
<1> QED BY <1>1, <1>2

------------------------------------------------------------------------------
(* The actions *)

\* A call that is one call of the system.
LEMMA Simple_ ==
    ASSUME IInv, NEW p \in Process, NEW value \in {0, -1},
           At(p, "main"), Return(p, value), AsAsked, UNCHANGED <<temps, killed>>,
           store' \in [Path -> File \cup {None}],
           \A n \in Temp : store'[n] # None => There(n)
    PROVE  IInv'
<1>1. pc[p] # "move"
    BY DEF At
<1>2. RenameKeepsTarget' /\ kept' \subseteq Path
    BY <1>1, Back, KeptAsAsked DEF IInv
<1>3. OwnNames' /\ TempNameFree'
    BY FreeUntouched DEF IInv
<1>4. FilesTypeOK' /\ Placed'
    BY <1>2, Back DEF IInv, FilesTypeOK, temps
<1> QED BY <1>2, <1>3, <1>4 DEF IInv

\* A step that changes no name.
LEMMA Still ==
    ASSUME IInv, NEW p \in Process, pc[p] # "move",
           UNCHANGED <<temps, kept, killed>>,
           store' \in [Path -> File \cup {None}],
           \A n \in Path : store'[n] # None <=> There(n),
           \/ \E value \in {0, -1} : Return(p, value)
           \/ \E step \in Steps, locals \in Locals :
                 Goes(p, step, locals) /\ PlacedAt(step, locals)
    PROVE  IInv'
<1>1. /\ pc' \in [Process -> Steps] /\ arg' \in [Process -> Locals] /\ Placed'
      /\ res' \in [Process -> {0, -1}]
      /\ \A q \in Process \ {p} : pc'[q] = pc[q] /\ arg'[q] = arg[q]
    BY Back, Goes_ DEF IInv, Goes, FilesTypeOK
<1>2. RenameKeepsTarget'
    BY <1>1, KeptUntouched DEF IInv, There
<1>3. OwnNames' /\ TempNameFree'
    BY FreeUntouched, Apart DEF IInv
<1>4. FilesTypeOK'
    BY <1>1 DEF IInv, FilesTypeOK, temps
<1> QED BY <1>1, <1>2, <1>3, <1>4 DEF IInv

\* The locals calls begin with.
LEMMA NamedLocals ==
    ASSUME NEW n \in Path, NEW step \in {"open", "reopen"}
    PROVE  /\ [NoLocals EXCEPT !.new = n] \in Locals
           /\ step \in Steps /\ PlacedAt(step, [NoLocals EXCEPT !.new = n])
<1>1. NoLocals \in Locals
    BY LetterAssumption DEF NoLocals, Locals
<1>2. [NoLocals EXCEPT !.new = n] \in Locals /\ [NoLocals EXCEPT !.new = n].new = n
    BY <1>1 DEF Locals
<1> QED BY <1>2 DEF PlacedAt, Steps

LEMMA LetterLocals ==
    /\ [NoLocals EXCEPT !.letter = 1] \in Locals
    /\ "mktemp" \in Steps /\ PlacedAt("mktemp", [NoLocals EXCEPT !.letter = 1])
<1>1. NoLocals \in Locals
    BY LetterAssumption DEF NoLocals, Locals
<1>2. /\ [NoLocals EXCEPT !.letter = 1] \in Locals
      /\ [NoLocals EXCEPT !.letter = 1].letter = 1
    BY <1>1, LetterAssumption DEF Locals
<1> QED BY <1>2, LetterAssumption DEF PlacedAt, Steps

LEMMA Names_ ==
    ASSUME IInv, NEW p \in Process
    PROVE  NamesOf(p) \subseteq Path /\ \A n \in NamesOf(p) \ Plain : n = template[p] /\ n # None
  BY Apart DEF IInv, FilesTypeOK, NamesOf

LEMMA SimpleSteps == ASSUME IInv, NEW p \in Process, Simple(p) PROVE IInv'
<1> USE Apart, Names_
<1>1. ASSUME NEW n \in NamesOf(p), xceunlink(p, n) PROVE IInv'
    <2>1. /\ store' \in [Path -> File \cup {None}]
          /\ \A m \in Temp : store'[m] # None => There(m)
        BY <1>1, Deletes DEF xceunlink, Simply, IInv
    <2> QED BY <1>1, <2>1, Simple_ DEF xceunlink, Simply, Result
<1>2. ASSUME NEW n \in NamesOf(p), xceaccess(p, n) PROVE IInv'
    <2>1. /\ store' \in [Path -> File \cup {None}]
          /\ \A m \in Temp : store'[m] # None => There(m)
        BY <1>2 DEF xceaccess, Simply, IInv, FilesTypeOK, There
    <2> QED BY <1>2, <2>1, Simple_ DEF xceaccess, Simply, Result
<1>3. ASSUME NEW n \in Plain, xcemkdir(p, n) \/ xcermdir(p, n) PROVE IInv'
    <2>1. /\ store' \in [Path -> File \cup {None}]
          /\ \A m \in Temp : store'[m] # None => There(m)
        BY <1>3, Directories DEF xcemkdir, xcermdir, Simply, IInv
    <2> QED BY <1>3, <2>1, Simple_ DEF xcemkdir, xcermdir, Simply, Result
<1>4. ASSUME NEW a \in NamesOf(p), NEW b \in Plain, Move(p, a, b) PROVE IInv'
    <2>1. /\ store' \in [Path -> File \cup {None}]
          /\ \A m \in Temp : store'[m] # None => There(m)
        BY <1>4, Moves DEF Move, Simply, IInv
    <2> QED BY <1>4, <2>1, Simple_ DEF Move, Simply, Result
<1>5. ASSUME NEW a \in NamesOf(p), NEW b \in Plain, NEW fail \in BOOLEAN, Copy(p, a, b, fail)
      PROVE  IInv'
    <2>1. /\ store' \in [Path -> File \cup {None}]
          /\ \A m \in Temp : store'[m] # None => There(m)
        BY <1>5, Copies DEF Copy, Simply, IInv
    <2> QED BY <1>5, <2>1, Simple_ DEF Copy, Simply, Result
<1> QED BY <1>1, <1>2, <1>3, <1>4, <1>5 DEF Simple

\* The beginnings of calls, and the steps of rename but its last.
LEMMA Beginnings ==
    ASSUME IInv, NEW p \in Process,
           \/ \E a \in NamesOf(p), b \in Plain : xcerename(p, a, b)
           \/ \E n \in Plain, write \in BOOLEAN : xcechmod(p, n, write)
           \/ \E tmp \in BOOLEAN : xcemktemp(p, tmp)
           \/ \E n \in Plain : xcestat_old(p, n)
           \/ ChmodSet(p) \/ xceclose(p) \/ StatOpen(p)
    PROVE  IInv'
<1> USE Apart, Names_
<1>0. FilesTypeOK /\ Placed /\ NoLocals \in Locals
    BY LetterAssumption DEF IInv, NoLocals, Locals
<1>1. ASSUME NEW a \in NamesOf(p), NEW b \in Plain, xcerename(p, a, b) PROVE IInv'
    <2>1. Renaming(a, b, FALSE) \in Locals
        BY <1>0 DEF Renaming, NoLocals, Locals
    <2>2. \A step \in {"remove", "move"} : step \in Steps /\ PlacedAt(step, Renaming(a, b, FALSE))
        BY DEF PlacedAt, Renaming, NoLocals, Steps
    <2> QED BY <1>0, <1>1, <2>1, <2>2, Still DEF xcerename, At, FilesTypeOK, There
<1>2. ASSUME NEW n \in Plain, NEW write \in BOOLEAN, xcechmod(p, n, write) PROVE IInv'
    <2>1. CASE XCEGetFileAttributes(n) = None
        BY <1>0, <1>2, <2>1, Still DEF xcechmod, At, FilesTypeOK, There
    <2>2. CASE XCEGetFileAttributes(n) # None
        <3>1. XCEGetFileAttributes(n) \in SUBSET Attributes
            BY <1>0, <2>2 DEF XCEGetFileAttributes, FilesTypeOK, There, File
        <3>2. PICK attr \in SUBSET Attributes : Goes(p, "set", Chmod(n, attr))
            BY <1>2, <2>2, <3>1, PlainAssumption DEF xcechmod
        <3>3. Chmod(n, attr) \in Locals /\ "set" \in Steps /\ PlacedAt("set", Chmod(n, attr))
            BY <1>0 DEF Chmod, NoLocals, Locals, PlacedAt, Steps
        <3> QED BY <1>0, <1>2, <3>2, <3>3, Still DEF xcechmod, At, FilesTypeOK, There
    <2> QED BY <2>1, <2>2
<1>3. ASSUME NEW tmp \in BOOLEAN, xcemktemp(p, tmp) PROVE IInv'
    <2> DEFINE first == [NoLocals EXCEPT !.letter = 1]
    <2>1. first \in Locals /\ "mktemp" \in Steps /\ PlacedAt("mktemp", first)
        BY LetterLocals
    <2>2. /\ pc[p] # "move" /\ UNCHANGED <<temps, kept, killed>> /\ store' = store
          /\ Goes(p, "mktemp", first) \/ Return(p, -1)
        BY <1>3 DEF xcemktemp, At
    <2> HIDE DEF first
    <2> QED BY <1>0, <2>1, <2>2, Still DEF FilesTypeOK, There
<1>4. ASSUME NEW n \in Plain, xcestat_old(p, n) PROVE IInv'
    <2> DEFINE named == [NoLocals EXCEPT !.new = n]
    <2>1. named \in Locals /\ "reopen" \in Steps /\ PlacedAt("reopen", named)
        BY NamedLocals
    <2>2. /\ pc[p] # "move" /\ UNCHANGED <<temps, kept, killed>> /\ store' = store
          /\ Goes(p, "reopen", named) \/ \E value \in {0, -1} : Return(p, value)
        BY <1>4 DEF xcestat_old, At, Result
    <2> HIDE DEF named
    <2> QED BY <1>0, <2>1, <2>2, Still DEF FilesTypeOK, There
<1>5. CASE ChmodSet(p)
    <2>1. arg[p].new \in Path /\ arg[p].attr \in SUBSET Attributes
        BY <1>0, <1>5 DEF ChmodSet, At, Placed, PlacedAt, FilesTypeOK, Locals
    <2>2. /\ store' \in [Path -> File \cup {None}]
          /\ \A m \in Path : store'[m] # None <=> There(m)
        BY <1>0, <1>5, <2>1, SetsAttributes DEF ChmodSet
    <2> QED BY <1>5, <2>2, Still DEF ChmodSet, At, Result
<1>6. CASE xceclose(p) \/ StatOpen(p)
    BY <1>0, <1>6, Still DEF xceclose, StatOpen, At, FilesTypeOK, There, Result
<1> QED BY <1>1, <1>2, <1>3, <1>4, <1>5, <1>6

\* The steps that look at one name after the other, open one, or replace one.
LEMMA MktempSteps == ASSUME IInv, NEW p \in Process, MktempStat(p) PROVE IInv'
<1> DEFINE letter == arg[p].letter
           n == TempName(p, letter)
           next == [arg[p] EXCEPT !.letter = letter + 1]
<1>0. FilesTypeOK /\ Placed
    BY DEF IInv
<1>1. letter \in 1 .. LastLetter /\ n \in Temp /\ n.pid = xcegetpid(p)
    BY <1>0 DEF MktempStat, At, Placed, PlacedAt, TempName, Temp
<1>2. CASE There(n) /\ letter < LastLetter
    <2>1. next \in Locals /\ "mktemp" \in Steps /\ PlacedAt("mktemp", next)
        <3>1. arg[p] \in Locals /\ letter + 1 \in 1 .. LastLetter
            BY <1>0, <1>1, <1>2, LetterAssumption DEF FilesTypeOK
        <3>2. next \in Locals /\ next.letter = letter + 1
            BY <3>1 DEF Locals
        <3> QED BY <3>1, <3>2 DEF PlacedAt, Steps
    <2>2. letter # LastLetter
        BY <1>1, <1>2, LetterAssumption
    <2>3. Goes(p, "mktemp", next) /\ pc[p] # "move" /\ UNCHANGED <<store, temps, kept, killed>>
        BY <1>2, <2>2, Zenon DEF MktempStat, At
    <2> HIDE DEF next
    <2> QED BY <1>0, <2>1, <2>3, Still DEF FilesTypeOK, There
<1>3. CASE There(n) /\ letter = LastLetter
    <2>1. Return(p, -1) /\ pc[p] # "move" /\ UNCHANGED <<store, temps, kept, killed>>
        BY <1>1, <1>3, LetterAssumption DEF MktempStat, At
    <2> QED BY <1>0, <2>1, Still DEF FilesTypeOK, There
<1>4. CASE ~There(n)
    <2>1. /\ Return(p, 0) /\ pc[p] # "move" /\ UNCHANGED <<store, kept, killed>>
          /\ template' = [template EXCEPT ![p] = n] /\ fresh' = fresh \cup {p}
        BY <1>1, <1>4, LetterAssumption DEF MktempStat, At
    <2>2. /\ pc' \in [Process -> Steps] /\ arg' \in [Process -> Locals] /\ Placed'
          /\ res' \in [Process -> {0, -1}]
          /\ \A q \in Process \ {p} : pc'[q] = pc[q] /\ arg'[q] = arg[q]
        BY <1>0, <2>1, Back
    <2>3. RenameKeepsTarget'
        BY <1>0, <2>1, <2>2, KeptUntouched DEF IInv
    <2> HIDE DEF n
    <2>4. OwnNames'
        BY <1>0, <1>1, <2>1 DEF IInv, OwnNames, FilesTypeOK, xcegetpid
    <2>5. TempNameFree'
        BY <1>0, <1>4, <2>1 DEF IInv, TempNameFree, FilesTypeOK, There
    <2>6. FilesTypeOK'
        BY <1>0, <1>1, <2>1, <2>2 DEF FilesTypeOK
    <2> QED BY <2>2, <2>3, <2>4, <2>5, <2>6 DEF IInv
<1> QED BY <1>1, <1>2, <1>3, <1>4, LetterAssumption

LEMMA OpeningSteps ==
    ASSUME IInv, NEW p \in Process, NEW n \in NamesOf(p), NEW can,
           NEW disposition, NEW write, Opening(p, n, can, XCECreateFile(n, disposition, write))
    PROVE  IInv'
<1> USE Apart, Names_
<1>0. FilesTypeOK /\ Placed /\ n \in Path
    BY DEF IInv
<1> DEFINE named == [NoLocals EXCEPT !.new = n]
<1>1. named \in Locals /\ "open" \in Steps /\ PlacedAt("open", named)
    BY <1>0, NamedLocals
<1>2. /\ pc[p] # "move" /\ XCECreateFile(n, disposition, write) /\ AsAsked
      /\ UNCHANGED <<template, killed>>
      /\ fresh' = IF n = template[p] THEN fresh \ {p} ELSE fresh
      /\ Goes(p, "open", named) \/ Return(p, -1)
    BY DEF Opening, At
<1> HIDE DEF named
<1>3. /\ pc' \in [Process -> Steps] /\ arg' \in [Process -> Locals] /\ Placed'
      /\ res' \in [Process -> {0, -1}]
      /\ \A q \in Process \ {p} : pc'[q] = pc[q] /\ arg'[q] = arg[q]
    BY <1>0, <1>1, <1>2, Back, Goes_ DEF Goes, FilesTypeOK
<1>4. /\ store' \in [Path -> File \cup {None}]
      /\ \A m \in Path \ {n} : store'[m] # None => There(m)
    BY <1>0, <1>2, Creates
<1>5. RenameKeepsTarget' /\ kept' \subseteq Path
    BY <1>0, <1>2, <1>3, KeptAsAsked DEF IInv
<1>6. ASSUME NEW m \in Temp, store'[m] # None
      PROVE  There(m) \/ \E q \in Process \ fresh' : m = template[q] /\ m # None
    <2>1. CASE m = n
        BY <2>1, <1>2
    <2>2. CASE m # n
        BY <2>2, <1>4, <1>6
    <2> QED BY <2>1, <2>2
<1>7. OwnNames' /\ TempNameFree'
    BY <1>0, <1>2, <1>6, FreeStays DEF IInv
<1>8. FilesTypeOK'
    BY <1>0, <1>2, <1>3, <1>4, <1>5 DEF FilesTypeOK
<1> QED BY <1>3, <1>5, <1>7, <1>8 DEF IInv

\* rename empties a name that is to be kept, and is then at its move to this name.
LEMMA RemoveStep == ASSUME IInv, NEW p \in Process, RenameRemove(p) PROVE IInv'
<1> USE Apart
<1> DEFINE a == arg[p].old
           b == arg[p].new
           removed == Renaming(a, b, TRUE)
<1>0. FilesTypeOK /\ Placed
    BY DEF IInv
<1>1. a \in Path /\ b \in Plain /\ pc[p] = "remove"
    BY <1>0 DEF RenameRemove, At, Placed, PlacedAt
<1>2. /\ removed \in Locals /\ removed.removed /\ removed.new = b
      /\ "move" \in Steps /\ PlacedAt("move", removed)
    <2>1. NoLocals \in Locals
        BY LetterAssumption DEF NoLocals, Locals
    <2> QED BY <1>1, <2>1 DEF Renaming, Locals, PlacedAt, Steps
<1>3. /\ XCEDeleteFile(b) /\ UNCHANGED <<temps, kept, killed>>
      /\ IF CanDelete(b) THEN Goes(p, "move", removed) ELSE Return(p, -1)
    BY DEF RenameRemove, xceremove
<1>4. /\ store' \in [Path -> File \cup {None}]
      /\ \A m \in Path : store'[m] # None => There(m)
      /\ \A m \in Path \ {b} : store'[m] = store[m]
      /\ ~CanDelete(b) => store' = store
    BY <1>0, <1>1, <1>3, Deletes
<1> HIDE DEF a, b, removed
<1>5. /\ pc' \in [Process -> Steps] /\ arg' \in [Process -> Locals] /\ Placed'
      /\ res' \in [Process -> {0, -1}]
      /\ \A q \in Process \ {p} : pc'[q] = pc[q] /\ arg'[q] = arg[q]
      /\ CanDelete(b) => pc'[p] = "move" /\ arg'[p] = removed
    BY <1>0, <1>2, <1>3, Back, Goes_ DEF Goes, FilesTypeOK
<1>6. RenameKeepsTarget'
    <2>1. CASE ~CanDelete(b)
        BY <2>1, <1>0, <1>1, <1>3, <1>4, <1>5, KeptUntouched DEF IInv
    <2>2. CASE CanDelete(b)
        <3>1. ASSUME NEW n \in kept', store'[n] = None
              PROVE  \E q \in Process : pc'[q] = "move" /\ arg'[q].removed /\ arg'[q].new = n
            <4>1. CASE n = b
                BY <2>2, <4>1, <1>2, <1>5
            <4>2. CASE n # b
                <5>1. n \in kept /\ store[n] = None
                    BY <4>2, <3>1, <1>0, <1>3, <1>4 DEF FilesTypeOK
                <5>2. PICK q \in Process : pc[q] = "move" /\ arg[q].removed /\ arg[q].new = n
                    BY <5>1 DEF IInv, RenameKeepsTarget, There
                <5>3. q # p
                    BY <5>2, <1>1
                <5> QED BY <5>2, <5>3, <1>5
            <4> QED BY <4>1, <4>2
        <3> QED BY <3>1 DEF RenameKeepsTarget, There
    <2> QED BY <2>1, <2>2
<1>7. OwnNames' /\ TempNameFree'
    BY <1>3, <1>4, FreeUntouched DEF IInv
<1>8. FilesTypeOK'
    BY <1>0, <1>3, <1>4, <1>5 DEF FilesTypeOK, temps
<1> QED BY <1>5, <1>6, <1>7, <1>8 DEF IInv

\* The move fills the name or gives it up.
LEMMA MoveStep == ASSUME IInv, NEW p \in Process, RenameMove(p) PROVE IInv'
<1> USE Apart
<1> DEFINE a == arg[p].old
           b == arg[p].new
<1>0. FilesTypeOK /\ Placed
    BY DEF IInv
<1>1. a \in Path /\ b \in Plain /\ pc[p] = "move"
    BY <1>0 DEF RenameMove, At, Placed, PlacedAt
<1>2. /\ XCEMoveFile(a, b) /\ UNCHANGED <<temps, killed>>
      /\ \E value \in {0, -1} : Return(p, value)
      /\ IF There(a) /\ ~IsOpen(a) THEN AsAsked ELSE kept' = kept \ {b}
    BY DEF RenameMove, Result
<1>3. /\ store' \in [Path -> File \cup {None}]
      /\ \A m \in Path \ {b} : store'[m] # None => There(m)
      /\ IF CanMove(a, b) THEN store'[b] # None ELSE store' = store
    BY <1>0, <1>1, <1>2, Moves
<1>4. /\ pc' \in [Process -> Steps] /\ arg' \in [Process -> Locals] /\ Placed'
      /\ res' \in [Process -> {0, -1}]
      /\ \A q \in Process \ {p} : pc'[q] = pc[q] /\ arg'[q] = arg[q]
    BY <1>0, <1>2, Back
<1>5. kept' \subseteq Path
    BY <1>0, <1>2 DEF AsAsked, FilesTypeOK
<1>6. ASSUME NEW n \in kept', store'[n] = None
      PROVE  \E q \in Process : pc'[q] = "move" /\ arg'[q].removed /\ arg'[q].new = n
    <2>1. n \in kept /\ store[n] = None
        <3>1. CASE There(a) /\ ~IsOpen(a)
            BY <3>1, <1>0, <1>2, <1>6 DEF AsAsked, FilesTypeOK, There
        <3>2. CASE ~(There(a) /\ ~IsOpen(a))
            BY <3>2, <1>2, <1>3, <1>6 DEF CanMove
        <3> QED BY <3>1, <3>2
    <2>2. PICK q \in Process : pc[q] = "move" /\ arg[q].removed /\ arg[q].new = n
        BY <2>1 DEF IInv, RenameKeepsTarget, There
    <2>3. n # b
        <3>1. CASE There(a) /\ ~IsOpen(a)
            BY <3>1, <2>1, <1>3, <1>6 DEF CanMove, There
        <3>2. CASE ~(There(a) /\ ~IsOpen(a))
            BY <3>2, <1>2, <1>6
        <3> QED BY <3>1, <3>2
    <2>4. q # p
        BY <2>2, <2>3
    <2> QED BY <2>2, <2>4, <1>4
<1>7. RenameKeepsTarget'
    BY <1>6 DEF RenameKeepsTarget, There
<1>8. OwnNames' /\ TempNameFree'
    BY <1>1, <1>2, <1>3, FreeUntouched DEF IInv
<1>9. FilesTypeOK'
    BY <1>0, <1>2, <1>3, <1>4, <1>5 DEF FilesTypeOK, temps
<1> QED BY <1>4, <1>7, <1>8, <1>9 DEF IInv

LEMMA KillStep == ASSUME IInv, NEW p \in Process, Kill(p) PROVE IInv'
<1>1. UNCHANGED <<store, pc, arg, template, fresh, res, kept>> /\ killed' \subseteq Process
    BY DEF Kill, temps, IInv, FilesTypeOK
<1> QED BY <1>1 DEF IInv, FilesTypeOK, Placed, PlacedAt, OwnNames, RenameKeepsTarget,
                     TempNameFree, There, xcegetpid

------------------------------------------------------------------------------
LEMMA Start == FilesInit => IInv
<1> SUFFICES ASSUME FilesInit PROVE IInv
    OBVIOUS
<1>1. NoLocals \in Locals /\ NewFile \in File /\ "main" \in Steps /\ PlacedAt("main", NoLocals)
    BY LetterAssumption DEF NoLocals, Locals, NewFile, File, Steps, PlacedAt
<1>2. FilesTypeOK
    BY <1>1 DEF FilesInit, FilesTypeOK
<1>3. Placed /\ OwnNames /\ RenameKeepsTarget /\ TempNameFree
    BY <1>1 DEF FilesInit, Placed, OwnNames, RenameKeepsTarget, TempNameFree, There
<1> QED BY <1>2, <1>3 DEF IInv

LEMMA Inductive == IInv /\ [FilesNext]_filesVars => IInv'
<1> SUFFICES ASSUME IInv, [FilesNext]_filesVars PROVE IInv'
    OBVIOUS
<1>1. ASSUME NEW p \in Process, Call(p) PROVE IInv'
    <2>1. CASE Simple(p)
        BY <2>1, SimpleSteps
    <2>2. ASSUME NEW n \in NamesOf(p), xcecreat(p, n) PROVE IInv'
        BY <2>2, OpeningSteps DEF xcecreat, xceopen
    <2>3. ASSUME NEW n \in NamesOf(p), NEW write \in BOOLEAN, Map(p, n, write) PROVE IInv'
        BY <2>3, OpeningSteps DEF Map, XCECreateFileForMapping
    <2>4. ASSUME NEW n \in NamesOf(p), NEW d \in Dispositions, NEW write \in BOOLEAN,
                 xceopen(p, n, d, write)
          PROVE  IInv'
        BY <2>4, OpeningSteps DEF xceopen
    <2> QED BY <1>1, <2>1, <2>2, <2>3, <2>4, Beginnings DEF Call
<1>2. ASSUME NEW p \in Process, Step(p) PROVE IInv'
    BY <1>2, RemoveStep, MoveStep, MktempSteps, Beginnings DEF Step
<1>3. ASSUME NEW p \in Process, Kill(p) PROVE IInv'
    BY <1>3, KillStep
<1>4. CASE UNCHANGED filesVars
    BY <1>4 DEF filesVars, IInv, FilesTypeOK, Placed, PlacedAt, OwnNames, RenameKeepsTarget,
                TempNameFree, There, xcegetpid
<1> QED BY <1>1, <1>2, <1>3, <1>4 DEF FilesNext

(***************************************************************************)
(* The type invariant of the file calls.                                   *)
(***************************************************************************)
THEOREM TypeCorrect == FilesSpec => []FilesTypeOK
<1>1. IInv => FilesTypeOK
    BY DEF IInv
<1> QED BY <1>1, Start, Inductive, PTL DEF FilesSpec

(***************************************************************************)
(* rename (cestdlib.c:139), for any number of processes: the name of a     *)
(* file that nobody asked to lose is there, or a rename onto it is between *)
(* its remove and its move.                                                *)
(***************************************************************************)
THEOREM RenameKeepsItsTarget == FilesSpec => []RenameKeepsTarget
<1>1. IInv => RenameKeepsTarget
    BY DEF IInv
<1> QED BY <1>1, Start, Inductive, PTL DEF FilesSpec

(***************************************************************************)
(* mktemp (cestdlib.c:243), for any number of processes and of letters: a  *)
(* name it gave is free until the process it was given to opens it.        *)
(***************************************************************************)
THEOREM TempNamesStayFree == FilesSpec => []TempNameFree
<1>1. IInv => TempNameFree
    BY DEF IInv
<1> QED BY <1>1, Start, Inductive, PTL DEF FilesSpec

------------------------------------------------------------------------------
(* The user database *)

\* The file is there for who has it open, and a line half written is its last one.
FileInv ==
    /\ half => passwd # Null /\ Len(passwd) > 0
    /\ passwd # Null => Len(passwd) <= MaxLines
    /\ fpw # Null => passwd # Null

\* What getuid returned to ~ is a number of the file, or none.
TildeInv == last.call = "tilde_uid" => last.result = Null \/ last.result.uid \in Uids

\* Streams that were opened for a lookup or by setpwent are open until they end.
InUse == (holding \/ scan # Null) /\ fpw # Null
OrderInv ==
    orderly => /\ scan # Null \/ last.call = "tilde_uid" => ~holding
               /\ InUse => stream[fpw] # Null

\* A lookup has passed no entry that fits and no line that cannot be read.
PassedInv ==
    orderly /\ scan # Null /\ fpw # Null =>
        /\ scan.known <= Complete /\ stream[fpw] \in 0 .. Len(passwd)
        /\ \A j \in 1 .. stream[fpw] : passwd[j] # Unreadable /\ ~Fits(scan.key, passwd[j])

UsersInv == UsersTypeOK /\ FileInv /\ TildeInv /\ OrderInv /\ PassedInv /\ StreamsAccounted

\* The streams that are open in a table of streams.
OpenIn(st) == {s \in Streams : st[s] # Null}

------------------------------------------------------------------------------
\* fopen and fclose change the number of open streams by one.
LEMMA OpenCount ==
    ASSUME NEW st \in [Streams -> Nat \cup {Null}], NEW s \in Streams
    PROVE  /\ Cardinality(OpenIn(st)) \in Nat
           /\ st[s] = Null =>
                 Cardinality(OpenIn([st EXCEPT ![s] = 0])) = Cardinality(OpenIn(st)) + 1
           /\ st[s] # Null =>
                 Cardinality(OpenIn([st EXCEPT ![s] = Null])) = Cardinality(OpenIn(st)) - 1
  <1>1. IsFiniteSet(OpenIn(st)) /\ OpenIn(st) \subseteq Streams
    BY BoundsAssumption, FS_Subset DEF OpenIn
  <1>2. ASSUME st[s] = Null
        PROVE  Cardinality(OpenIn([st EXCEPT ![s] = 0])) = Cardinality(OpenIn(st)) + 1
    <2>1. OpenIn([st EXCEPT ![s] = 0]) = OpenIn(st) \cup {s} /\ s \notin OpenIn(st)
      BY <1>2, NullAssumption DEF OpenIn
    <2>2. QED  BY <1>1, <2>1, FS_AddElement
  <1>3. ASSUME st[s] # Null
        PROVE  Cardinality(OpenIn([st EXCEPT ![s] = Null])) = Cardinality(OpenIn(st)) - 1
    <2>1. OpenIn([st EXCEPT ![s] = Null]) = OpenIn(st) \ {s} /\ s \in OpenIn(st)
      BY <1>3 DEF OpenIn
    <2>2. QED  BY <1>1, <2>1, FS_RemoveElement
  <1>4. QED  BY <1>1, <1>2, <1>3, FS_CardinalityType

\* What StreamsAccounted says, before and after a step.
LEMMA Accounted ==
    /\ StreamsAccounted <=>
          (orderly => /\ ~closedUsed
                      /\ Cardinality(OpenIn(stream)) = unfound + IF InUse THEN 1 ELSE 0)
    /\ StreamsAccounted' <=>
          (orderly' => /\ ~closedUsed'
                       /\ Cardinality(OpenIn(stream')) = unfound' + IF InUse' THEN 1 ELSE 0)
  <1>1. Streams \ Closed = OpenIn(stream)
    BY DEF Closed, OpenIn
  <1>2. Streams \ Closed' = OpenIn(stream')
    BY DEF Closed, OpenIn
  <1>3. Cardinality(Streams \ Closed) = Cardinality(OpenIn(stream))
    BY <1>1, Zenon
  <1>4. Cardinality(Streams \ Closed') = Cardinality(OpenIn(stream'))
    BY <1>2, Zenon
  <1>5. QED
    BY <1>3, <1>4 DEF StreamsAccounted, InUse

\* A line that can be read has a number of the file.
LEMMA LineUid ==
    ASSUME NEW entry \in Lines, entry # Unreadable
    PROVE  entry # Null /\ entry.uid \in Uids /\ Parsed(entry).uid \in Uids
  <1>1. PICK e \in Entries : entry = e \/ entry = [e EXCEPT !.home = "path"]
    BY DEF Lines, Put
  <1>2. DOMAIN entry = {"name", "uid", "home"} /\ entry.uid = e.uid
    BY <1>1, EntriesAssumption
  <1>3. Parsed(entry).uid = entry.uid
    BY <1>2 DEF Parsed
  <1>4. QED  BY <1>2, <1>3, NullAssumption DEF Uids

\* What getpwent reads is the line at its place, complete and readable.
LEMMA ReadsLine ==
    ASSUME UsersTypeOK, FileInv
    PROVE  /\ NextLine # Null => /\ fpw \in Streams /\ stream[fpw] \in Nat
                                 /\ stream[fpw] + 1 \in 1 .. Len(passwd)
                                 /\ NextLine = passwd[stream[fpw] + 1]
                                 /\ NextLine \in Lines /\ NextLine # Unreadable
                                 /\ Advanced = [stream EXCEPT ![fpw] = @ + 1]
           /\ Advanced \in [Streams -> Nat \cup {Null}]
           /\ OpenIn(Advanced) = OpenIn(stream)
  <1>1. fpw # Null => fpw \in Streams /\ passwd \in Seq(Lines) /\ Len(passwd) \in Nat
    BY DEF UsersTypeOK, FileInv
  <1>2. stream \in [Streams -> Nat \cup {Null}]
    BY DEF UsersTypeOK
  <1>3. Advanced \in [Streams -> Nat \cup {Null}] /\ OpenIn(Advanced) = OpenIn(stream)
    <2>1. CASE Advanced = stream
      BY <1>2, <2>1
    <2>2. CASE Advanced # stream
      <3>1. fpw # Null /\ stream[fpw] # Null /\ Advanced = [stream EXCEPT ![fpw] = @ + 1]
        BY <2>2 DEF Advanced, Misuse
      <3>2. stream[fpw] \in Nat /\ stream[fpw] + 1 \in Nat
        BY <1>1, <1>2, <3>1
      <3>3. QED  BY <1>1, <1>2, <3>1, <3>2, NullAssumption DEF OpenIn
    <2>3. QED  BY <2>1, <2>2
  <1>4. ASSUME NextLine # Null
        PROVE  /\ fpw \in Streams /\ stream[fpw] \in Nat
               /\ stream[fpw] + 1 \in 1 .. Len(passwd)
               /\ NextLine = passwd[stream[fpw] + 1]
               /\ NextLine \in Lines /\ NextLine # Unreadable
               /\ Advanced = [stream EXCEPT ![fpw] = @ + 1]
    <2>1. fpw # Null /\ stream[fpw] # Null
      BY <1>4 DEF NextLine, Misuse
    <2>2. fpw \in Streams /\ stream[fpw] \in Nat
      BY <1>1, <1>2, <2>1
    <2>3. ~(stream[fpw] + 1 > Len(passwd)) /\ NextLine = passwd[stream[fpw] + 1]
          /\ NextLine # Unreadable
      BY <1>4, <2>1 DEF NextLine, Misuse
    <2>4. stream[fpw] + 1 \in 1 .. Len(passwd)
      BY <1>1, <2>1, <2>2, <2>3
    <2>5. Advanced = [stream EXCEPT ![fpw] = @ + 1]
      BY <1>1, <2>1, <2>2, <2>4 DEF Advanced, Misuse
    <2>6. NextLine \in Lines
      BY <1>1, <2>1, <2>3, <2>4
    <2>7. QED  BY <2>2, <2>3, <2>4, <2>5, <2>6
  <1>5. QED  BY <1>3, <1>4

\* The number of complete lines is a number of lines.
LEMMA CompleteLines ==
    ASSUME UsersTypeOK, FileInv
    PROVE  Complete \in 0 .. MaxLines /\ (passwd # Null => Complete <= Len(passwd))
  BY BoundsAssumption DEF UsersTypeOK, FileInv, Complete

------------------------------------------------------------------------------
\* At first no stream is open.
LEMMA UsersStart == UsersInit => UsersInv
  <1> SUFFICES ASSUME UsersInit PROVE UsersInv
    OBVIOUS
  <1>1. UsersTypeOK /\ FileInv
    <2>1. passwd # Null => passwd \in Seq(Lines) /\ Len(passwd) <= MaxLines
      <3>1. ASSUME NEW n \in 0 .. MaxLines, passwd \in [1 .. n -> Lines]
            PROVE  passwd \in Seq(Lines) /\ Len(passwd) <= MaxLines
        BY <3>1, BoundsAssumption
      <3>2. QED  BY <3>1 DEF UsersInit
    <2>2. QED  BY <2>1 DEF UsersInit, UsersTypeOK, FileInv
  <1>2. TildeInv /\ OrderInv /\ PassedInv
    BY DEF UsersInit, TildeInv, OrderInv, PassedInv, Called, InUse
  <1>3. StreamsAccounted
    <2>1. OpenIn(stream) = {}
      BY DEF UsersInit, OpenIn
    <2>2. Cardinality(OpenIn(stream)) = 0
      BY <2>1, FS_EmptySet
    <2>3. QED  BY <2>2, Accounted DEF UsersInit, InUse
  <1>4. QED  BY <1>1, <1>2, <1>3 DEF UsersInv

\* What _setpwent does to the streams: it opens one more, or none.
LEMMA SetsStream ==
    ASSUME UsersInv, _setpwent
    PROVE  /\ stream' \in [Streams -> Nat \cup {Null}] /\ fpw' \in Streams \cup {Null}
           /\ fpw' # Null => passwd # Null /\ stream'[fpw'] = 0 /\ stream'[fpw'] # Null
           /\ Cardinality(OpenIn(stream')) =
                 Cardinality(OpenIn(stream)) + IF fpw' # Null THEN 1 ELSE 0
           /\ Cardinality(OpenIn(stream)) \in Nat
  <1>1. stream \in [Streams -> Nat \cup {Null}]
    BY DEF UsersInv, UsersTypeOK
  <1>2. Cardinality(OpenIn(stream)) \in Nat
    BY BoundsAssumption, FS_Subset, FS_CardinalityType DEF OpenIn
  <1>3. ASSUME NEW s \in Closed, Opens(s), fpw' = s, passwd # Null
        PROVE  /\ stream' \in [Streams -> Nat \cup {Null}] /\ fpw' \in Streams
               /\ stream'[fpw'] = 0 /\ fpw' # Null /\ 0 # Null
               /\ Cardinality(OpenIn(stream')) = Cardinality(OpenIn(stream)) + 1
    <2>1. s \in Streams /\ stream[s] = Null /\ s # Null /\ 0 # Null
      BY NullAssumption DEF Closed
    <2>2. stream' = [stream EXCEPT ![s] = 0]
      BY <1>3 DEF Opens
    <2>3. Cardinality(OpenIn(stream')) = Cardinality(OpenIn(stream)) + 1
      BY <1>1, <2>1, <2>2, OpenCount
    <2>4. QED  BY <1>1, <1>3, <2>1, <2>2, <2>3
  <1>4. ASSUME fpw' = Null, UNCHANGED stream
        PROVE  Cardinality(OpenIn(stream')) = Cardinality(OpenIn(stream))
    BY <1>4
  <1>5. QED  BY <1>1, <1>2, <1>3, <1>4 DEF _setpwent

\* What endpwent does to the streams: it closes fpw's if that is open.
LEMMA EndsStream ==
    ASSUME NEW st \in [Streams -> Nat \cup {Null}], fpw \in Streams \cup {Null}
    PROVE  /\ _endpwent(st) \in [Streams -> Nat \cup {Null}]
           /\ fpw # Null /\ st[fpw] # Null =>
                 Cardinality(OpenIn(_endpwent(st))) = Cardinality(OpenIn(st)) - 1
           /\ fpw = Null => _endpwent(st) = st
           /\ Cardinality(OpenIn(st)) \in Nat
  <1>1. Cardinality(OpenIn(st)) \in Nat
    BY BoundsAssumption, FS_Subset, FS_CardinalityType DEF OpenIn
  <1>2. _endpwent(st) = IF fpw = Null THEN st ELSE [st EXCEPT ![fpw] = Null]
    BY DEF _endpwent
  <1>3. fpw # Null /\ st[fpw] # Null =>
           Cardinality(OpenIn(_endpwent(st))) = Cardinality(OpenIn(st)) - 1
    BY <1>2, OpenCount
  <1>4. QED  BY <1>1, <1>2, <1>3

\* setpwent.
LEMMA SetpwentInv ==
    ASSUME UsersInv, setpwent
    PROVE  UsersInv'
  <1>1. /\ _setpwent /\ scan = Null /\ scan' = Null /\ last' = Called("setpwent", Null)
        /\ holding' = TRUE /\ orderly' = (orderly /\ ~holding)
        /\ UNCHANGED <<passwd, half, services, root, atDevice, _unixdir, closedUsed, unfound>>
    BY DEF setpwent, Idle, Returns, files
  <1>2. UsersTypeOK' /\ FileInv'
    BY <1>1, SetsStream DEF UsersInv, UsersTypeOK, FileInv
  <1>3. TildeInv' /\ OrderInv' /\ PassedInv'
    BY <1>1, SetsStream DEF TildeInv, OrderInv, PassedInv, InUse, Called
  <1>4. StreamsAccounted'
    <2>1. orderly /\ ~holding => ~closedUsed /\ Cardinality(OpenIn(stream)) = unfound
      BY <1>1, Accounted DEF UsersInv, UsersTypeOK, InUse
    <2>2. QED
      BY <1>1, <2>1, SetsStream, Accounted DEF UsersInv, UsersTypeOK, InUse
  <1>5. QED  BY <1>2, <1>3, <1>4 DEF UsersInv

\* getpwent.
LEMMA GetpwentInv ==
    ASSUME UsersInv, getpwent
    PROVE  UsersInv'
  <1>1. /\ scan = Null /\ scan' = Null /\ stream' = Advanced /\ fpw' = fpw
        /\ \E result : last' = Called("getpwent", result)
        /\ orderly' = (orderly /\ holding) /\ closedUsed' = (closedUsed \/ Misuse(fpw))
        /\ UNCHANGED <<passwd, half, services, root, atDevice, _unixdir, holding, unfound>>
    BY DEF getpwent, Idle, Returns, files
  <1>2. Advanced \in [Streams -> Nat \cup {Null}] /\ OpenIn(stream') = OpenIn(stream)
    BY <1>1, ReadsLine DEF UsersInv
  <1>3. UsersTypeOK' /\ FileInv'
    BY <1>1, <1>2 DEF UsersInv, UsersTypeOK, FileInv, Misuse
  <1>4. \A s \in Streams : stream[s] # Null <=> stream'[s] # Null
    BY <1>2 DEF OpenIn
  <1>5. TildeInv' /\ PassedInv'
    BY <1>1 DEF TildeInv, PassedInv, Called
  <1>6. OrderInv'
    <2>1. last'.call = "getpwent"
      BY <1>1 DEF Called
    <2>2. QED
      BY <1>1, <1>4, <2>1 DEF UsersInv, UsersTypeOK, OrderInv, InUse
  <1>7. StreamsAccounted'
    <2>1. orderly' => ~Misuse(fpw)
      BY <1>1 DEF UsersInv, UsersTypeOK, OrderInv, InUse, Misuse
    <2>2. QED
      BY <1>1, <1>2, <2>1, Accounted DEF UsersInv, UsersTypeOK, InUse
  <1>8. QED  BY <1>3, <1>5, <1>6, <1>7 DEF UsersInv

\* endpwent.
LEMMA EndpwentInv ==
    ASSUME UsersInv, endpwent
    PROVE  UsersInv'
  <1>1. /\ scan = Null /\ scan' = Null /\ stream' = _endpwent(stream) /\ fpw' = fpw
        /\ last' = Called("endpwent", Null) /\ holding' = FALSE
        /\ orderly' = (orderly /\ holding) /\ closedUsed' = (closedUsed \/ Misuse(fpw))
        /\ UNCHANGED <<passwd, half, services, root, atDevice, _unixdir, unfound>>
    BY DEF endpwent, Idle, Returns, files
  <1>2. stream \in [Streams -> Nat \cup {Null}] /\ fpw \in Streams \cup {Null}
    BY DEF UsersInv, UsersTypeOK
  <1>3. UsersTypeOK' /\ FileInv'
    BY <1>1, <1>2, EndsStream DEF UsersInv, UsersTypeOK, FileInv, Misuse
  <1>4. TildeInv' /\ OrderInv' /\ PassedInv'
    BY <1>1 DEF TildeInv, OrderInv, PassedInv, InUse, Called
  <1>5. StreamsAccounted'
    <2>1. orderly' /\ fpw # Null => stream[fpw] # Null /\ ~Misuse(fpw)
      BY <1>1 DEF UsersInv, UsersTypeOK, OrderInv, InUse, Misuse
    <2>2. fpw = Null => ~Misuse(fpw)
      BY DEF Misuse
    <2>3. orderly' => Cardinality(OpenIn(stream)) = unfound + IF fpw # Null THEN 1 ELSE 0
      BY <1>1, Accounted DEF UsersInv, UsersTypeOK, InUse
    <2>4. orderly' => ~closedUsed'
      BY <1>1, <2>1, <2>2, Accounted DEF UsersInv, UsersTypeOK
    <2>5. orderly' => Cardinality(OpenIn(stream')) = unfound
      BY <1>1, <1>2, <2>1, <2>3, EndsStream DEF UsersInv, UsersTypeOK
    <2>6. QED
      BY <1>1, <2>4, <2>5, Accounted DEF InUse, UsersInv, UsersTypeOK
  <1>6. QED  BY <1>3, <1>4, <1>5 DEF UsersInv

\* A lookup that begins, by itself or as the second of ~.
LEMMA BeginsInv ==
    ASSUME UsersInv, scan = Null,
           NEW for \in {"getpwnam", "getpwuid", "getuid", "tilde", "tilde_uid"},
           NEW key \in Key, Begins(for, key), UNCHANGED <<files, _unixdir, last, holding>>,
           orderly' = (orderly /\ ~holding), UNCHANGED <<closedUsed, unfound>>
    PROVE  UsersInv'
  <1>1. /\ _setpwent /\ scan' = [for |-> for, key |-> key, known |-> Complete]
        /\ UNCHANGED <<passwd, half, services, root, atDevice>>
    BY DEF Begins, files
  <1>2. scan' \in Scan /\ scan' # Null
    BY <1>1, CompleteLines, NullAssumption DEF UsersInv, Scan
  <1>3. UsersTypeOK' /\ FileInv'
    BY <1>1, <1>2, SetsStream DEF UsersInv, UsersTypeOK, FileInv
  <1>4. TildeInv' /\ OrderInv'
    BY <1>1, SetsStream DEF UsersInv, UsersTypeOK, TildeInv, OrderInv, InUse
  <1>5. PassedInv'
    <2> SUFFICES ASSUME fpw' # Null PROVE /\ scan'.known <= Complete'
                                          /\ stream'[fpw'] \in 0 .. Len(passwd')
                                          /\ 1 .. stream'[fpw'] = {}
      BY DEF PassedInv
    <2>1. scan'.known = Complete /\ Complete' = Complete /\ Complete \in Nat
      BY <1>1, CompleteLines DEF Complete, UsersInv
    <2>2. passwd \in Seq(Lines) /\ stream'[fpw'] = 0 /\ passwd' = passwd
      BY <1>1, SetsStream DEF UsersInv, UsersTypeOK
    <2>3. QED  BY <2>1, <2>2
  <1>6. StreamsAccounted'
    <2>1. orderly /\ ~holding => ~closedUsed /\ Cardinality(OpenIn(stream)) = unfound
      BY Accounted DEF UsersInv, UsersTypeOK, InUse
    <2>2. QED
      BY <1>1, <1>2, <2>1, SetsStream, Accounted DEF UsersInv, UsersTypeOK, InUse
  <1>7. QED  BY <1>3, <1>4, <1>5, <1>6 DEF UsersInv

\* getpwnam, getpwuid, getuid and the first lookup of ~.
LEMMA LookupInv ==
    ASSUME UsersInv, NEW for \in {"getpwnam", "getpwuid", "getuid", "tilde", "tilde_uid"},
           NEW key \in Key, Lookup(for, key)
    PROVE  UsersInv'
  BY BeginsInv DEF Lookup, Idle

\* The second lookup of ~, by the number the first returned.
LEMMA TildeUidInv ==
    ASSUME UsersInv, TildeUid
    PROVE  UsersInv'
  <1>1. Uid(last.result) \in Uids \cup {-1}
    BY DEF TildeUid, UsersInv, TildeInv, Uid
  <1>2. [uid |-> Uid(last.result)] \in Key
    BY <1>1 DEF Key
  <1>3. orderly' = (orderly /\ ~holding)
    BY DEF TildeUid, history, UsersInv, UsersTypeOK, OrderInv
  <1>4. QED
    BY <1>2, <1>3, BeginsInv DEF TildeUid, history

\* What is known while a lookup reads: its stream is open, and its end closes it.
LEMMA ScanReads ==
    ASSUME UsersInv, ScanStep
    PROVE  /\ scan \in Scan /\ scan # Null
           /\ orderly /\ fpw # Null => stream[fpw] \in Nat /\ ~Misuse(fpw)
           /\ orderly => ~closedUsed'
           /\ stream' \in [Streams -> Nat \cup {Null}]
           /\ UNCHANGED <<passwd, half, services, root, atDevice, _unixdir, fpw, holding, orderly,
                          unfound>>
  <1>1. /\ scan \in Scan /\ scan # Null
        /\ UNCHANGED <<passwd, half, services, root, atDevice, _unixdir, fpw, holding, orderly, unfound>>
    BY DEF ScanStep, UsersInv, UsersTypeOK, files
  <1>2. orderly /\ fpw # Null => stream[fpw] \in Nat /\ ~Misuse(fpw)
    BY <1>1 DEF UsersInv, UsersTypeOK, OrderInv, InUse, Misuse
  <1>3. closedUsed' = (closedUsed \/ Misuse(fpw)) /\ stream' \in {Advanced, _endpwent(Advanced)}
    BY DEF ScanStep
  <1>4. fpw = Null => ~Misuse(fpw)
    BY DEF Misuse
  <1>5. orderly => ~closedUsed'
    BY <1>2, <1>3, <1>4, Accounted DEF UsersInv, UsersTypeOK
  <1>6. stream' \in [Streams -> Nat \cup {Null}]
    BY <1>3, ReadsLine, EndsStream DEF UsersInv, UsersTypeOK
  <1>7. QED  BY <1>1, <1>2, <1>5, <1>6

\* A line that does not fit is passed.
LEMMA ScanPassesInv ==
    ASSUME UsersInv, ScanStep, scan' # Null
    PROVE  UsersInv'
  <1>1. /\ NextLine # Null /\ ~Fits(scan.key, NextLine) /\ stream' = Advanced
        /\ scan' = scan /\ last' = last
    BY DEF ScanStep
  <1>2. UsersTypeOK' /\ FileInv' /\ TildeInv'
    BY <1>1, ScanReads DEF UsersInv, UsersTypeOK, FileInv, TildeInv, ScanStep, Misuse
  <1>3. /\ fpw \in Streams /\ stream[fpw] \in Nat /\ stream[fpw] + 1 \in 1 .. Len(passwd)
        /\ NextLine = passwd[stream[fpw] + 1] /\ NextLine # Unreadable
        /\ stream' = [stream EXCEPT ![fpw] = stream[fpw] + 1]
        /\ OpenIn(stream') = OpenIn(stream)
    BY <1>1, ReadsLine DEF UsersInv
  <1>4. stream'[fpw] = stream[fpw] + 1 /\ stream'[fpw] # Null
    BY <1>3, NullAssumption DEF UsersInv, UsersTypeOK
  <1>5. OrderInv'
    BY <1>1, <1>4, ScanReads DEF UsersInv, OrderInv, InUse
  <1>6. PassedInv'
    <2> SUFFICES ASSUME orderly
                 PROVE  /\ scan.known <= Complete' /\ stream'[fpw] \in 0 .. Len(passwd)
                        /\ \A j \in 1 .. stream'[fpw] :
                              passwd[j] # Unreadable /\ ~Fits(scan.key, passwd[j])
      BY <1>1, ScanReads DEF PassedInv
    <2>1. fpw # Null
      BY <1>3, NullAssumption
    <2>2. /\ scan.known <= Complete
          /\ \A j \in 1 .. stream[fpw] : passwd[j] # Unreadable /\ ~Fits(scan.key, passwd[j])
      BY <2>1, ScanReads DEF UsersInv, PassedInv
    <2>3. Complete' = Complete
      BY ScanReads DEF Complete
    <2>4. \A j \in 1 .. stream[fpw] + 1 : j = stream[fpw] + 1 \/ j \in 1 .. stream[fpw]
      BY <1>3
    <2>5. stream[fpw] + 1 \in 0 .. Len(passwd)
      BY <1>3
    <2>6. QED  BY <1>1, <1>3, <1>4, <2>2, <2>3, <2>4, <2>5
  <1>7. StreamsAccounted'
    BY <1>1, <1>3, ScanReads, Accounted DEF UsersInv, UsersTypeOK, InUse
  <1>8. QED  BY <1>2, <1>5, <1>6, <1>7 DEF UsersInv

\* The lookup ends, and endpwent closes its stream.
LEMMA ScanEndsInv ==
    ASSUME UsersInv, ScanStep, scan' = Null
    PROVE  UsersInv'
  <1>1. /\ stream' = _endpwent(Advanced)
        /\ last' = Called(scan.for, IF NextLine = Null THEN Null ELSE Parsed(NextLine))
    BY NullAssumption, ScanReads DEF ScanStep, Returns
  <1>2. UsersTypeOK' /\ FileInv'
    BY ScanReads DEF UsersInv, UsersTypeOK, FileInv, ScanStep, Misuse
  <1>3. TildeInv'
    BY <1>1, ReadsLine, LineUid DEF TildeInv, Called, UsersInv
  <1>4. OrderInv' /\ PassedInv'
    <2>1. orderly => ~holding
      BY ScanReads DEF UsersInv, OrderInv
    <2>2. QED  BY <2>1, ScanReads DEF OrderInv, PassedInv, InUse
  <1>5. StreamsAccounted'
    <2>1. /\ Advanced \in [Streams -> Nat \cup {Null}] /\ OpenIn(Advanced) = OpenIn(stream)
          /\ fpw \in Streams \cup {Null}
      BY ReadsLine DEF UsersInv, UsersTypeOK
    <2>2. orderly => ~holding
      BY ScanReads DEF UsersInv, OrderInv
    <2>3. orderly => Cardinality(OpenIn(Advanced)) = unfound + IF fpw # Null THEN 1 ELSE 0
      BY <2>1, ScanReads, Accounted DEF UsersInv, UsersTypeOK, InUse
    <2>4. orderly /\ fpw # Null => Advanced[fpw] # Null
      BY <2>1, ScanReads, NullAssumption DEF OpenIn
    <2>5. orderly => Cardinality(OpenIn(stream')) = unfound
      BY <1>1, <2>1, <2>3, <2>4, EndsStream DEF UsersInv, UsersTypeOK
    <2>6. QED
      BY <2>2, <2>5, ScanReads, Accounted DEF InUse, UsersInv, UsersTypeOK
  <1>6. QED  BY <1>2, <1>3, <1>4, <1>5 DEF UsersInv

\* The one round of a lookup that returns does what UsersFound says.
LEMMA ScanEndsRight ==
    ASSUME UsersInv, ScanStep, scan' = Null, fpw # Null, orderly
    PROVE  LET before == Fitting(scan.known, scan.key)
           IN  IF before # {} THEN last'.result = FirstOf(before)
               ELSE last'.result # Null =>
                       LET now == Fitting(Len(passwd), scan.key)
                       IN  now # {} /\ last'.result = FirstOf(now)
  <1> DEFINE p == stream[fpw]
             before == Fitting(scan.known, scan.key)
             now == Fitting(Len(passwd), scan.key)
  <1>1. /\ scan # Null /\ p \in Nat /\ ~Misuse(fpw)
        /\ passwd \in Seq(Lines) /\ Len(passwd) \in Nat
        /\ scan.known \in Nat /\ scan.known <= Complete /\ Complete <= Len(passwd)
        /\ Complete \in Nat /\ (half => Complete < Len(passwd))
        /\ \A j \in 1 .. p : passwd[j] # Unreadable /\ ~Fits(scan.key, passwd[j])
    <2>1. scan # Null /\ p \in Nat /\ ~Misuse(fpw) /\ scan \in Scan
      BY ScanReads
    <2>2. passwd \in Seq(Lines) /\ Len(passwd) \in Nat /\ passwd # Null
      BY DEF UsersInv, UsersTypeOK, FileInv
    <2>3. Complete \in Nat /\ Complete <= Len(passwd) /\ (half => Complete < Len(passwd))
      BY <2>2 DEF Complete, UsersInv, UsersTypeOK, FileInv
    <2>4. scan.known \in Nat
      BY <2>1, BoundsAssumption DEF Scan
    <2>5. QED
      BY <2>1, <2>2, <2>3, <2>4 DEF UsersInv, PassedInv
  <1>2. /\ \A i \in before : i \in 1 .. scan.known /\ i > p /\ Fits(scan.key, passwd[i])
                             /\ \A j \in 1 .. i : passwd[j] # Unreadable
        /\ \A i \in now : i > p /\ i \in 1 .. Len(passwd)
    BY <1>1 DEF Fitting
  <1>3. CASE NextLine = Null
    <2>1. last'.result = Null
      BY <1>1, <1>3 DEF ScanStep, Returns, Called
    <2>2. ASSUME NEW i \in before
          PROVE  FALSE
      <3>1. p + 1 \in 1 .. i /\ p + 1 <= Complete
        BY <1>1, <1>2
      <3>2. passwd[p + 1] # Unreadable
        BY <1>2, <3>1
      <3>3. ~(p + 1 > Len(passwd)) /\ ~(p + 1 = Len(passwd) /\ half)
        BY <1>1, <3>1
      <3>4. NextLine = passwd[p + 1]
        BY <1>1, <3>2, <3>3 DEF NextLine
      <3>5. passwd[p + 1] \in Lines
        BY <1>1, <3>1
      <3>6. QED  BY <1>3, <3>4, <3>5, NullAssumption
    <2>3. QED  BY <2>1, <2>2
  <1>4. CASE NextLine # Null
    <2>1. /\ p + 1 \in 1 .. Len(passwd) /\ NextLine = passwd[p + 1] /\ NextLine # Unreadable
      BY <1>4, ReadsLine DEF UsersInv
    <2>2. Fits(scan.key, passwd[p + 1]) /\ last'.result = Parsed(passwd[p + 1])
      BY <1>1, <1>4, <2>1 DEF ScanStep, Returns, Called
    <2>3. \A j \in 1 .. p + 1 : passwd[j] # Unreadable
      <3>1. \A j \in 1 .. p + 1 : j = p + 1 \/ j \in 1 .. p
        BY <1>1
      <3>2. QED  BY <1>1, <2>1, <3>1
    <2>4. ASSUME NEW S, S = before \/ S = now, p + 1 \in S
          PROVE  FirstOf(S) = Parsed(passwd[p + 1])
      <3>1. \A i \in S : i \in Nat /\ p + 1 <= i
        BY <1>1, <1>2, <2>4
      <3>2. (CHOOSE i \in S : \A j \in S : i <= j) = p + 1
        BY <1>1, <2>4, <3>1
      <3>3. QED  BY <3>2 DEF FirstOf
    <2>5. before # {} => p + 1 \in before
      <3>1. ASSUME NEW i \in before
            PROVE  p + 1 \in 1 .. scan.known
        BY <1>1, <1>2
      <3>2. QED  BY <2>2, <2>3, <3>1 DEF Fitting
    <2>6. p + 1 \in now
      BY <2>1, <2>2, <2>3 DEF Fitting
    <2>7. QED  BY <2>2, <2>4, <2>5, <2>6
  <1>5. QED  BY <1>3, <1>4

\* getservbyname: a service that is not found leaves its stream open.
LEMMA ServiceInv ==
    ASSUME UsersInv, NEW name \in Services, getservbyname(name)
    PROVE  UsersInv'
  <1>1. /\ scan = Null /\ scan' = Null /\ _unixdir' \in BOOLEAN
        /\ last'.call = "getservbyname"
        /\ UNCHANGED <<passwd, half, services, root, atDevice, fpw, holding, orderly, closedUsed>>
    BY DEF getservbyname, Idle, Returns, Called, files, XCEGetUnixPath, UsersInv, UsersTypeOK,
           XCEGetEnvironmentVariableFromRegA, XCERegQueryValueExA
  <1>2. stream \in [Streams -> Nat \cup {Null}] /\ unfound \in Nat
    BY DEF UsersInv, UsersTypeOK
  <1>3. \/ UNCHANGED <<stream, unfound>>
        \/ /\ unfound' = unfound + 1
           /\ \E s \in Streams : stream[s] = Null /\ stream' = [stream EXCEPT ![s] = 0]
    BY DEF getservbyname, Closed, Opens
  <1>4. /\ stream' \in [Streams -> Nat \cup {Null}] /\ unfound' \in Nat
        /\ Cardinality(OpenIn(stream)) \in Nat /\ Cardinality(OpenIn(stream')) \in Nat
        /\ Cardinality(OpenIn(stream')) - unfound' = Cardinality(OpenIn(stream)) - unfound
        /\ \A s \in Streams : stream[s] # Null => stream'[s] = stream[s]
    <2>1. Cardinality(OpenIn(stream)) \in Nat
      BY BoundsAssumption, FS_Subset, FS_CardinalityType DEF OpenIn
    <2>2. CASE UNCHANGED <<stream, unfound>>
      BY <1>2, <2>1, <2>2
    <2>3. CASE unfound' = unfound + 1
      <3>1. PICK s \in Streams : stream[s] = Null /\ stream' = [stream EXCEPT ![s] = 0]
        BY <1>2, <1>3, <2>3
      <3>2. Cardinality(OpenIn(stream')) = Cardinality(OpenIn(stream)) + 1
        BY <1>2, <3>1, OpenCount
      <3>3. QED  BY <1>2, <2>1, <2>3, <3>1, <3>2
    <2>4. QED  BY <1>3, <2>2, <2>3
  <1>5. UsersTypeOK' /\ FileInv'
    BY <1>1, <1>4 DEF UsersInv, UsersTypeOK, FileInv
  <1>6. TildeInv' /\ OrderInv' /\ PassedInv'
    BY <1>1, <1>4 DEF UsersInv, UsersTypeOK, TildeInv, OrderInv, PassedInv, InUse
  <1>7. StreamsAccounted'
    <2>1. orderly => /\ ~closedUsed
                     /\ Cardinality(OpenIn(stream)) = unfound + IF InUse THEN 1 ELSE 0
      BY Accounted DEF UsersInv
    <2>2. InUse' <=> InUse
      BY <1>1 DEF InUse
    <2>3. (IF InUse' THEN 1 ELSE 0) = (IF InUse THEN 1 ELSE 0)
      BY <2>2
    <2>4. orderly' => /\ ~closedUsed'
                      /\ Cardinality(OpenIn(stream')) = unfound' + IF InUse' THEN 1 ELSE 0
      BY <1>1, <1>2, <1>4, <2>1, <2>3
    <2>5. QED  BY <2>4, Accounted
  <1>8. QED  BY <1>5, <1>6, <1>7 DEF UsersInv

\* Other processes and a getuid that looks nobody up: the lines that are there stay,
\* and so do the streams.
LEMMA OthersInv ==
    ASSUME UsersInv,
           UNCHANGED <<services, atDevice, _unixdir, stream, fpw, scan, history>>,
           \/ UNCHANGED last
           \/ last'.call = "getuid" /\ Idle,
           root' \in {"REG_SZ", "REG_DWORD", Null},
           \/ UNCHANGED <<passwd, half>>
           \/ UNCHANGED passwd /\ half /\ half' = FALSE
           \/ /\ passwd # Null /\ ~half /\ half' = TRUE /\ Len(passwd) < MaxLines
              /\ \E entry \in Lines : passwd' = Append(passwd, entry)
    PROVE  UsersInv'
  <1>1. UNCHANGED <<holding, orderly, closedUsed, unfound>>
    BY DEF history
  <1>2. passwd # Null => /\ passwd' \in Seq(Lines) /\ passwd' # Null
                         /\ Len(passwd') \in Nat /\ Len(passwd') <= MaxLines
                         /\ Len(passwd) \in Nat /\ Len(passwd) <= Len(passwd')
                         /\ \A j \in 1 .. Len(passwd) : passwd'[j] = passwd[j]
                         /\ half' => Len(passwd') > 0
                         /\ Complete \in Nat /\ Complete' \in Nat /\ Complete <= Complete'
    <2> SUFFICES ASSUME passwd # Null
                 PROVE  /\ passwd' \in Seq(Lines) /\ passwd' # Null
                        /\ Len(passwd') \in Nat /\ Len(passwd') <= MaxLines
                        /\ Len(passwd) \in Nat /\ Len(passwd) <= Len(passwd')
                        /\ \A j \in 1 .. Len(passwd) : passwd'[j] = passwd[j]
                        /\ half' => Len(passwd') > 0
                        /\ Complete \in Nat /\ Complete' \in Nat /\ Complete <= Complete'
      OBVIOUS
    <2>1. /\ passwd \in Seq(Lines) /\ Len(passwd) \in Nat /\ Len(passwd) <= MaxLines
          /\ half => Len(passwd) > 0
      BY DEF UsersInv, UsersTypeOK, FileInv
    <2>2. CASE UNCHANGED <<passwd, half>>
      BY <2>1, <2>2 DEF Complete
    <2>3. CASE UNCHANGED passwd /\ half /\ half' = FALSE
      BY <2>1, <2>3 DEF Complete
    <2>4. ASSUME NEW entry \in Lines, passwd' = Append(passwd, entry), ~half, half' = TRUE,
                 Len(passwd) < MaxLines
          PROVE  /\ passwd' \in Seq(Lines) /\ passwd' # Null /\ Len(passwd') = Len(passwd) + 1
                 /\ \A j \in 1 .. Len(passwd) : passwd'[j] = passwd[j]
                 /\ Complete' = Complete /\ Complete = Len(passwd)
      <3>1. /\ passwd' \in Seq(Lines) /\ Len(passwd') = Len(passwd) + 1
            /\ \A j \in 1 .. Len(passwd) : passwd'[j] = passwd[j]
        BY <2>1, <2>4, AppendProperties
      <3>2. passwd' # Null
        BY <3>1, NullAssumption
      <3>3. QED  BY <2>1, <2>4, <3>1, <3>2 DEF Complete
    <2>5. ASSUME NEW entry \in Lines, passwd' = Append(passwd, entry), ~half, half' = TRUE,
                 Len(passwd) < MaxLines
          PROVE  /\ passwd' \in Seq(Lines) /\ passwd' # Null
                 /\ Len(passwd') \in Nat /\ Len(passwd') <= MaxLines
                 /\ Len(passwd) \in Nat /\ Len(passwd) <= Len(passwd')
                 /\ \A j \in 1 .. Len(passwd) : passwd'[j] = passwd[j]
                 /\ Len(passwd') > 0
                 /\ Complete \in Nat /\ Complete' \in Nat /\ Complete <= Complete'
      BY <2>1, <2>4, <2>5, BoundsAssumption
    <2>6. QED  BY <2>2, <2>3, <2>5
  <1>3. passwd = Null => passwd' = Null /\ half' = FALSE
    BY DEF UsersInv, UsersTypeOK, FileInv
  <1>4. UsersTypeOK'
    BY <1>1, <1>2, <1>3 DEF UsersInv, UsersTypeOK
  <1>5. FileInv' /\ TildeInv' /\ OrderInv'
    BY <1>1, <1>2, <1>3 DEF UsersInv, FileInv, TildeInv, OrderInv, InUse, Idle
  <1>6. PassedInv'
    <2> SUFFICES ASSUME orderly, scan # Null, fpw # Null
                 PROVE  /\ scan.known <= Complete' /\ stream[fpw] \in 0 .. Len(passwd')
                        /\ \A j \in 1 .. stream[fpw] :
                              passwd'[j] # Unreadable /\ ~Fits(scan.key, passwd'[j])
      BY <1>1 DEF PassedInv
    <2>1. /\ scan.known <= Complete /\ stream[fpw] \in 0 .. Len(passwd)
          /\ \A j \in 1 .. stream[fpw] : passwd[j] # Unreadable /\ ~Fits(scan.key, passwd[j])
      BY DEF UsersInv, PassedInv
    <2>2. passwd # Null /\ scan \in Scan
      BY DEF UsersInv, UsersTypeOK, FileInv
    <2>3. scan.known \in Nat
      BY <2>2, BoundsAssumption DEF Scan
    <2>4. scan.known <= Complete'
      BY <1>2, <2>1, <2>2, <2>3
    <2>5. stream[fpw] \in 0 .. Len(passwd')
      BY <1>2, <2>1, <2>2
    <2>6. \A j \in 1 .. stream[fpw] : j \in 1 .. Len(passwd)
      BY <1>2, <2>1, <2>2
    <2>7. QED  BY <1>2, <2>1, <2>2, <2>4, <2>5, <2>6
  <1>7. StreamsAccounted'
    BY <1>1, Accounted DEF UsersInv, InUse
  <1>8. QED  BY <1>4, <1>5, <1>6, <1>7 DEF UsersInv

\* Every step keeps the invariant.
LEMMA UsersNextInv == UsersInv /\ [UsersNext]_usersVars => UsersInv'
  <1> SUFFICES ASSUME UsersInv, [UsersNext]_usersVars PROVE UsersInv'
    OBVIOUS
  <1>1. ASSUME NEW n \in Names, getpwnam(n) \/ getuid(n) \/ globtilde(n) \/ globtildeHome(n)
        PROVE  UsersInv'
    <2>1. [name |-> n] \in Key
      BY DEF Key
    <2>2. QED
      BY <1>1, <2>1, LookupInv DEF getpwnam, getuid, globtilde, globtildeHome
  <1>2. ASSUME NEW u \in Uids, getpwuid(u)
        PROVE  UsersInv'
    <2>1. [uid |-> u] \in Key
      BY DEF Key
    <2>2. QED  BY <1>2, <2>1, LookupInv DEF getpwuid
  <1>3. CASE ScanStep
    BY <1>3, ScanPassesInv, ScanEndsInv
  <1>4. root \in {"REG_SZ", "REG_DWORD", Null}
    BY DEF UsersInv, UsersTypeOK
  <1>5. ASSUME NEW e \in Entries, NEW starred \in BOOLEAN, putpwent(e, starred)
        PROVE  UsersInv'
    <2>1. Put(e, starred) \in Lines
      BY DEF Lines
    <2>2. QED  BY <1>4, <1>5, <2>1, OthersInv DEF putpwent
  <1>6. CASE Flush
    BY <1>4, <1>6, OthersInv DEF Flush
  <1>7. CASE SetRoot
    BY <1>7, OthersInv DEF SetRoot
  <1>8. CASE getuidUnnamed
    BY <1>4, <1>8, OthersInv DEF getuidUnnamed, Returns, Called, files
  <1>9. CASE UNCHANGED usersVars
    BY <1>4, <1>9, OthersInv DEF usersVars, history
  <1>10. QED
    BY <1>1, <1>2, <1>3, <1>5, <1>6, <1>7, <1>8, <1>9, SetpwentInv, GetpwentInv, EndpwentInv,
       TildeUidInv, ServiceInv DEF UsersNext

\* The one step that ends a lookup is a round of its loop.
LEMMA OnlyRoundsEnd ==
    ASSUME UsersInv, [UsersNext]_usersVars, scan # Null, scan' = Null
    PROVE  ScanStep
  BY NullAssumption DEF UsersNext, usersVars, setpwent, getpwent, endpwent, TildeUid,
     getuidUnnamed, getpwnam, getuid, globtilde, globtildeHome, getpwuid, Lookup,
     getservbyname, putpwent, Flush, SetRoot, Idle

(***************************************************************************)
(* The type invariant of the user database, for any number of streams and  *)
(* of services.                                                            *)
(***************************************************************************)
THEOREM UsersTypeCorrect == UsersSpec => []UsersTypeOK
  <1>1. UsersInv => UsersTypeOK
    BY DEF UsersInv
  <1>2. QED  BY <1>1, UsersStart, UsersNextInv, PTL DEF UsersSpec

(***************************************************************************)
(* setpwent and endpwent of pwd.c and getservbyname of wsdb.c, for any     *)
(* file, any number of streams and of services: a program that calls them  *)
(* in turn uses no closed stream and leaves none open, but for one at each *)
(* service that was not found.                                             *)
(***************************************************************************)
THEOREM StreamsStayAccounted == UsersSpec => []StreamsAccounted
  <1>1. UsersInv => StreamsAccounted
    BY DEF UsersInv
  <1>2. QED  BY <1>1, UsersStart, UsersNextInv, PTL DEF UsersSpec

(***************************************************************************)
(* The loop of getpwnam and getpwuid (pwd.c), for any file and any lines   *)
(* that other processes add while it reads: it returns the first entry     *)
(* that fits of those that were there when it began, and never one that is *)
(* not in the file.                                                        *)
(***************************************************************************)
THEOREM LookupsFindUsers == UsersSpec => UsersFound
  <1>1. UsersInv /\ [UsersNext]_usersVars =>
           [scan # Null /\ scan' = Null /\ fpw # Null /\ orderly =>
              LET before == Fitting(scan.known, scan.key)
              IN  IF before # {} THEN last'.result = FirstOf(before)
                  ELSE last'.result # Null =>
                          LET now == Fitting(Len(passwd), scan.key)
                          IN  now # {} /\ last'.result = FirstOf(now)]_usersVars
    BY OnlyRoundsEnd, ScanEndsRight, Zenon
  <1>2. QED  BY <1>1, UsersStart, UsersNextInv, PTL DEF UsersSpec, UsersFound

------------------------------------------------------------------------------
(* The log *)

\* A descriptor is never behind the end, and a message is made before it is written.
LogPlaces ==
    \A c \in Caller : /\ pos[c] <= Len(log)
                      /\ at[c] \in {"priority", "line"} => line[c] \in Message

LogAlone ==
    ~overlapped => /\ \A c, d \in Writing : c = d
                   /\ \A c \in Writing : pos[c] = Len(log)

LogInv == LogTypeOK /\ LogPlaces /\ LogAlone /\ LogKeepsLines

------------------------------------------------------------------------------
\* A write at the end of a sequence makes it longer by one.
LEMMA WriteAppends ==
    ASSUME NEW S, NEW s \in Seq(S), NEW e \in S, NEW t \in [1 .. Len(s) + 1 -> S],
           t[Len(s) + 1] = e, \A i \in 1 .. Len(s) : t[i] = s[i]
    PROVE  t = Append(s, e) /\ t \in Seq(S) /\ Len(t) = Len(s) + 1
  <1>1. t \in Seq(S) /\ Len(t) = Len(s) + 1
    OBVIOUS
  <1>2. /\ Append(s, e) \in Seq(S) /\ Len(Append(s, e)) = Len(s) + 1
        /\ \A i \in 1 .. Len(s) : Append(s, e)[i] = s[i]
        /\ Append(s, e)[Len(s) + 1] = e
    BY AppendProperties
  <1>3. \A i \in 1 .. Len(t) : t[i] = Append(s, e)[i]
    BY <1>1, <1>2
  <1> QED BY <1>1, <1>2, <1>3, SeqEqual

\* At first there is no message and nobody has the file open.
LEMMA LogStart == LogInit => LogInv
  <1> SUFFICES ASSUME LogInit PROVE LogInv
    OBVIOUS
  <1>1. LogTypeOK
    <2>1. log \in Seq(Part) /\ meant \in Seq(Part)
      BY DEF LogInit
    <2>2. /\ at \in [Caller -> {"main", "priority", "line", "close"}] /\ pos \in [Caller -> Nat]
          /\ tag \in [Caller -> Tags] /\ overlapped \in BOOLEAN /\ cut \subseteq Caller
      BY DEF LogInit, Tags
    <2>3. line \in [Caller -> Message \cup {NoTag}]
      BY DEF LogInit
    <2> QED BY <2>1, <2>2, <2>3 DEF LogTypeOK
  <1>2. LogPlaces /\ LogAlone /\ LogKeepsLines
    BY DEF LogInit, LogPlaces, LogAlone, LogKeepsLines, Writing
  <1> QED BY <1>1, <1>2 DEF LogInv

\* One of the two writes of a message.
LEMMA LogWrites ==
    ASSUME LogInv, NEW c \in Caller, NEW name \in {"priority", "line"},
           NEW next \in {"line", "close"}, xcewrite(c, name, next)
    PROVE  LogInv'
  <1> DEFINE part == [of |-> line[c], part |-> name]
  <1>0. /\ LogTypeOK /\ c \in Writing /\ at[c] = name /\ part \in Part
        /\ pos[c] \in Nat /\ pos[c] <= Len(log)
    BY DEF LogInv, LogPlaces, LogTypeOK, xcewrite, Runs, Writing, Part
  <1>1. /\ log' = [i \in DOMAIN log \cup {pos[c] + 1} |-> IF i = pos[c] + 1 THEN part ELSE log[i]]
        /\ pos' = [pos EXCEPT ![c] = @ + 1] /\ meant' = Append(meant, part)
        /\ at' = [at EXCEPT ![c] = next] /\ UNCHANGED <<line, tag, overlapped, cut>>
    BY DEF xcewrite, XCEWriteFile
  <1> HIDE DEF part
  <1>2. CASE pos[c] = Len(log)
    <2>0. /\ log \in Seq(Part) /\ log' \in [1 .. Len(log) + 1 -> Part]
          /\ log'[Len(log) + 1] = part /\ \A i \in 1 .. Len(log) : log'[i] = log[i]
      <3>1. log \in Seq(Part) /\ Len(log) \in Nat /\ DOMAIN log = 1 .. Len(log)
            /\ \A i \in 1 .. Len(log) : log[i] \in Part
        BY <1>0 DEF LogTypeOK
      <3>2. DOMAIN log \cup {Len(log) + 1} = 1 .. Len(log) + 1
        BY <3>1
      <3>3. log' = [i \in 1 .. Len(log) + 1 |-> IF i = Len(log) + 1 THEN part ELSE log[i]]
        BY <1>1, <1>2, <3>2
      <3> QED BY <1>0, <3>1, <3>3
    <2>1. log' = Append(log, part)
      BY <1>0, <2>0, WriteAppends
    <2>2. log' \in Seq(Part) /\ Len(log') = Len(log) + 1
      BY <1>0, <2>0, WriteAppends
    <2>3. LogTypeOK'
      BY <1>0, <1>1, <2>2 DEF LogTypeOK
    <2>4. LogPlaces'
      <3>1. Len(log) \in Nat /\ \A d \in Caller : pos[d] \in Nat /\ pos[d] <= Len(log)
        BY <1>0 DEF LogInv, LogPlaces, LogTypeOK
      <3>2. pos'[c] = Len(log) + 1 /\ \A d \in Caller \ {c} : pos'[d] = pos[d]
        BY <1>0, <1>1, <1>2 DEF LogTypeOK
      <3>3. \A d \in Caller : pos'[d] <= Len(log')
        BY <2>2, <3>1, <3>2
      <3>4. \A d \in Caller : at'[d] \in {"priority", "line"} => line'[d] \in Message
        BY <1>0, <1>1 DEF LogInv, LogPlaces, LogTypeOK
      <3> QED BY <3>3, <3>4 DEF LogPlaces
    <2>5. LogAlone'
      <3> SUFFICES ASSUME ~overlapped' PROVE /\ \A d, e \in Writing' : d = e
                                             /\ \A d \in Writing' : pos'[d] = Len(log')
        BY DEF LogAlone
      <3>1. Writing' \subseteq Writing
        BY <1>0, <1>1 DEF LogTypeOK, Writing
      <3>2. \A d \in Writing : d = c
        BY <1>0, <1>1 DEF LogInv, LogAlone
      <3> QED BY <1>0, <1>1, <1>2, <2>2, <3>1, <3>2 DEF LogTypeOK
    <2>6. LogKeepsLines'
      BY <1>1, <2>1 DEF LogInv, LogKeepsLines
    <2> QED BY <2>3, <2>4, <2>5, <2>6 DEF LogInv
  <1>3. CASE pos[c] # Len(log)
    <2>0. overlapped
      BY <1>0, <1>3 DEF LogInv, LogAlone
    <2>1. pos[c] + 1 \in 1 .. Len(log)
      BY <1>0, <1>3 DEF LogTypeOK
    <2>2. log' \in Seq(Part) /\ Len(log') = Len(log)
      <3>1. log' \in [1 .. Len(log) -> Part]
        BY <1>0, <1>1, <2>1 DEF LogTypeOK
      <3>2. Len(log) \in Nat
        BY <1>0 DEF LogTypeOK
      <3> QED BY <3>1, <3>2
    <2>3. LogTypeOK'
      BY <1>0, <1>1, <2>2 DEF LogTypeOK
    <2>4. LogPlaces'
      BY <1>0, <1>1, <2>1, <2>2 DEF LogInv, LogPlaces, LogTypeOK
    <2> QED BY <1>1, <2>0, <2>3, <2>4 DEF LogInv, LogAlone, LogKeepsLines
  <1> QED BY <1>2, <1>3

\* A message is made and the file opened for it.
LEMMA LogBegins ==
    ASSUME LogInv, NEW c \in Caller, NEW fmt, NEW errors, vsyslog(c, fmt, errors)
    PROVE  LogInv'
  <1> DEFINE message == [by |-> c, error |-> Shown(fmt, errors), tag |-> tag[c]]
  <1>1. LogTypeOK /\ message \in Message /\ Tagged(tag[c]) \in Tags
    BY DEF LogInv, LogTypeOK, Message, Shown, Errors, Tagged, Tags
  <1>2. /\ Runs(c, "main") /\ line' = [line EXCEPT ![c] = message]
        /\ tag' = [tag EXCEPT ![c] = Tagged(tag[c])]
        /\ at' = [at EXCEPT ![c] = "priority"] /\ pos' = [pos EXCEPT ![c] = Len(log)]
        /\ overlapped' = (overlapped \/ Writing # {}) /\ UNCHANGED <<log, meant, cut>>
    BY DEF vsyslog
  <1> HIDE DEF message
  <1>3. LogTypeOK'
    BY <1>1, <1>2 DEF LogTypeOK
  <1>4. LogPlaces'
    BY <1>1, <1>2 DEF LogInv, LogPlaces, LogTypeOK
  <1>5. LogAlone'
    <2> SUFFICES ASSUME ~overlapped' PROVE /\ \A d, e \in Writing' : d = e
                                           /\ \A d \in Writing' : pos'[d] = Len(log')
      BY DEF LogAlone
    <2>1. Writing' \subseteq {c}
      BY <1>1, <1>2 DEF LogTypeOK, Writing
    <2> QED BY <1>1, <1>2, <2>1 DEF LogTypeOK
  <1>6. LogKeepsLines'
    BY <1>2 DEF LogInv, LogKeepsLines
  <1> QED BY <1>3, <1>4, <1>5, <1>6 DEF LogInv

\* openlog, a message that is dropped, and the end of a message or a process.
LEMMA LogOthers ==
    ASSUME LogInv, NEW c \in Caller,
           \/ \E ident \in {NoTag, "ident"} : openlog(c, ident)
           \/ vsyslogDropped(c) \/ Close(c) \/ Cut(c)
    PROVE  LogInv'
  <1>1. CASE (\E ident \in {NoTag, "ident"} : openlog(c, ident)) \/ vsyslogDropped(c)
    <2>1. PICK t \in Tags : tag' = [tag EXCEPT ![c] = t]
      BY <1>1 DEF openlog, vsyslogDropped, Tagged, Tags, LogInv, LogTypeOK
    <2>2. UNCHANGED <<log, at, pos, line, overlapped, meant, cut>>
      BY <1>1 DEF openlog, vsyslogDropped
    <2> QED BY <2>1, <2>2 DEF LogInv, LogTypeOK, LogPlaces, LogAlone, LogKeepsLines, Writing
  <1>2. CASE Close(c)
    <2>1. /\ Runs(c, "close") /\ at' = [at EXCEPT ![c] = "main"]
          /\ pos' = [pos EXCEPT ![c] = 0] /\ line' = [line EXCEPT ![c] = NoTag]
          /\ UNCHANGED <<log, tag, overlapped, meant, cut>>
      BY <1>2 DEF Close
    <2>2. LogTypeOK' /\ LogPlaces'
      BY <2>1 DEF LogInv, LogTypeOK, LogPlaces
    <2>3. Writing' = Writing /\ \A d \in Writing : d # c
      BY <2>1 DEF LogInv, LogTypeOK, Writing, Runs
    <2>4. LogAlone'
      BY <2>1, <2>3 DEF LogInv, LogTypeOK, LogAlone
    <2> QED BY <2>1, <2>2, <2>4 DEF LogInv, LogKeepsLines
  <1>3. CASE Cut(c)
    <2>1. cut' = {c} /\ cut = {} /\ UNCHANGED <<log, at, pos, line, tag, overlapped, meant>>
      BY <1>3 DEF Cut
    <2>2. Writing' \subseteq Writing
      BY <2>1 DEF Writing
    <2> QED BY <2>1, <2>2 DEF LogInv, LogTypeOK, LogPlaces, LogAlone, LogKeepsLines
  <1> QED BY <1>1, <1>2, <1>3

\* Every step keeps the invariant.
LEMMA LogNextInv == LogInv /\ [LogNext]_logVars => LogInv'
  <1> SUFFICES ASSUME LogInv, [LogNext]_logVars PROVE LogInv'
    OBVIOUS
  <1>1. ASSUME NEW c \in Caller, LogStep(c) PROVE LogInv'
    BY <1>1, LogWrites, LogBegins, LogOthers DEF LogStep, WritePriority, WriteLine
  <1>2. CASE UNCHANGED logVars
    BY <1>2 DEF logVars, LogInv, LogTypeOK, LogPlaces, LogAlone, LogKeepsLines, Writing
  <1> QED BY <1>1, <1>2 DEF LogNext

(***************************************************************************)
(* The type invariant of the log, for any number of processes.             *)
(***************************************************************************)
THEOREM LogTypeCorrect == LogSpec => []LogTypeOK
  <1>1. LogInv => LogTypeOK
    BY DEF LogInv
  <1> QED BY <1>1, LogStart, LogNextInv, PTL DEF LogSpec

(***************************************************************************)
(* vsyslog (syslog.c:83), for any number of processes and of messages: the *)
(* file is what was written to it, in that order, until two processes have *)
(* it open for their messages at once.                                     *)
(***************************************************************************)
THEOREM LogKeepsItsLines == LogSpec => []LogKeepsLines
  <1>1. LogInv => LogKeepsLines
    BY DEF LogInv
  <1> QED BY <1>1, LogStart, LogNextInv, PTL DEF LogSpec
================================================================================
