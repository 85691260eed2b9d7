------------------------------- MODULE FdTable -------------------------------
(***************************************************************************)
(* The descriptor table of ceio.c and cestdio.c in the single-threaded     *)
(* build: every call runs to its end before the next one.                  *)
(*                                                                         *)
(* Slot i of fdtab says whether descriptor i is in use (its field fd is    *)
(* -1 when it is not), of what kind it is, and the operating system's      *)
(* handle.  Closing a slot leaves its handle behind, and fclose and fileno *)
(* look a stream up by its handle alone, in slots that are vacant as well  *)
(* as in slots that are not: that this works depends on the order in which *)
(* slots are handed out.                                                   *)
(***************************************************************************)
EXTENDS Integers

CONSTANTS
    MAXFDS,     \* celib.h: the size of the table
    Handles,    \* what CreateFile, _wfopen and socket return
    NoHandle,   \* the zero of the static table's hFile fields
    Files,      \* FILE pointers
    Liberties   \* which of the calls below the program makes at all

ASSUME SizeAssumption == MAXFDS \in Nat /\ MAXFDS >= 3
ASSUME HandleAssumption == NoHandle \notin Handles
ASSUME StdAssumption == /\ {"stdin", "stdout", "stderr"} \cap Handles = {}
                        /\ NoHandle \notin {"stdin", "stdout", "stderr"}
ASSUME LibertyAssumption == Liberties \subseteq {"socket", "closestd", "freopen"}

VARIABLES
    fdsinitialized,
    fdtab,
    osOpen,     \* the handles the operating system holds open for the process
    stream,     \* stream[f]: fileno(f), the handle under f; NoHandle when f is closed
    lost,       \* history: the handles xceopen opened and returned -1 for
    moved,      \* history: freopen has been called
    call        \* the last call: its name, its descriptor, the object it reached

history == <<lost, moved>>
vars == <<fdsinitialized, fdtab, osOpen, stream, history, call>>

Fds == 0 .. MAXFDS - 1
Types == {"NONE", "FILE", "SOCKET"}

TypeOK ==
    /\ fdsinitialized \in BOOLEAN
    /\ fdtab \in [Fds -> [fd : Fds \cup {-1}, type : Types, hFile : Handles \cup {NoHandle}]]
    /\ osOpen \subseteq Handles
    /\ stream \in [Files -> Handles \cup {NoHandle}]
    /\ lost \subseteq Handles /\ moved \in BOOLEAN

Init ==
    /\ fdsinitialized = FALSE
    /\ fdtab = [i \in Fds |-> [fd |-> 0, type |-> "NONE", hFile |-> NoHandle]]
    /\ osOpen = {}
    /\ stream = [f \in Files |-> NoHandle]
    /\ lost = {} /\ moved = FALSE
    /\ call = [op |-> "start", fd |-> -1, on |-> NoHandle]

Returns(op, fd, o) == call' = [op |-> op, fd |-> fd, on |-> o]

------------------------------------------------------------------------------
(* Helpers of ceio.c *)

\* The test at the head of every call that takes a descriptor.
Live(fd) == fd \in Fds /\ fdtab[fd].fd # -1

\* Mutant of initfds: the loop runs one slot too far (i <= MAXFDS).
initfdsTooFar == IF fdsinitialized THEN fdtab
    ELSE [i \in 0 .. MAXFDS |-> [fd |-> IF i <= 2 THEN i ELSE -1,
                                 type |-> "NONE", hFile |-> NoHandle]]

\* The table once _initfds has returned.
initfds == IF fdsinitialized THEN fdtab
           ELSE [i \in Fds |-> [fdtab[i] EXCEPT !.fd = IF i <= 2 THEN i ELSE -1]]

\* Mutant of getnewfd: the highest vacant slot.
getnewfdHighest(tab, fd) ==
    \/ /\ fd \in Fds /\ tab[fd].fd = -1
       /\ \A i \in Fds : i > fd => tab[i].fd # -1
    \/ fd = -1 /\ \A i \in Fds : tab[i].fd # -1

\* _getnewfd returns fd: the lowest vacant slot of tab, or -1.
getnewfd(tab, fd) ==
    \/ /\ fd \in Fds /\ tab[fd].fd = -1
       /\ \A i \in 0 .. fd - 1 : tab[i].fd # -1
    \/ fd = -1 /\ \A i \in Fds : tab[i].fd # -1

\* Mutant of Install: the handle is not stored.
InstallNoHandle(fd, type, h) ==
    /\ fdsinitialized' = TRUE
    /\ fdtab' = [i \in Fds |-> IF i = fd THEN [initfds[i] EXCEPT !.fd = fd, !.type = type]
                               ELSE initfds[i]]

\* The three stores that follow _getnewfd.  Its result is not tested: with -1
\* they go to the words before the table, and no slot changes.
Install(fd, type, h) ==
    /\ fdsinitialized' = TRUE
    /\ fdtab' = [i \in Fds |-> IF i = fd THEN [fd |-> fd, type |-> type, hFile |-> h]
                               ELSE initfds[i]]

InitOnly == fdsinitialized' = TRUE /\ fdtab' = initfds

------------------------------------------------------------------------------
(* What a program may do.  Unix gives a descriptor under a stream to the    *)
(* stream: it is closed by fclose, and no second stream is opened on it.    *)
Streamed(fd) == \E f \in Files : stream[f] # NoHandle /\ stream[f] = fdtab[fd].hFile
MayClose(fd) == ~(Live(fd) /\ Streamed(fd)) /\ (fd \in 0 .. 2 => "closestd" \in Liberties)

------------------------------------------------------------------------------
(* ceio.c *)

\* xceopen and xcecreat: both end in xceopenw.
xceopen ==
    /\ \/ \E h \in Handles \ osOpen, fd \in Fds \cup {-1} :
             /\ getnewfd(initfds, fd)
             /\ Install(fd, "FILE", h)
             /\ osOpen' = osOpen \cup {h}
             /\ lost' = IF fd = -1 THEN lost \cup {h} ELSE lost
             /\ Returns("open", fd, h)
       \/ /\ InitOnly      \* a bad oflag, or CreateFile fails
          /\ Returns("open", -1, NoHandle)
          /\ UNCHANGED <<osOpen, lost>>
    /\ UNCHANGED <<stream, moved>>

\* Mutant of xceclose: closesocket is never reached, as recv is not in xceread.
xcecloseNoSocket(fd) ==
    /\ MayClose(fd) /\ Live(fd)
    /\ osOpen' = IF fdtab[fd].type = "FILE" THEN osOpen \ {fdtab[fd].hFile} ELSE osOpen
    /\ fdtab' = [fdtab EXCEPT ![fd].fd = -1]
    /\ Returns("close", fd, fdtab[fd].hFile)
    /\ UNCHANGED <<fdsinitialized, stream, history>>

xceclose(fd) ==
    /\ MayClose(fd)
    /\ IF ~Live(fd)
       THEN /\ Returns("close", fd, NoHandle)
            /\ UNCHANGED <<fdtab, osOpen>>
       ELSE /\ osOpen' = IF fdtab[fd].type = "NONE" THEN osOpen
                         ELSE osOpen \ {fdtab[fd].hFile}
            /\ fdtab' = [fdtab EXCEPT ![fd].fd = -1]
            /\ Returns("close", fd, fdtab[fd].hFile)
    /\ UNCHANGED <<fdsinitialized, stream, history>>

\* What read and write reach.  On a socket read does nothing: its branch
\* repeats the test for a file, and the count returned is never set.
ReadTarget(fd) == IF fd = 0 THEN "stdin"
                  ELSE IF fdtab[fd].type = "FILE" THEN fdtab[fd].hFile
                  ELSE NoHandle
WriteTarget(fd) == IF fd = 1 THEN "stdout"
                   ELSE IF fd = 2 THEN "stderr"
                   ELSE IF fdtab[fd].type # "NONE" THEN fdtab[fd].hFile
                   ELSE NoHandle

\* xceread, xcewrite, and the calls that hand hFile on as it is.
Transfer(op, fd) ==
    /\ Returns(op, fd, IF ~Live(fd) THEN NoHandle
                       ELSE CASE op = "read" -> ReadTarget(fd)
                              [] op = "write" -> WriteTarget(fd)
                              [] OTHER -> fdtab[fd].hFile)
    /\ UNCHANGED <<fdsinitialized, fdtab, osOpen, stream, history>>

xceread(fd)  == Transfer("read", fd)
xcewrite(fd) == Transfer("write", fd)
xcelseek(fd) == Transfer("lseek", fd)
xceftruncate(fd) == Transfer("ftruncate", fd)
xcefstat(fd) == Transfer("fstat", fd)

\* A program enters a socket in the exported table itself: the library writes
\* and closes such a slot but has no call that fills one.
AttachSocket ==
    /\ "socket" \in Liberties /\ fdsinitialized
    /\ \E h \in Handles \ osOpen, fd \in Fds :
          /\ getnewfd(fdtab, fd)
          /\ Install(fd, "SOCKET", h)
          /\ osOpen' = osOpen \cup {h}
          /\ Returns("socket", fd, h)
    /\ UNCHANGED <<stream, history>>

------------------------------------------------------------------------------
(* cestdio.c *)

xcefopen(f) ==
    /\ stream[f] = NoHandle
    /\ \/ \E h \in Handles \ osOpen, fd \in Fds \cup {-1} :
             /\ getnewfd(initfds, fd)
             /\ Install(fd, "FILE", h)
             /\ osOpen' = osOpen \cup {h}
             /\ stream' = [stream EXCEPT ![f] = h]
             /\ Returns("fopen", fd, h)
       \/ /\ InitOnly      \* _wfopen fails
          /\ Returns("fopen", -1, NoHandle)
          /\ UNCHANGED <<osOpen, stream>>
    /\ UNCHANGED history

\* Mutant of Lookup: the last slot with the handle.
LookupLast(f, fd) ==
    \/ /\ fd \in Fds /\ fdtab[fd].hFile = stream[f]
       /\ \A i \in Fds : i > fd => fdtab[i].hFile # stream[f]
    \/ fd = -1 /\ \A i \in Fds : fdtab[i].hFile # stream[f]

\* The scan of xcefclose and xcefileno: the first slot with the handle of f,
\* vacant or not; -1 when there is none.
Lookup(f, fd) ==
    \/ /\ fd \in Fds /\ fdtab[fd].hFile = stream[f]
       /\ \A i \in 0 .. fd - 1 : fdtab[i].hFile # stream[f]
    \/ fd = -1 /\ \A i \in Fds : fdtab[i].hFile # stream[f]

\* Mutant of xcefclose: fclose alone, the table is not searched.
xcefcloseNoTable(f) ==
    /\ stream[f] # NoHandle
    /\ osOpen' = osOpen \ {stream[f]}
    /\ stream' = [stream EXCEPT ![f] = NoHandle]
    /\ Returns("fclose", -1, stream[f])
    /\ UNCHANGED <<fdsinitialized, fdtab, history>>

xcefclose(f) ==
    /\ stream[f] # NoHandle
    /\ \E fd \in Fds \cup {-1} :
          /\ Lookup(f, fd)
          /\ fdtab' = [i \in Fds |-> IF i = fd THEN [fdtab[i] EXCEPT !.fd = -1]
                                     ELSE fdtab[i]]
    /\ osOpen' = osOpen \ {stream[f]}
    /\ stream' = [stream EXCEPT ![f] = NoHandle]
    /\ Returns("fclose", -1, stream[f])
    /\ UNCHANGED <<fdsinitialized, history>>

xcefileno(f) ==
    /\ stream[f] # NoHandle
    /\ \E fd \in Fds \cup {-1} :
          /\ Lookup(f, fd)
          /\ Returns("fileno", IF fd = -1 THEN -1 ELSE fdtab[fd].fd, stream[f])
    /\ UNCHANGED <<fdsinitialized, fdtab, osOpen, stream, history>>

\* _wfdopen makes a second FILE over the same handle; it fails on the zero
\* handle of the three standard descriptors.
xcefdopen(f, fd) ==
    /\ stream[f] = NoHandle
    /\ ~(Live(fd) /\ Streamed(fd))
    /\ IF Live(fd) /\ fdtab[fd].type = "FILE"
       THEN /\ stream' = [stream EXCEPT ![f] = fdtab[fd].hFile]
            /\ Returns("fdopen", fd, fdtab[fd].hFile)
       ELSE UNCHANGED stream /\ Returns("fdopen", fd, NoHandle)
    /\ UNCHANGED <<fdsinitialized, fdtab, osOpen, history>>

\* freopen closes the stream's handle and opens another under the same FILE;
\* the table is not told.
xcefreopen(f) ==
    /\ "freopen" \in Liberties
    /\ stream[f] # NoHandle
    /\ \/ \E h \in Handles \ (osOpen \ {stream[f]}) :
             /\ osOpen' = (osOpen \ {stream[f]}) \cup {h}
             /\ stream' = [stream EXCEPT ![f] = h]
             /\ Returns("freopen", -1, h)
       \/ /\ osOpen' = osOpen \ {stream[f]}
          /\ stream' = [stream EXCEPT ![f] = NoHandle]
          /\ Returns("freopen", -1, NoHandle)
    /\ moved' = TRUE
    /\ UNCHANGED <<fdsinitialized, fdtab, lost>>

------------------------------------------------------------------------------
Next ==
    \/ xceopen
    \/ AttachSocket
    \/ \E fd \in Fds \cup {-1} :
          \/ xceclose(fd) \/ xceread(fd) \/ xcewrite(fd) \/ xcelseek(fd)
          \/ xceftruncate(fd) \/ xcefstat(fd)
    \/ \E f \in Files :
          \/ xcefopen(f) \/ xcefclose(f) \/ xcefileno(f) \/ xcefreopen(f)
          \/ \E fd \in Fds \cup {-1} : xcefdopen(f, fd)

Spec == Init /\ [][Next]_vars

------------------------------------------------------------------------------
(* Properties *)

\* A slot in use for a file or a socket.  Before _initfds every slot reads as
\* descriptor 0 with no type.
Holds(i) == fdtab[i].fd # -1 /\ fdtab[i].type # "NONE"

SlotsApart ==
    \A i \in Fds : Holds(i) =>
        /\ fdtab[i].hFile \in osOpen
        /\ \A j \in Fds \ {i} : Holds(j) => fdtab[j].hFile # fdtab[i].hFile

ScansInOrder ==
    \A i, j \in Fds : i < j /\ Holds(j) => fdtab[i].hFile # fdtab[j].hFile

\* Until the first freopen the handle of a slot in use is open, and no other slot
\* in use has it: closing one descriptor (ceio.c:216) never closes what another
\* one reads and writes.
HandleExclusive == ~moved => SlotsApart

\* Until the first freopen the scans by handle of cestdio.c:87 and :103 meet the
\* slot in use before any vacant slot that still remembers the same handle from
\* an earlier open.
StaleOnlyAbove == ~moved => ScansInOrder

\* Every open handle can still be closed by the program: a descriptor or a
\* stream has it, unless xceopen lost it by opening with the table full.
NoOrphan ==
    \A h \in osOpen : \/ h \in lost
                      \/ \E i \in Fds : Holds(i) /\ fdtab[i].hFile = h
                      \/ \E f \in Files : stream[f] = h

\* A program that tests the result of xceopen, as test1.c:20 does, takes a
\* negative one for "cannot open": the call has opened nothing.
FailedOpenOpensNothing ==
    [][call'.op = "open" /\ call'.fd = -1 => osOpen' = osOpen]_vars

\* cestdio.c:52, "needed for xcefileno...": every open stream is entered in the
\* table, so fileno of it is a descriptor in use.
StreamsHaveDescriptors ==
    \A f \in Files : stream[f] # NoHandle =>
        \E i \in Fds : Holds(i) /\ fdtab[i].hFile = stream[f]

StdName(i) == IF i = 0 THEN "stdin" ELSE IF i = 1 THEN "stdout" ELSE "stderr"

\* The table implements descriptors: the object of a slot in use is its handle,
\* and of the three standard slots the C library's streams.
AbstractBound == [i \in Fds |->
    IF (IF fdsinitialized THEN fdtab[i].fd = -1 ELSE i > 2) THEN NoHandle
    ELSE IF fdtab[i].type # "NONE" THEN fdtab[i].hFile
    ELSE StdName(i)]

Unix == INSTANCE Descriptors
            WITH Objects <- Handles, None <- NoHandle,
                 bound <- AbstractBound, streamOn <- stream

\* Every step of the table is a step of Descriptors: the lowest vacant slot is
\* handed out, closing frees that slot only, fileno and fclose find the slot
\* their stream was given, and I/O reaches the slot's own object or nothing.
ImplementsDescriptors == Unix!Spec
==============================================================================
