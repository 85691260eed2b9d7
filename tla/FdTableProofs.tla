---------------------------- MODULE FdTableProofs ----------------------------
(***************************************************************************)
(* The descriptor table keeps handles apart, for every table size and any  *)
(* number of handles and streams, until a stream is moved with freopen;    *)
(* and after that too no handle is orphaned but the ones xceopen loses.    *)
(* In a program that moves no stream, every open stream has a descriptor,  *)
(* and the table is UNIX's table of Descriptors.                           *)
(***************************************************************************)
EXTENDS FdTable, FiniteSetTheorems, TLAPS

\* What a slot looks like: no handle exactly when no type, and nothing at all
\* before _initfds has run.
SlotShape ==
    /\ \A i \in Fds : fdtab[i].type = "NONE" <=> fdtab[i].hFile = NoHandle
    /\ ~fdsinitialized => \A i \in Fds : fdtab[i].type = "NONE"

\* The handle under a stream is open, and under no other stream.
StreamExclusive ==
    \A f \in Files : stream[f] # NoHandle =>
        /\ stream[f] \in osOpen
        /\ \A g \in Files \ {f} : stream[g] # stream[f]

Inv == TypeOK /\ SlotShape /\ SlotsApart /\ ScansInOrder /\ StreamExclusive

\* _initfds changes no handle and no type, and leaves every slot in use that
\* holds something in use: before it none does.
LEMMA InitfdsShape ==
    ASSUME TypeOK, SlotShape
    PROVE  /\ initfds \in [Fds -> [fd : Fds \cup {-1}, type : Types,
                                   hFile : Handles \cup {NoHandle}]]
           /\ \A i \in Fds : /\ initfds[i].hFile = fdtab[i].hFile
                             /\ initfds[i].type = fdtab[i].type
                             /\ initfds[i].type # "NONE" => initfds[i].fd = fdtab[i].fd
  BY SizeAssumption DEF TypeOK, SlotShape, initfds, Fds

\* The initial table satisfies the invariant.
LEMMA InitInv == Init => Inv
  <1> SUFFICES ASSUME Init PROVE Inv
    OBVIOUS
  <1>1. \A i \in Fds : fdtab[i] = [fd |-> 0, type |-> "NONE", hFile |-> NoHandle]
    BY DEF Init
  <1>2. TypeOK
    <2>1. 0 \in Fds
      BY SizeAssumption DEF Fds
    <2>2. [fd |-> 0, type |-> "NONE", hFile |-> NoHandle]
             \in [fd : Fds \cup {-1}, type : Types, hFile : Handles \cup {NoHandle}]
      BY <2>1 DEF Types
    <2>3. QED  BY <2>2 DEF Init, TypeOK
  <1>3. SlotShape /\ SlotsApart /\ ScansInOrder
    BY <1>1 DEF SlotShape, SlotsApart, ScansInOrder, Holds
  <1>4. StreamExclusive
    BY DEF Init, StreamExclusive
  <1>5. QED  BY <1>2, <1>3, <1>4 DEF Inv

\* Entering a handle that was not open in the slot _getnewfd returns.
LEMMA InstallInv ==
    ASSUME Inv,
           NEW h \in Handles \ osOpen, NEW fd \in Fds \cup {-1},
           NEW type \in {"FILE", "SOCKET"},
           getnewfd(initfds, fd), Install(fd, type, h), osOpen' = osOpen \cup {h}
    PROVE  /\ fdtab' \in [Fds -> [fd : Fds \cup {-1}, type : Types,
                                  hFile : Handles \cup {NoHandle}]]
           /\ SlotShape' /\ SlotsApart' /\ ScansInOrder'
  <1> USE SizeAssumption, HandleAssumption
  <1>1. \A i \in Fds : /\ initfds[i].hFile = fdtab[i].hFile
                       /\ initfds[i].type = fdtab[i].type
                       /\ initfds[i].type # "NONE" => initfds[i].fd = fdtab[i].fd
    BY InitfdsShape DEF Inv
  <1>2. initfds \in [Fds -> [fd : Fds \cup {-1}, type : Types,
                             hFile : Handles \cup {NoHandle}]]
    BY InitfdsShape DEF Inv
  <1>3. /\ fdsinitialized' = TRUE
        /\ fdtab' = [i \in Fds |-> IF i = fd THEN [fd |-> fd, type |-> type, hFile |-> h]
                                   ELSE initfds[i]]
    BY DEF Install
  <1>4. fdtab' \in [Fds -> [fd : Fds \cup {-1}, type : Types,
                            hFile : Handles \cup {NoHandle}]]
    <2>1. fd \in Fds => [fd |-> fd, type |-> type, hFile |-> h] \in
             [fd : Fds \cup {-1}, type : Types, hFile : Handles \cup {NoHandle}]
      BY DEF Types
    <2>2. QED  BY <1>2, <1>3, <2>1
  <1>5. \A i \in Fds \ {fd} : /\ fdtab'[i].hFile = fdtab[i].hFile
                              /\ fdtab'[i].type = fdtab[i].type
                              /\ Holds(i)' <=> Holds(i)
    BY <1>1, <1>2, <1>3 DEF Holds
  <1>6. fd \in Fds => fdtab'[fd].hFile = h /\ fdtab'[fd].type = type
    BY <1>3
  <1>7. SlotShape'
    BY <1>3, <1>5, <1>6 DEF Inv, SlotShape
  <1>8. SlotsApart'
    BY <1>5, <1>6 DEF Inv, SlotsApart
  <1>9. ScansInOrder'
    <2> SUFFICES ASSUME NEW i \in Fds, NEW j \in Fds, i < j, Holds(j)'
                 PROVE  fdtab'[i].hFile # fdtab'[j].hFile
      BY DEF ScansInOrder
    <2>1. CASE j = fd
      \* Every slot below the one handed out is in use, so its handle is open.
      <3>1. initfds[i].fd # -1
        BY <2>1 DEF getnewfd, Fds
      <3>2. fdtab[i].type = "NONE" \/ fdtab[i].hFile \in osOpen
        BY <1>1, <3>1 DEF Inv, SlotsApart, Holds
      <3>3. fdtab[i].hFile # h
        BY <3>2 DEF Inv, SlotShape
      <3>4. QED  BY <2>1, <3>3, <1>5, <1>6 DEF Fds
    <2>2. CASE i = fd
      BY <2>2, <1>5, <1>6 DEF Inv, SlotsApart, Fds
    <2>3. CASE i # fd /\ j # fd
      BY <2>3, <1>5 DEF Inv, ScansInOrder
    <2>4. QED  BY <2>1, <2>2, <2>3
  <1>10. QED  BY <1>4, <1>7, <1>8, <1>9

\* Vacating one slot, which the caller has shown to be the only one in use with
\* the handle being closed, if a handle is closed at all.
LEMMA VacateInv ==
    ASSUME Inv, NEW fd \in Fds \cup {-1}, NEW closed,
           fdtab' = [i \in Fds |-> IF i = fd THEN [fdtab[i] EXCEPT !.fd = -1] ELSE fdtab[i]],
           \A i \in Fds \ {fd} : Holds(i) => fdtab[i].hFile # closed,
           osOpen' = osOpen \ {closed}, UNCHANGED fdsinitialized
    PROVE  /\ fdtab' \in [Fds -> [fd : Fds \cup {-1}, type : Types,
                                  hFile : Handles \cup {NoHandle}]]
           /\ SlotShape' /\ SlotsApart' /\ ScansInOrder'
  <1>1. fdtab \in [Fds -> [fd : Fds \cup {-1}, type : Types,
                           hFile : Handles \cup {NoHandle}]]
    BY DEF Inv, TypeOK
  <1>2. \A i \in Fds : /\ fdtab'[i].hFile = fdtab[i].hFile
                       /\ fdtab'[i].type = fdtab[i].type
                       /\ Holds(i)' => Holds(i) /\ i # fd
    BY <1>1 DEF Holds
  <1>3. fdtab' \in [Fds -> [fd : Fds \cup {-1}, type : Types,
                            hFile : Handles \cup {NoHandle}]]
    BY <1>1
  <1>4. SlotShape'
    BY <1>2 DEF Inv, SlotShape
  <1>5. SlotsApart'
    BY <1>2 DEF Inv, SlotsApart
  <1>6. ScansInOrder'
    BY <1>2 DEF Inv, ScansInOrder
  <1>7. QED  BY <1>3, <1>4, <1>5, <1>6

\* The invariant over a step that leaves the table, or all but _initfds, alone.
LEMMA TableStaysInv ==
    ASSUME Inv,
           \/ UNCHANGED <<fdsinitialized, fdtab>>
           \/ InitOnly,
           UNCHANGED osOpen
    PROVE  /\ fdtab' \in [Fds -> [fd : Fds \cup {-1}, type : Types,
                                  hFile : Handles \cup {NoHandle}]]
           /\ SlotShape' /\ SlotsApart' /\ ScansInOrder'
  <1>1. CASE UNCHANGED <<fdsinitialized, fdtab>>
    BY <1>1 DEF Inv, TypeOK, SlotShape, SlotsApart, ScansInOrder, Holds
  <1>2. CASE InitOnly
    <2>1. fdtab' = initfds /\ fdsinitialized' = TRUE
      BY <1>2 DEF InitOnly
    <2>2. /\ fdtab' \in [Fds -> [fd : Fds \cup {-1}, type : Types,
                                 hFile : Handles \cup {NoHandle}]]
          /\ \A i \in Fds : /\ fdtab'[i].hFile = fdtab[i].hFile
                            /\ fdtab'[i].type = fdtab[i].type
                            /\ Holds(i)' => Holds(i)
      BY <2>1, InitfdsShape DEF Inv, Holds
    <2>3. QED
      BY <2>1, <2>2 DEF Inv, SlotShape, SlotsApart, ScansInOrder
  <1>3. QED  BY <1>1, <1>2

\* The calls leave moved alone, but for freopen, which sets it.
LEMMA MovedStays == [Next]_vars /\ moved \in BOOLEAN => moved' \in BOOLEAN /\ (moved => moved')
  <1>1. xceopen \/ AttachSocket \/ UNCHANGED vars => UNCHANGED moved
    BY DEF xceopen, AttachSocket, vars, history
  <1>2. ASSUME NEW fd \in Fds \cup {-1}
        PROVE  xceclose(fd) \/ xceread(fd) \/ xcewrite(fd) \/ xcelseek(fd)
                  \/ xceftruncate(fd) \/ xcefstat(fd) => UNCHANGED moved
    BY DEF xceclose, xceread, xcewrite, xcelseek, xceftruncate, xcefstat, Transfer, history
  <1>3. ASSUME NEW f \in Files
        PROVE  /\ xcefopen(f) \/ xcefclose(f) \/ xcefileno(f) => UNCHANGED moved
               /\ xcefreopen(f) => moved' = TRUE
               /\ \A fd \in Fds \cup {-1} : xcefdopen(f, fd) => UNCHANGED moved
    BY DEF xcefopen, xcefclose, xcefileno, xcefreopen, xcefdopen, history
  <1>4. QED  BY <1>1, <1>2, <1>3 DEF Next

\* One action of Next that may change the table.
LEMMA NextInv ==
    ASSUME Inv, [Next]_vars, ~moved'
    PROVE  Inv'
  <1>m. moved' \in BOOLEAN
    BY MovedStays DEF Inv, TypeOK
  <1> USE HandleAssumption, <1>m DEF history
  <1>0. /\ stream \in [Files -> Handles \cup {NoHandle}]
        /\ fdtab \in [Fds -> [fd : Fds \cup {-1}, type : Types,
                              hFile : Handles \cup {NoHandle}]]
        /\ osOpen \subseteq Handles /\ lost \subseteq Handles
    BY DEF Inv, TypeOK
  <1>1. CASE xceopen
    <2>1. ASSUME NEW h \in Handles \ osOpen, NEW fd \in Fds \cup {-1},
                 getnewfd(initfds, fd), Install(fd, "FILE", h),
                 osOpen' = osOpen \cup {h},
                 lost' = IF fd = -1 THEN lost \cup {h} ELSE lost, UNCHANGED stream
          PROVE  Inv'
      <3>1. /\ fdtab' \in [Fds -> [fd : Fds \cup {-1}, type : Types,
                                   hFile : Handles \cup {NoHandle}]]
            /\ SlotShape' /\ SlotsApart' /\ ScansInOrder'
        BY <2>1, InstallInv
      <3>2. TypeOK'
        BY <1>0, <2>1, <3>1 DEF TypeOK, Install
      <3>3. StreamExclusive'
        BY <2>1 DEF Inv, StreamExclusive
      <3>4. QED  BY <3>1, <3>2, <3>3 DEF Inv
    <2>2. ASSUME InitOnly, UNCHANGED <<osOpen, lost, stream>>
          PROVE  Inv'
      <3>1. /\ fdtab' \in [Fds -> [fd : Fds \cup {-1}, type : Types,
                                   hFile : Handles \cup {NoHandle}]]
            /\ SlotShape' /\ SlotsApart' /\ ScansInOrder'
        BY <2>2, TableStaysInv
      <3>2. TypeOK' /\ StreamExclusive'
        BY <1>0, <2>2, <3>1 DEF TypeOK, InitOnly, Inv, StreamExclusive
      <3>3. QED  BY <3>1, <3>2 DEF Inv
    <2>3. QED  BY <1>1, <2>1, <2>2 DEF xceopen
  <1>2. CASE AttachSocket
    <2>1. PICK h \in Handles \ osOpen, fd \in Fds :
             /\ getnewfd(fdtab, fd) /\ Install(fd, "SOCKET", h)
             /\ osOpen' = osOpen \cup {h}
      BY <1>2 DEF AttachSocket
    <2>2. initfds = fdtab /\ UNCHANGED <<stream, lost>>
      BY <1>2 DEF AttachSocket, initfds
    <2>3. /\ fdtab' \in [Fds -> [fd : Fds \cup {-1}, type : Types,
                                 hFile : Handles \cup {NoHandle}]]
          /\ SlotShape' /\ SlotsApart' /\ ScansInOrder'
      BY <2>1, <2>2, InstallInv
    <2>4. TypeOK' /\ StreamExclusive'
      BY <1>0, <2>1, <2>2, <2>3 DEF TypeOK, Install, Inv, StreamExclusive
    <2>5. QED  BY <2>3, <2>4 DEF Inv
  <1>3. ASSUME NEW fd \in Fds \cup {-1}, xceclose(fd)
        PROVE  Inv'
    <2>1. CASE ~Live(fd)
      BY <1>3, <2>1
      DEF xceclose, Inv, TypeOK, SlotShape, SlotsApart, ScansInOrder,
          Holds, StreamExclusive
    <2>2. CASE Live(fd)
      <3>1. /\ fd \in Fds /\ fdtab[fd].fd # -1
            /\ fdtab' = [i \in Fds |-> IF i = fd THEN [fdtab[i] EXCEPT !.fd = -1]
                                       ELSE fdtab[i]]
            /\ UNCHANGED <<fdsinitialized, stream, lost>>
        BY <1>0, <1>3, <2>2 DEF xceclose, Live
      <3>2. \A f \in Files : stream[f] = NoHandle \/ stream[f] # fdtab[fd].hFile
        BY <1>3, <2>2 DEF xceclose, MayClose, Streamed
      \* Closing a standard slot closes no handle.
      <3>3. osOpen' = osOpen \ {fdtab[fd].hFile}
        <4>1. CASE fdtab[fd].type = "NONE"
          <5>1. fdtab[fd].hFile \notin osOpen
            BY <1>0, <3>1, <4>1 DEF Inv, SlotShape
          <5>2. QED  BY <1>3, <2>2, <4>1, <5>1 DEF xceclose
        <4>2. CASE fdtab[fd].type # "NONE"
          BY <1>3, <2>2, <4>2 DEF xceclose
        <4>3. QED  BY <4>1, <4>2
      <3>4. \A i \in Fds \ {fd} : Holds(i) => fdtab[i].hFile # fdtab[fd].hFile
        BY <1>0, <3>1 DEF Inv, SlotShape, SlotsApart, Holds
      <3>5. /\ fdtab' \in [Fds -> [fd : Fds \cup {-1}, type : Types,
                                   hFile : Handles \cup {NoHandle}]]
            /\ SlotShape' /\ SlotsApart' /\ ScansInOrder'
        BY <3>1, <3>3, <3>4, VacateInv
      <3>6. TypeOK' /\ StreamExclusive'
        BY <1>0, <3>1, <3>2, <3>3, <3>5 DEF TypeOK, Inv, StreamExclusive
      <3>7. QED  BY <3>5, <3>6 DEF Inv
    <2>3. QED  BY <2>1, <2>2
  <1>4. CASE UNCHANGED <<fdsinitialized, fdtab, osOpen, stream, lost>>
    BY <1>4 DEF Inv, TypeOK, SlotShape, SlotsApart, ScansInOrder,
                Holds, StreamExclusive
  <1>5. ASSUME NEW f \in Files, xcefopen(f)
        PROVE  Inv'
    <2>1. ASSUME NEW h \in Handles \ osOpen, NEW fd \in Fds \cup {-1},
                 getnewfd(initfds, fd), Install(fd, "FILE", h),
                 osOpen' = osOpen \cup {h},
                 stream' = [stream EXCEPT ![f] = h], UNCHANGED lost
          PROVE  Inv'
      <3>1. /\ fdtab' \in [Fds -> [fd : Fds \cup {-1}, type : Types,
                                   hFile : Handles \cup {NoHandle}]]
            /\ SlotShape' /\ SlotsApart' /\ ScansInOrder'
        BY <2>1, InstallInv
      <3>2. TypeOK'
        BY <1>0, <2>1, <3>1 DEF TypeOK, Install
      <3>3. StreamExclusive'
        BY <1>0, <2>1 DEF Inv, StreamExclusive
      <3>4. QED  BY <3>1, <3>2, <3>3 DEF Inv
    <2>2. ASSUME InitOnly, UNCHANGED <<osOpen, lost, stream>>
          PROVE  Inv'
      <3>1. /\ fdtab' \in [Fds -> [fd : Fds \cup {-1}, type : Types,
                                   hFile : Handles \cup {NoHandle}]]
            /\ SlotShape' /\ SlotsApart' /\ ScansInOrder'
        BY <2>2, TableStaysInv
      <3>2. TypeOK' /\ StreamExclusive'
        BY <1>0, <2>2, <3>1 DEF TypeOK, InitOnly, Inv, StreamExclusive
      <3>3. QED  BY <3>1, <3>2 DEF Inv
    <2>3. QED  BY <1>5, <2>1, <2>2 DEF xcefopen
  <1>6. ASSUME NEW f \in Files, xcefclose(f)
        PROVE  Inv'
    <2>1. PICK fd \in Fds \cup {-1} :
             /\ Lookup(f, fd)
             /\ fdtab' = [i \in Fds |-> IF i = fd THEN [fdtab[i] EXCEPT !.fd = -1]
                                        ELSE fdtab[i]]
      BY <1>6 DEF xcefclose
    <2>2. /\ stream[f] # NoHandle /\ osOpen' = osOpen \ {stream[f]}
          /\ stream' = [stream EXCEPT ![f] = NoHandle]
          /\ UNCHANGED <<fdsinitialized, lost>>
      BY <1>6 DEF xcefclose
    \* The slot found is the only one that can hold the handle in use: one below
    \* would have been found first, one above would have no such handle below it.
    <2>3. \A i \in Fds \ {fd} : Holds(i) => fdtab[i].hFile # stream[f]
      <3> SUFFICES ASSUME NEW i \in Fds \ {fd}, Holds(i), fdtab[i].hFile = stream[f]
                   PROVE  FALSE
        OBVIOUS
      <3>1. fd \in Fds /\ fdtab[fd].hFile = stream[f] /\ ~(i \in 0 .. fd - 1)
        BY <2>1 DEF Lookup
      <3>2. fd < i
        BY <3>1, SizeAssumption DEF Fds
      <3>3. QED  BY <3>1, <3>2 DEF Inv, ScansInOrder
    <2>4. /\ fdtab' \in [Fds -> [fd : Fds \cup {-1}, type : Types,
                                 hFile : Handles \cup {NoHandle}]]
          /\ SlotShape' /\ SlotsApart' /\ ScansInOrder'
      BY <2>1, <2>2, <2>3, VacateInv
    <2>5. TypeOK'
      BY <1>0, <2>2, <2>4 DEF TypeOK, Inv
    <2>6. StreamExclusive'
      BY <1>0, <2>2 DEF Inv, StreamExclusive
    <2>7. QED  BY <2>4, <2>5, <2>6 DEF Inv
  <1>7. ASSUME NEW f \in Files, NEW fd \in Fds \cup {-1}, xcefdopen(f, fd)
        PROVE  Inv'
    <2>1. UNCHANGED <<fdsinitialized, fdtab, osOpen, lost>>
      BY <1>7 DEF xcefdopen
    <2>2. /\ fdtab' \in [Fds -> [fd : Fds \cup {-1}, type : Types,
                                 hFile : Handles \cup {NoHandle}]]
          /\ SlotShape' /\ SlotsApart' /\ ScansInOrder'
      BY <2>1, TableStaysInv
    <2>3. CASE Live(fd) /\ fdtab[fd].type = "FILE"
      <3>1. /\ fd \in Fds /\ stream' = [stream EXCEPT ![f] = fdtab[fd].hFile]
            /\ \A g \in Files : stream[g] = NoHandle \/ stream[g] # fdtab[fd].hFile
        BY <1>7, <2>3 DEF xcefdopen, Live, Streamed
      <3>2. fdtab[fd].hFile \in osOpen
        BY <2>3, <3>1 DEF Inv, SlotsApart, Holds, Live
      <3>3. TypeOK'
        BY <1>0, <2>1, <2>2, <3>1, <3>2 DEF TypeOK, Inv
      <3>4. StreamExclusive'
        BY <1>0, <2>1, <3>1, <3>2 DEF Inv, StreamExclusive
      <3>5. QED  BY <2>2, <3>3, <3>4 DEF Inv
    <2>4. CASE ~(Live(fd) /\ fdtab[fd].type = "FILE")
      BY <1>7, <2>1, <2>2, <2>4 DEF xcefdopen, Inv, TypeOK, StreamExclusive
    <2>5. QED  BY <2>3, <2>4
  <1>8. QED
    <2>1. CASE UNCHANGED vars
      BY <1>4, <2>1 DEF vars
    <2>2. ASSUME NEW fd \in Fds \cup {-1},
                 \/ xceread(fd) \/ xcewrite(fd) \/ xcelseek(fd)
                 \/ xceftruncate(fd) \/ xcefstat(fd)
          PROVE  Inv'
      BY <1>4, <2>2 DEF xceread, xcewrite, xcelseek, xceftruncate, xcefstat, Transfer
    <2>3. ASSUME NEW f \in Files, xcefileno(f)
          PROVE  Inv'
      BY <1>4, <2>3 DEF xcefileno
    <2>4. ASSUME NEW f \in Files, xcefreopen(f)
          PROVE  Inv'
      BY <2>4 DEF xcefreopen
    <2>5. QED
      BY <1>1, <1>2, <1>3, <1>5, <1>6, <1>7, <2>1, <2>2, <2>3, <2>4 DEF Next

\* The invariant holds until the first freopen.
LEMMA InvUntilMoved == Spec => [](moved \in BOOLEAN /\ (~moved => Inv))
  <1> DEFINE IInv == moved \in BOOLEAN /\ (~moved => Inv)
  <1>1. Init => IInv
    BY InitInv DEF Init
  <1>2. IInv /\ [Next]_vars => IInv'
    <2> SUFFICES ASSUME IInv, [Next]_vars PROVE IInv'
      OBVIOUS
    <2>1. moved' \in BOOLEAN /\ (moved => moved')
      BY MovedStays
    <2>2. ASSUME ~moved' PROVE Inv'
      BY <2>1, <2>2, NextInv
    <2>3. QED  BY <2>1, <2>2
  <1>3. QED  BY <1>1, <1>2, PTL DEF Spec

\* Until the first freopen the handles of the slots in use are open and pairwise
\* different (ceio.c:194-220), whatever the size of the table.
THEOREM HandlesStayExclusive == Spec => []HandleExclusive
  <1>1. (moved \in BOOLEAN /\ (~moved => Inv)) => HandleExclusive
    BY DEF Inv, HandleExclusive
  <1>2. QED  BY <1>1, InvUntilMoved, PTL

\* Until the first freopen the scans of cestdio.c:87 and :103 never stop at a
\* vacant slot below the one in use.
THEOREM ScansFindTheSlotInUse == Spec => []StaleOnlyAbove
  <1>1. (moved \in BOOLEAN /\ (~moved => Inv)) => StaleOnlyAbove
    BY DEF Inv, StaleOnlyAbove
  <1>2. QED  BY <1>1, InvUntilMoved, PTL

------------------------------------------------------------------------------
(* With freopen too: types, and who still has an open handle.                *)

WeakInv == TypeOK /\ SlotShape /\ NoOrphan

SlotSet == [fd : Fds \cup {-1}, type : Types, hFile : Handles \cup {NoHandle}]

\* A slot that takes a newly opened handle was vacant, so nothing loses its owner.
LEMMA InstallWeak ==
    ASSUME WeakInv,
           NEW h \in Handles \ osOpen, NEW fd \in Fds \cup {-1},
           NEW type \in {"FILE", "SOCKET"},
           getnewfd(initfds, fd), Install(fd, type, h)
    PROVE  /\ fdtab' \in [Fds -> SlotSet]
           /\ SlotShape'
           /\ \A i \in Fds : Holds(i) => Holds(i)' /\ fdtab'[i].hFile = fdtab[i].hFile
           /\ fd \in Fds => Holds(fd)' /\ fdtab'[fd].hFile = h
  <1> USE HandleAssumption
  <1>1. /\ initfds \in [Fds -> SlotSet]
        /\ \A i \in Fds : /\ initfds[i].hFile = fdtab[i].hFile
                          /\ initfds[i].type = fdtab[i].type
                          /\ initfds[i].type # "NONE" => initfds[i].fd = fdtab[i].fd
    BY InitfdsShape DEF WeakInv, SlotSet
  <1>2. /\ fdsinitialized' = TRUE
        /\ fdtab' = [i \in Fds |-> IF i = fd THEN [fd |-> fd, type |-> type, hFile |-> h]
                                   ELSE initfds[i]]
    BY DEF Install
  <1>3. fdtab' \in [Fds -> SlotSet]
    <2>1. fd \in Fds => [fd |-> fd, type |-> type, hFile |-> h] \in SlotSet
      BY DEF Types, SlotSet
    <2>2. QED  BY <1>1, <1>2, <2>1
  <1>4. fd \in Fds => Holds(fd)' /\ fdtab'[fd].hFile = h /\ fdtab'[fd].type = type
    BY <1>2, SizeAssumption DEF Holds, Fds
  <1>5. \A i \in Fds \ {fd} : /\ fdtab'[i].hFile = fdtab[i].hFile
                              /\ fdtab'[i].type = fdtab[i].type
                              /\ Holds(i)' <=> Holds(i)
    BY <1>1, <1>2 DEF Holds
  <1>6. SlotShape'
    BY <1>2, <1>4, <1>5 DEF WeakInv, SlotShape
  <1>7. fd \in Fds => ~Holds(fd)
    BY <1>1, SizeAssumption DEF getnewfd, Holds, Fds
  <1>8. QED  BY <1>3, <1>4, <1>5, <1>6, <1>7

\* Vacating a slot whose handle is closed in the same step.
LEMMA VacateWeak ==
    ASSUME WeakInv, NEW fd \in Fds \cup {-1},
           fdtab' = [i \in Fds |-> IF i = fd THEN [fdtab[i] EXCEPT !.fd = -1] ELSE fdtab[i]],
           UNCHANGED fdsinitialized
    PROVE  /\ fdtab' \in [Fds -> SlotSet]
           /\ SlotShape'
           /\ \A i \in Fds \ {fd} :
                 Holds(i) => Holds(i)' /\ fdtab'[i].hFile = fdtab[i].hFile
  <1>1. fdtab \in [Fds -> SlotSet]
    BY DEF WeakInv, TypeOK, SlotSet
  <1>2. fdtab' \in [Fds -> SlotSet]
    BY <1>1 DEF SlotSet
  <1>3. \A i \in Fds : /\ fdtab'[i].hFile = fdtab[i].hFile
                       /\ fdtab'[i].type = fdtab[i].type
                       /\ i # fd => fdtab'[i] = fdtab[i]
    BY <1>1 DEF SlotSet
  <1>4. SlotShape'
    BY <1>3 DEF WeakInv, SlotShape
  <1>5. QED  BY <1>2, <1>3, <1>4 DEF Holds

\* _initfds alone.
LEMMA InitOnlyWeak ==
    ASSUME WeakInv, InitOnly
    PROVE  /\ fdtab' \in [Fds -> SlotSet]
           /\ SlotShape'
           /\ \A i \in Fds : Holds(i) => Holds(i)' /\ fdtab'[i].hFile = fdtab[i].hFile
  <1>1. fdtab' = initfds /\ fdsinitialized' = TRUE
    BY DEF InitOnly
  <1>2. QED
    BY <1>1, InitfdsShape DEF WeakInv, SlotSet, SlotShape, Holds

\* Every step, freopen included, preserves the three parts of WeakInv.
LEMMA NextWeak ==
    ASSUME WeakInv, [Next]_vars
    PROVE  WeakInv'
  <1>m. moved' \in BOOLEAN
    BY MovedStays DEF WeakInv, TypeOK
  <1> USE HandleAssumption, <1>m DEF history
  <1>0. /\ stream \in [Files -> Handles \cup {NoHandle}]
        /\ fdtab \in [Fds -> SlotSet] /\ fdsinitialized \in BOOLEAN
        /\ osOpen \subseteq Handles /\ lost \subseteq Handles
    BY DEF WeakInv, TypeOK, SlotSet
  <1>t. ASSUME fdtab' \in [Fds -> SlotSet], fdsinitialized' \in BOOLEAN,
               osOpen' \subseteq Handles, lost' \subseteq Handles,
               stream' \in [Files -> Handles \cup {NoHandle}]
        PROVE  TypeOK'
    BY <1>t DEF TypeOK, SlotSet
  <1>1. CASE UNCHANGED <<fdsinitialized, fdtab, osOpen, stream, lost>>
    BY <1>1 DEF WeakInv, TypeOK, SlotShape, NoOrphan, Holds
  <1>2. ASSUME InitOnly, UNCHANGED <<osOpen, lost, stream>>
        PROVE  WeakInv'
    BY <1>0, <1>t, <1>2, InitOnlyWeak DEF WeakInv, NoOrphan, InitOnly
  <1>3. CASE xceopen
    <2>1. ASSUME NEW h \in Handles \ osOpen, NEW fd \in Fds \cup {-1},
                 getnewfd(initfds, fd), Install(fd, "FILE", h),
                 osOpen' = osOpen \cup {h},
                 lost' = IF fd = -1 THEN lost \cup {h} ELSE lost, UNCHANGED stream
          PROVE  WeakInv'
      <3>1. /\ fdtab' \in [Fds -> SlotSet] /\ SlotShape' /\ fdsinitialized' = TRUE
            /\ \A i \in Fds : Holds(i) => Holds(i)' /\ fdtab'[i].hFile = fdtab[i].hFile
            /\ fd \in Fds => Holds(fd)' /\ fdtab'[fd].hFile = h
        BY <2>1, InstallWeak DEF Install
      <3>2. NoOrphan'
        BY <2>1, <3>1 DEF WeakInv, NoOrphan
      <3>3. QED  BY <1>0, <1>t, <2>1, <3>1, <3>2 DEF WeakInv
    <2>2. QED  BY <1>2, <1>3, <2>1 DEF xceopen
  <1>4. CASE AttachSocket
    <2>1. PICK h \in Handles \ osOpen, fd \in Fds :
             /\ getnewfd(fdtab, fd) /\ Install(fd, "SOCKET", h)
             /\ osOpen' = osOpen \cup {h}
      BY <1>4 DEF AttachSocket
    <2>2. initfds = fdtab /\ UNCHANGED <<stream, lost>>
      BY <1>4 DEF AttachSocket, initfds
    <2>3. /\ fdtab' \in [Fds -> SlotSet] /\ SlotShape' /\ fdsinitialized' = TRUE
          /\ \A i \in Fds : Holds(i) => Holds(i)' /\ fdtab'[i].hFile = fdtab[i].hFile
          /\ Holds(fd)' /\ fdtab'[fd].hFile = h
      BY <2>1, <2>2, InstallWeak DEF Install
    <2>4. NoOrphan'
      BY <2>1, <2>2, <2>3 DEF WeakInv, NoOrphan
    <2>5. QED  BY <1>0, <1>t, <2>1, <2>2, <2>3, <2>4 DEF WeakInv
  <1>5. ASSUME NEW fd \in Fds \cup {-1}, xceclose(fd), Live(fd)
        PROVE  WeakInv'
    <2>1. /\ fd \in Fds /\ fdtab[fd].fd # -1
          /\ fdtab' = [i \in Fds |-> IF i = fd THEN [fdtab[i] EXCEPT !.fd = -1]
                                     ELSE fdtab[i]]
          /\ UNCHANGED <<fdsinitialized, stream, lost>>
          /\ osOpen' = IF fdtab[fd].type = "NONE" THEN osOpen
                       ELSE osOpen \ {fdtab[fd].hFile}
      BY <1>0, <1>5 DEF xceclose, Live
    <2>2. /\ fdtab' \in [Fds -> SlotSet] /\ SlotShape'
          /\ \A i \in Fds \ {fd} :
                Holds(i) => Holds(i)' /\ fdtab'[i].hFile = fdtab[i].hFile
      BY <2>1, VacateWeak
    <2>3. NoOrphan'
      <3> SUFFICES ASSUME NEW h \in osOpen', h \notin lost',
                          \A f \in Files : stream'[f] # h
                   PROVE  \E i \in Fds : Holds(i)' /\ fdtab'[i].hFile = h
        BY DEF NoOrphan
      <3>1. PICK i \in Fds : Holds(i) /\ fdtab[i].hFile = h
        BY <2>1 DEF WeakInv, NoOrphan
      <3>2. i # fd
        BY <2>1, <3>1 DEF Holds
      <3>3. QED  BY <2>2, <3>1, <3>2
    <2>4. QED  BY <1>0, <1>t, <2>1, <2>2, <2>3 DEF WeakInv
  <1>6. ASSUME NEW f \in Files, xcefopen(f)
        PROVE  WeakInv'
    <2>1. ASSUME NEW h \in Handles \ osOpen, NEW fd \in Fds \cup {-1},
                 getnewfd(initfds, fd), Install(fd, "FILE", h),
                 osOpen' = osOpen \cup {h}, stream[f] = NoHandle,
                 stream' = [stream EXCEPT ![f] = h], UNCHANGED lost
          PROVE  WeakInv'
      <3>1. /\ fdtab' \in [Fds -> SlotSet] /\ SlotShape' /\ fdsinitialized' = TRUE
            /\ \A i \in Fds : Holds(i) => Holds(i)' /\ fdtab'[i].hFile = fdtab[i].hFile
        BY <2>1, InstallWeak DEF Install
      <3>2. /\ stream'[f] = h /\ \A g \in Files \ {f} : stream'[g] = stream[g]
            /\ stream' \in [Files -> Handles \cup {NoHandle}]
        BY <1>0, <2>1
      <3>3. NoOrphan'
        BY <1>0, <2>1, <3>1, <3>2 DEF WeakInv, NoOrphan
      <3>4. QED  BY <1>0, <1>t, <2>1, <3>1, <3>2, <3>3 DEF WeakInv
    <2>2. QED  BY <1>2, <1>6, <2>1 DEF xcefopen
  <1>7. ASSUME NEW f \in Files, xcefclose(f)
        PROVE  WeakInv'
    <2>1. PICK fd \in Fds \cup {-1} :
             /\ Lookup(f, fd)
             /\ fdtab' = [i \in Fds |-> IF i = fd THEN [fdtab[i] EXCEPT !.fd = -1]
                                        ELSE fdtab[i]]
      BY <1>7 DEF xcefclose
    <2>2. /\ stream[f] # NoHandle /\ osOpen' = osOpen \ {stream[f]}
          /\ stream' = [stream EXCEPT ![f] = NoHandle]
          /\ UNCHANGED <<fdsinitialized, lost>>
      BY <1>7 DEF xcefclose
    <2>3. /\ fdtab' \in [Fds -> SlotSet] /\ SlotShape'
          /\ \A i \in Fds \ {fd} :
                Holds(i) => Holds(i)' /\ fdtab'[i].hFile = fdtab[i].hFile
      BY <2>1, <2>2, VacateWeak
    <2>4. fd \in Fds => fdtab[fd].hFile = stream[f]
      BY <2>1, SizeAssumption DEF Lookup, Fds
    <2>5. /\ \A g \in Files \ {f} : stream'[g] = stream[g]
          /\ stream' \in [Files -> Handles \cup {NoHandle}]
      BY <1>0, <2>2
    <2>6. NoOrphan'
      BY <1>0, <2>2, <2>3, <2>4, <2>5 DEF WeakInv, NoOrphan
    <2>7. QED  BY <1>0, <1>t, <2>2, <2>3, <2>5, <2>6 DEF WeakInv
  <1>8. ASSUME NEW f \in Files, NEW fd \in Fds \cup {-1}, xcefdopen(f, fd)
        PROVE  WeakInv'
    <2>1. /\ UNCHANGED <<fdsinitialized, fdtab, osOpen, lost>> /\ stream[f] = NoHandle
          /\ UNCHANGED stream \/ (fd \in Fds /\ stream' = [stream EXCEPT ![f] = fdtab[fd].hFile])
      BY <1>8 DEF xcefdopen, Live
    <2>2. /\ \A g \in Files \ {f} : stream'[g] = stream[g]
          /\ stream' \in [Files -> Handles \cup {NoHandle}]
      BY <1>0, <2>1 DEF SlotSet
    <2>3. NoOrphan' /\ SlotShape'
      BY <1>0, <2>1, <2>2 DEF WeakInv, NoOrphan, SlotShape, Holds
    <2>4. QED  BY <1>0, <1>t, <2>1, <2>2, <2>3 DEF WeakInv
  <1>9. ASSUME NEW f \in Files, xcefreopen(f)
        PROVE  WeakInv'
    <2>1. /\ UNCHANGED <<fdsinitialized, fdtab, lost>> /\ stream[f] # NoHandle
          /\ \E h \in Handles \cup {NoHandle} :
                /\ stream' = [stream EXCEPT ![f] = h]
                /\ osOpen' = (osOpen \ {stream[f]}) \cup ({h} \ {NoHandle})
      BY <1>0, <1>9 DEF xcefreopen
    <2>2. /\ \A g \in Files \ {f} : stream'[g] = stream[g]
          /\ stream' \in [Files -> Handles \cup {NoHandle}]
          /\ osOpen' \subseteq (osOpen \ {stream[f]}) \cup {stream'[f]}
          /\ osOpen' \subseteq Handles
      <3>1. PICK h \in Handles \cup {NoHandle} :
               /\ stream' = [stream EXCEPT ![f] = h]
               /\ osOpen' = (osOpen \ {stream[f]}) \cup ({h} \ {NoHandle})
        BY <2>1
      <3>2. stream'[f] = h
        BY <1>0, <3>1
      <3>3. QED  BY <1>0, <3>1, <3>2
    <2>3. NoOrphan' /\ SlotShape'
      BY <1>0, <2>1, <2>2 DEF WeakInv, NoOrphan, SlotShape, Holds
    <2>4. QED  BY <1>0, <1>t, <2>1, <2>2, <2>3 DEF WeakInv
  <1>10. ASSUME NEW fd \in Fds \cup {-1},
                \/ xceclose(fd) /\ ~Live(fd)
                \/ xceread(fd) \/ xcewrite(fd) \/ xcelseek(fd)
                \/ xceftruncate(fd) \/ xcefstat(fd)
         PROVE  WeakInv'
    BY <1>1, <1>10
    DEF xceclose, xceread, xcewrite, xcelseek, xceftruncate, xcefstat, Transfer
  <1>11. ASSUME NEW f \in Files, xcefileno(f)
         PROVE  WeakInv'
    BY <1>1, <1>11 DEF xcefileno
  <1>12. CASE UNCHANGED vars
    BY <1>1, <1>12 DEF vars
  <1>13. QED
    BY <1>3, <1>4, <1>5, <1>6, <1>7, <1>8, <1>9, <1>10, <1>11, <1>12 DEF Next

\* The initial table satisfies WeakInv.
LEMMA InitWeak == Init => WeakInv
  BY InitInv DEF Inv, WeakInv, Init, NoOrphan

\* Every variable keeps its type under every mix of calls.
THEOREM TypeCorrect == Spec => []TypeOK
  <1>1. WeakInv => TypeOK
    BY DEF WeakInv
  <1>2. QED  BY <1>1, InitWeak, NextWeak, PTL DEF Spec

\* A handle that is open and that no descriptor and no stream has was lost by
\* xceopen with the table full (ceio.c:192); no other sequence of calls, freopen
\* included, orphans one.
THEOREM OnlyAFullTableOrphans == Spec => []NoOrphan
  <1>1. WeakInv => NoOrphan
    BY DEF WeakInv
  <1>2. QED  BY <1>1, InitWeak, NextWeak, PTL DEF Spec

------------------------------------------------------------------------------
(* A program that moves no stream with freopen, where the operating system   *)
(* refuses a handle before the table is full.                                *)

Roomy == IsFiniteSet(Handles) /\ Cardinality(Handles) <= MAXFDS - 3

\* A slot in use goes by its own number, and holds something unless it is one of the
\* three standard ones.
SlotNames ==
    fdsinitialized => \A i \in Fds : /\ fdtab[i].fd \in {-1, i}
                                     /\ i > 2 /\ fdtab[i].fd = i => fdtab[i].type # "NONE"

TidyInv == Inv /\ ~moved /\ SlotNames /\ StreamsHaveDescriptors

\* _initfds, called or not, leaves the table as SlotNames has it.
LEMMA InitfdsNames ==
    ASSUME TidyInv
    PROVE  /\ \A i \in Fds : /\ initfds[i].fd \in {-1, i}
                             /\ i > 2 /\ initfds[i].fd = i => initfds[i].type # "NONE"
                             /\ initfds[i].hFile = fdtab[i].hFile
                             /\ initfds[i].type = fdtab[i].type
                             /\ Holds(i) => initfds[i] = fdtab[i] /\ initfds[i].fd = i
                             /\ i > 2 /\ ~fdsinitialized => initfds[i].fd = -1
           /\ initfds \in [Fds -> SlotSet]
           /\ fdsinitialized => initfds = fdtab
  <1>1. /\ initfds \in [Fds -> SlotSet]
        /\ \A i \in Fds : initfds[i].hFile = fdtab[i].hFile /\ initfds[i].type = fdtab[i].type
    BY InitfdsShape DEF TidyInv, Inv, SlotSet
  <1>2. CASE fdsinitialized
    <2>1. initfds = fdtab
      BY <1>2 DEF initfds
    <2>2. QED  BY <1>1, <1>2, <2>1, SizeAssumption DEF TidyInv, SlotNames, Holds, Fds
  <1>3. CASE ~fdsinitialized
    <2>1. \A i \in Fds : /\ initfds[i].fd = IF i <= 2 THEN i ELSE -1
                         /\ fdtab[i].type = "NONE"
      BY <1>3, SizeAssumption DEF initfds, TidyInv, Inv, TypeOK, SlotShape
    <2>2. QED  BY <1>1, <1>3, <2>1, SizeAssumption DEF Holds, Fds
  <1>4. QED  BY <1>2, <1>3

\* While the operating system has a handle left to give, a slot is vacant: each slot
\* in use but the standard ones takes a handle of its own (a pigeonhole).
LEMMA SlotLeft ==
    ASSUME TidyInv, Roomy, NEW h \in Handles \ osOpen
    PROVE  \E i \in Fds : initfds[i].fd = -1
  <1> SUFFICES ASSUME \A i \in Fds : initfds[i].fd # -1
               PROVE  FALSE
    OBVIOUS
  <1> DEFINE Upper == 3 .. MAXFDS - 1
             Owner == [i \in Upper |-> fdtab[i].hFile]
             Rest == Handles \ {h}
  <1>1. MAXFDS \in Int /\ MAXFDS >= 3 /\ IsFiniteSet(Upper) /\ Cardinality(Upper) = MAXFDS - 3
    <2>1. MAXFDS \in Int /\ MAXFDS >= 3 /\ MAXFDS - 1 \in Int
      BY SizeAssumption
    <2>2. IsFiniteSet(Upper) /\ Cardinality(Upper) = IF 3 > MAXFDS - 1 THEN 0 ELSE MAXFDS - 1 - 3 + 1
      BY <2>1, FS_Interval
    <2>3. QED  BY <2>1, <2>2
  <1>2. \A i \in Upper : i \in Fds /\ Holds(i)
    BY <1>1, InitfdsNames DEF Fds, Holds
  <1>3. /\ \A i \in Upper : fdtab[i].hFile \in Rest
        /\ \A i, j \in Upper : i # j => fdtab[i].hFile # fdtab[j].hFile
    BY <1>2 DEF TidyInv, Inv, SlotsApart, TypeOK
  <1>4. Owner \in [Upper -> Rest] /\ \A i, j \in Upper : i # j => Owner[i] # Owner[j]
    BY <1>3
  <1>5. IsFiniteSet(Rest) /\ Cardinality(Rest) = Cardinality(Handles) - 1
        /\ Cardinality(Handles) \in Nat
    BY FS_RemoveElement, FS_CardinalityType DEF Roomy
  <1>6. Cardinality(Rest) < Cardinality(Upper)
    BY <1>1, <1>5 DEF Roomy
  <1> HIDE DEF Upper, Owner, Rest
  <1>7. QED  BY <1>1, <1>4, <1>5, <1>6, FS_PigeonHole

\* _getnewfd finds a slot for the handle.
LEMMA GetnewfdFinds ==
    ASSUME TidyInv, Roomy, NEW h \in Handles \ osOpen, NEW fd \in Fds \cup {-1},
           getnewfd(initfds, fd)
    PROVE  /\ fd \in Fds /\ initfds[fd].fd = -1 /\ ~Holds(fd)
           /\ \A i \in Fds : i < fd => initfds[i].fd # -1
  <1>1. fd \in Fds /\ initfds[fd].fd = -1 /\ \A i \in 0 .. fd - 1 : initfds[i].fd # -1
    BY SlotLeft, SizeAssumption DEF getnewfd, Fds
  <1>2. ~Holds(fd)
    BY <1>1, InitfdsNames, SizeAssumption DEF Fds
  <1>3. QED  BY <1>1, <1>2, SizeAssumption DEF Fds

\* Entering a new handle keeps the slots that hold something, and adds one.
LEMMA InstallTidy ==
    ASSUME TidyInv, Roomy, NEW h \in Handles \ osOpen, NEW fd \in Fds \cup {-1},
           NEW type \in {"FILE", "SOCKET"},
           getnewfd(initfds, fd), Install(fd, type, h)
    PROVE  /\ SlotNames'
           /\ fd \in Fds /\ Holds(fd)' /\ fdtab'[fd].hFile = h
           /\ \A i \in Fds : Holds(i) => Holds(i)' /\ fdtab'[i] = fdtab[i]
  <1>1. /\ fdsinitialized' = TRUE
        /\ fdtab' = [i \in Fds |-> IF i = fd THEN [fd |-> fd, type |-> type, hFile |-> h]
                                   ELSE initfds[i]]
    BY DEF Install
  <1>2. fd \in Fds /\ ~Holds(fd) /\ fd # -1
    BY GetnewfdFinds, SizeAssumption DEF Fds
  <1>3. \A i \in Fds : fdtab'[i] = IF i = fd THEN [fd |-> fd, type |-> type, hFile |-> h]
                                   ELSE initfds[i]
    BY <1>1
  <1>4. SlotNames'
    BY <1>1, <1>3, InitfdsNames DEF SlotNames
  <1>5. Holds(fd)' /\ fdtab'[fd].hFile = h
    BY <1>2, <1>3 DEF Holds
  <1>6. \A i \in Fds : Holds(i) => Holds(i)' /\ fdtab'[i] = fdtab[i]
    BY <1>2, <1>3, InitfdsNames DEF Holds
  <1>7. QED  BY <1>2, <1>4, <1>5, <1>6

\* The same for a step that leaves the table, or all but _initfds, alone.
LEMMA TableStaysTidy ==
    ASSUME TidyInv,
           \/ UNCHANGED <<fdsinitialized, fdtab>>
           \/ InitOnly
    PROVE  /\ SlotNames'
           /\ \A i \in Fds : Holds(i) => Holds(i)' /\ fdtab'[i] = fdtab[i]
  <1>1. CASE UNCHANGED <<fdsinitialized, fdtab>>
    BY <1>1 DEF TidyInv, SlotNames, Holds
  <1>2. CASE InitOnly
    <2>1. fdsinitialized' = TRUE /\ fdtab' = initfds
      BY <1>2 DEF InitOnly
    <2>2. QED  BY <2>1, InitfdsNames DEF SlotNames, Holds
  <1>3. QED  BY <1>1, <1>2

\* Vacating a slot leaves the others as they are.
LEMMA VacateTidy ==
    ASSUME TidyInv, NEW fd \in Fds,
           fdtab' = [i \in Fds |-> IF i = fd THEN [fdtab[i] EXCEPT !.fd = -1] ELSE fdtab[i]],
           UNCHANGED fdsinitialized
    PROVE  /\ SlotNames'
           /\ \A i \in Fds \ {fd} : Holds(i) => Holds(i)' /\ fdtab'[i] = fdtab[i]
  <1>1. fdtab \in [Fds -> SlotSet]
    BY DEF TidyInv, Inv, TypeOK, SlotSet
  <1>2. /\ fdtab'[fd].fd = -1
        /\ \A i \in Fds \ {fd} : fdtab'[i] = fdtab[i]
    BY <1>1 DEF SlotSet
  <1>3. SlotNames'
    BY <1>2, SizeAssumption DEF TidyInv, SlotNames, Fds
  <1>4. QED  BY <1>2, <1>3 DEF Holds

\* The slot that fclose and fileno find is the one in use with the stream's handle.
LEMMA LookupFinds ==
    ASSUME TidyInv, NEW f \in Files, stream[f] # NoHandle,
           NEW fd \in Fds \cup {-1}, Lookup(f, fd)
    PROVE  /\ fd \in Fds /\ Holds(fd) /\ fdtab[fd].hFile = stream[f]
           /\ fdsinitialized /\ fdtab[fd].fd = fd
  <1>1. PICK i \in Fds : Holds(i) /\ fdtab[i].hFile = stream[f]
    BY DEF TidyInv, StreamsHaveDescriptors
  <1>2. fd \in Fds /\ fdtab[fd].hFile = stream[f] /\ ~(i \in 0 .. fd - 1)
    BY <1>1, SizeAssumption DEF Lookup, Fds
  <1>3. fd = i \/ fd < i
    BY <1>2, SizeAssumption DEF Fds
  <1>4. fd = i
    BY <1>1, <1>2, <1>3 DEF TidyInv, Inv, ScansInOrder
  <1>5. fdsinitialized
    BY <1>1, <1>4 DEF TidyInv, Inv, SlotShape, Holds
  <1>6. QED
    BY <1>1, <1>2, <1>4, <1>5 DEF TidyInv, SlotNames, Holds

\* TidyInv over one step.
LEMMA NextTidy ==
    ASSUME TidyInv, [Next]_vars, Roomy, "freopen" \notin Liberties
    PROVE  TidyInv'
  <1>1. moved' = moved
    <2>1. xceopen \/ AttachSocket \/ UNCHANGED vars => UNCHANGED moved
      BY DEF xceopen, AttachSocket, vars, history
    <2>2. ASSUME NEW fd \in Fds \cup {-1}
          PROVE  xceclose(fd) \/ xceread(fd) \/ xcewrite(fd) \/ xcelseek(fd)
                    \/ xceftruncate(fd) \/ xcefstat(fd) => UNCHANGED moved
      BY DEF xceclose, xceread, xcewrite, xcelseek, xceftruncate, xcefstat, Transfer, history
    <2>3. ASSUME NEW f \in Files
          PROVE  /\ xcefopen(f) \/ xcefclose(f) \/ xcefileno(f) \/ xcefreopen(f) => UNCHANGED moved
                 /\ \A fd \in Fds \cup {-1} : xcefdopen(f, fd) => UNCHANGED moved
      BY DEF xcefopen, xcefclose, xcefileno, xcefreopen, xcefdopen, history
    <2>4. QED  BY <2>1, <2>2, <2>3 DEF Next
  <1>2. Inv' /\ ~moved'
    BY <1>1, NextInv DEF TidyInv
  <1>3. stream \in [Files -> Handles \cup {NoHandle}] /\ fdtab \in [Fds -> SlotSet]
    BY DEF TidyInv, Inv, TypeOK, SlotSet
  <1> SUFFICES SlotNames' /\ StreamsHaveDescriptors'
    BY <1>2 DEF TidyInv
  <1>4. ASSUME \/ UNCHANGED <<fdsinitialized, fdtab>>
               \/ InitOnly,
               UNCHANGED stream
        PROVE  SlotNames' /\ StreamsHaveDescriptors'
    BY <1>4, TableStaysTidy DEF TidyInv, StreamsHaveDescriptors
  <1>5. CASE xceopen \/ AttachSocket
    <2>1. CASE InitOnly /\ UNCHANGED stream
      BY <2>1, <1>4
    <2>2. ASSUME NEW h \in Handles \ osOpen, NEW fd \in Fds \cup {-1},
                 NEW type \in {"FILE", "SOCKET"},
                 getnewfd(initfds, fd), Install(fd, type, h), UNCHANGED stream
          PROVE  SlotNames' /\ StreamsHaveDescriptors'
      BY <2>2, InstallTidy DEF TidyInv, StreamsHaveDescriptors
    <2>3. QED
      BY <1>5, <2>1, <2>2, InitfdsNames DEF xceopen, AttachSocket
  <1>6. ASSUME NEW fd \in Fds \cup {-1}, xceclose(fd)
        PROVE  SlotNames' /\ StreamsHaveDescriptors'
    <2>1. CASE ~Live(fd)
      BY <1>4, <1>6, <2>1 DEF xceclose
    <2>2. CASE Live(fd)
      <3>1. /\ fd \in Fds /\ ~Streamed(fd) /\ UNCHANGED <<fdsinitialized, stream>>
            /\ fdtab' = [i \in Fds |-> IF i = fd THEN [fdtab[i] EXCEPT !.fd = -1]
                                       ELSE fdtab[i]]
        BY <1>3, <1>6, <2>2 DEF xceclose, Live, MayClose
      <3>2. QED
        BY <3>1, VacateTidy DEF TidyInv, StreamsHaveDescriptors, Streamed
    <2>3. QED  BY <2>1, <2>2
  <1>7. ASSUME NEW f \in Files, xcefopen(f)
        PROVE  SlotNames' /\ StreamsHaveDescriptors'
    <2>1. CASE InitOnly /\ UNCHANGED stream
      BY <2>1, <1>4
    <2>2. ASSUME NEW h \in Handles \ osOpen, NEW fd \in Fds \cup {-1},
                 getnewfd(initfds, fd), Install(fd, "FILE", h),
                 stream' = [stream EXCEPT ![f] = h]
          PROVE  SlotNames' /\ StreamsHaveDescriptors'
      BY <1>3, <2>2, InstallTidy DEF TidyInv, StreamsHaveDescriptors
    <2>3. QED  BY <1>7, <2>1, <2>2 DEF xcefopen
  <1>8. ASSUME NEW f \in Files, xcefclose(f)
        PROVE  SlotNames' /\ StreamsHaveDescriptors'
    <2>1. PICK fd \in Fds \cup {-1} :
             /\ Lookup(f, fd)
             /\ fdtab' = [i \in Fds |-> IF i = fd THEN [fdtab[i] EXCEPT !.fd = -1]
                                        ELSE fdtab[i]]
      BY <1>8 DEF xcefclose
    <2>2. /\ stream[f] # NoHandle /\ UNCHANGED fdsinitialized
          /\ stream' = [stream EXCEPT ![f] = NoHandle]
      BY <1>8 DEF xcefclose
    <2>3. fd \in Fds /\ fdtab[fd].hFile = stream[f]
      BY <2>1, <2>2, LookupFinds
    <2>4. \A g \in Files : stream'[g] # NoHandle => g # f /\ stream'[g] = stream[g]
      BY <1>3, <2>2
    <2>5. \A g \in Files \ {f} : stream[g] # NoHandle => stream[g] # fdtab[fd].hFile
      BY <2>3 DEF TidyInv, Inv, StreamExclusive
    <2>6. /\ SlotNames'
          /\ \A i \in Fds \ {fd} : Holds(i) => Holds(i)' /\ fdtab'[i] = fdtab[i]
      BY <2>1, <2>2, <2>3, VacateTidy
    <2>7. StreamsHaveDescriptors'
      BY <2>4, <2>5, <2>6 DEF TidyInv, StreamsHaveDescriptors
    <2>8. QED  BY <2>6, <2>7
  <1>9. ASSUME NEW f \in Files, NEW fd \in Fds \cup {-1}, xcefdopen(f, fd)
        PROVE  SlotNames' /\ StreamsHaveDescriptors'
    <2>1. UNCHANGED <<fdsinitialized, fdtab>>
      BY <1>9 DEF xcefdopen
    <2>2. CASE Live(fd) /\ fdtab[fd].type = "FILE"
      <3>1. /\ fd \in Fds /\ Holds(fd)
            /\ stream' = [stream EXCEPT ![f] = fdtab[fd].hFile]
        BY <1>9, <2>2 DEF xcefdopen, Live, Holds
      <3>2. QED
        BY <1>3, <2>1, <3>1, TableStaysTidy DEF TidyInv, StreamsHaveDescriptors
    <2>3. CASE ~(Live(fd) /\ fdtab[fd].type = "FILE")
      BY <1>4, <1>9, <2>1, <2>3 DEF xcefdopen
    <2>4. QED  BY <2>2, <2>3
  <1>10. ASSUME NEW fd \in Fds \cup {-1},
                \/ xceread(fd) \/ xcewrite(fd) \/ xcelseek(fd)
                \/ xceftruncate(fd) \/ xcefstat(fd)
         PROVE  SlotNames' /\ StreamsHaveDescriptors'
    BY <1>4, <1>10 DEF xceread, xcewrite, xcelseek, xceftruncate, xcefstat, Transfer
  <1>11. ASSUME NEW f \in Files, xcefileno(f) \/ xcefreopen(f)
         PROVE  SlotNames' /\ StreamsHaveDescriptors'
    BY <1>4, <1>11 DEF xcefileno, xcefreopen
  <1>12. CASE UNCHANGED vars
    BY <1>4, <1>12 DEF vars
  <1>13. QED
    BY <1>5, <1>6, <1>7, <1>8, <1>9, <1>10, <1>11, <1>12 DEF Next

\* TidyInv from the start on.
LEMMA TidyAlways ==
    Roomy /\ "freopen" \notin Liberties => (Spec => []TidyInv)
  <1> SUFFICES ASSUME Roomy, "freopen" \notin Liberties PROVE Spec => []TidyInv
    OBVIOUS
  <1>1. Init => TidyInv
    BY InitInv DEF Init, TidyInv, SlotNames, StreamsHaveDescriptors
  <1>2. TidyInv /\ [Next]_vars => TidyInv'
    BY NextTidy
  <1>3. QED  BY <1>1, <1>2, PTL DEF Spec

\* Every open stream has a descriptor in use (cestdio.c:52), whatever the size of the
\* table, as long as it does not fill and no stream is moved with freopen.
THEOREM EveryStreamHasADescriptor ==
    Roomy /\ "freopen" \notin Liberties => (Spec => []StreamsHaveDescriptors)
  <1>1. TidyInv => StreamsHaveDescriptors
    BY DEF TidyInv
  <1>2. QED  BY <1>1, TidyAlways, PTL

------------------------------------------------------------------------------
(* The table implements Descriptors, for a program that also keeps the three *)
(* standard descriptors open.                                                *)

StdKept == fdsinitialized => \A i \in 0 .. 2 : fdtab[i].fd = i /\ fdtab[i].type = "NONE"

UnixInv == TidyInv /\ StdKept

\* What the descriptors of a table are bound to, once _initfds has run.
Bindings(tab) == [i \in Fds |-> IF tab[i].fd = -1 THEN NoHandle
                                ELSE IF tab[i].type # "NONE" THEN tab[i].hFile
                                ELSE StdName(i)]

\* The mapping reads the table as _initfds leaves it.
LEMMA BoundIsBindings ==
    ASSUME UnixInv
    PROVE  AbstractBound = Bindings(initfds)
  <1>1. \A i \in Fds : /\ initfds[i].fd = -1 <=>
                              (IF fdsinitialized THEN fdtab[i].fd = -1 ELSE i > 2)
                       /\ initfds[i].type = fdtab[i].type
                       /\ initfds[i].hFile = fdtab[i].hFile
    <2>1. CASE fdsinitialized
      BY <2>1, InitfdsNames DEF UnixInv
    <2>2. CASE ~fdsinitialized
      <3>1. \A i \in Fds : initfds[i].fd = IF i <= 2 THEN i ELSE -1
        BY <2>2 DEF initfds, UnixInv, TidyInv, Inv, TypeOK
      <3>2. QED  BY <2>2, <3>1, InitfdsNames, SizeAssumption DEF UnixInv, Fds
    <2>3. QED  BY <2>1, <2>2
  <1>2. QED  BY <1>1 DEF AbstractBound, Bindings, StdName

\* After a step that has run _initfds it reads the table itself.
LEMMA NextBoundIsBindings ==
    ASSUME fdsinitialized' = TRUE
    PROVE  AbstractBound' = Bindings(fdtab')
  BY DEF AbstractBound, Bindings, StdName

\* The bindings one by one.
LEMMA BoundValues ==
    ASSUME UnixInv
    PROVE  /\ AbstractBound = [i \in Fds |-> AbstractBound[i]]
           /\ \A i \in Fds :
                 /\ initfds[i].fd = -1 => AbstractBound[i] = NoHandle
                 /\ initfds[i].fd # -1 => AbstractBound[i] # NoHandle
                 /\ i <= 2 => /\ AbstractBound[i] = StdName(i) /\ initfds[i].fd = i
                              /\ initfds[i].type = "NONE"
                 /\ i > 2 /\ initfds[i].fd # -1 =>
                       Holds(i) /\ fdsinitialized /\ AbstractBound[i] = fdtab[i].hFile
                 /\ Holds(i) => AbstractBound[i] = fdtab[i].hFile
                 /\ AbstractBound[i] \in osOpen => Holds(i)
  <1>1. \A i \in Fds : AbstractBound[i] = IF initfds[i].fd = -1 THEN NoHandle
                           ELSE IF initfds[i].type # "NONE" THEN initfds[i].hFile
                           ELSE StdName(i)
    BY BoundIsBindings DEF Bindings
  <1>2. \A i \in Fds : i <= 2 => /\ initfds[i].fd = i /\ initfds[i].type = "NONE"
                                 /\ fdtab[i].type = "NONE"
    <2>1. CASE fdsinitialized
      BY <2>1, InitfdsNames, SizeAssumption DEF UnixInv, StdKept, Fds
    <2>2. CASE ~fdsinitialized
      BY <2>2, InitfdsNames, SizeAssumption
      DEF UnixInv, TidyInv, Inv, TypeOK, SlotShape, initfds, Fds
    <2>3. QED  BY <2>1, <2>2
  <1>3. \A i \in Fds : i <= 2 => StdName(i) \in {"stdin", "stdout", "stderr"}
    BY SizeAssumption DEF StdName, Fds
  <1>4. \A i \in Fds : Holds(i) => /\ fdtab[i].hFile \in osOpen /\ fdtab[i].hFile # NoHandle
                                   /\ initfds[i] = fdtab[i] /\ initfds[i].fd = i
                                   /\ fdsinitialized
    BY InitfdsNames DEF UnixInv, TidyInv, Inv, SlotsApart, SlotShape, Holds
  <1>5. \A i \in Fds : i > 2 /\ initfds[i].fd # -1 => Holds(i)
    BY InitfdsNames, SizeAssumption DEF Holds, UnixInv, Fds
  <1>6. osOpen \cap {"stdin", "stdout", "stderr"} = {} /\ NoHandle \notin osOpen
        /\ NoHandle \notin {"stdin", "stdout", "stderr"}
    BY StdAssumption, HandleAssumption DEF UnixInv, TidyInv, Inv, TypeOK
  <1>7. AbstractBound = [i \in Fds |-> AbstractBound[i]]
    BY DEF AbstractBound
  <1>8. ASSUME NEW i \in Fds
        PROVE  /\ initfds[i].fd = -1 => AbstractBound[i] = NoHandle
               /\ initfds[i].fd # -1 => AbstractBound[i] # NoHandle
               /\ i <= 2 => /\ AbstractBound[i] = StdName(i) /\ initfds[i].fd = i
                            /\ initfds[i].type = "NONE"
               /\ i > 2 /\ initfds[i].fd # -1 =>
                     Holds(i) /\ fdsinitialized /\ AbstractBound[i] = fdtab[i].hFile
               /\ Holds(i) => AbstractBound[i] = fdtab[i].hFile
               /\ AbstractBound[i] \in osOpen => Holds(i)
    <2>1. CASE i <= 2
      BY <1>1, <1>2, <1>3, <1>6, <2>1, SizeAssumption DEF Holds, Fds
    <2>2. CASE i > 2 /\ initfds[i].fd # -1
      <3>1. Holds(i) /\ initfds[i] = fdtab[i] /\ fdtab[i].type # "NONE"
        BY <1>4, <1>5, <2>2 DEF Holds
      <3>2. ~(i <= 2)
        BY <2>2, SizeAssumption DEF Fds
      <3>3. QED  BY <1>1, <1>4, <2>2, <3>1, <3>2
    <2>3. CASE i > 2 /\ initfds[i].fd = -1
      BY <1>1, <1>4, <1>6, <2>3, SizeAssumption DEF Fds
    <2>4. QED  BY <2>1, <2>2, <2>3, SizeAssumption DEF Fds
  <1>9. QED  BY <1>7, <1>8

\* A step that leaves the table, or all but _initfds, alone changes no binding.
LEMMA StaysBound ==
    ASSUME UnixInv,
           \/ UNCHANGED <<fdsinitialized, fdtab>>
           \/ InitOnly
    PROVE  AbstractBound' = AbstractBound /\ StdKept'
  <1>1. CASE UNCHANGED <<fdsinitialized, fdtab>>
    BY <1>1 DEF AbstractBound, UnixInv, StdKept
  <1>2. CASE InitOnly
    <2>1. fdsinitialized' = TRUE /\ fdtab' = initfds
      BY <1>2 DEF InitOnly
    <2>2. AbstractBound' = AbstractBound
      BY <2>1, BoundIsBindings, NextBoundIsBindings
    <2>3. StdKept'
      BY <2>1, BoundValues, SizeAssumption DEF StdKept, Fds
    <2>4. QED  BY <2>2, <2>3
  <1>3. QED  BY <1>1, <1>2

\* Entering a handle binds the lowest vacant descriptor to what nothing is bound to.
LEMMA InstallBinds ==
    ASSUME UnixInv, Roomy, NEW h \in Handles \ osOpen, NEW fd \in Fds \cup {-1},
           NEW type \in {"FILE", "SOCKET"},
           getnewfd(initfds, fd), Install(fd, type, h)
    PROVE  /\ fd \in Fds /\ Unix!Lowest(fd) /\ ~Unix!InUse(h)
           /\ AbstractBound' = [AbstractBound EXCEPT ![fd] = h]
           /\ StdKept'
  <1>1. /\ fd \in Fds /\ initfds[fd].fd = -1
        /\ \A i \in Fds : i < fd => initfds[i].fd # -1
    BY GetnewfdFinds DEF UnixInv
  <1>2. Unix!Lowest(fd)
    BY <1>1, BoundValues DEF Unix!Lowest
  <1>3. ~Unix!InUse(h)
    <2>1. \A i \in Fds : AbstractBound[i] # h
      <3> SUFFICES ASSUME NEW i \in Fds, AbstractBound[i] = h PROVE FALSE
        OBVIOUS
      <3>1. CASE i <= 2
        BY <3>1, BoundValues, StdAssumption DEF StdName
      <3>2. CASE i > 2
        BY <3>2, BoundValues, HandleAssumption DEF UnixInv, TidyInv, Inv, SlotsApart
      <3>3. QED  BY <3>1, <3>2, SizeAssumption DEF Fds
    <2>2. \A f \in Files : stream[f] # h
      BY HandleAssumption DEF UnixInv, TidyInv, Inv, StreamExclusive
    <2>3. QED  BY <2>1, <2>2 DEF Unix!InUse
  <1>4. /\ fdsinitialized' = TRUE
        /\ fdtab' = [i \in Fds |-> IF i = fd THEN [fd |-> fd, type |-> type, hFile |-> h]
                                   ELSE initfds[i]]
    BY DEF Install
  <1>5. fd > 2
    BY <1>1, BoundValues, SizeAssumption DEF Fds
  <1>6. AbstractBound' = [AbstractBound EXCEPT ![fd] = h]
    <2>1. AbstractBound' = Bindings(fdtab') /\ AbstractBound = Bindings(initfds)
      BY <1>4, BoundIsBindings, NextBoundIsBindings
    <2>2. \A i \in Fds : fdtab'[i] = IF i = fd THEN [fd |-> fd, type |-> type, hFile |-> h]
                                     ELSE initfds[i]
      BY <1>4
    <2>3. Bindings(fdtab') = [i \in Fds |-> IF i = fd THEN h ELSE Bindings(initfds)[i]]
      BY <1>5, <2>2 DEF Bindings
    <2>4. QED  BY <1>1, <2>1, <2>3, BoundValues
  <1>7. StdKept'
    BY <1>4, <1>5, BoundValues, SizeAssumption DEF StdKept, Fds
  <1>8. QED  BY <1>1, <1>2, <1>3, <1>6, <1>7

\* Vacating a slot that holds something unbinds its descriptor; before _initfds it
\* unbinds nothing.
LEMMA VacateUnbinds ==
    ASSUME UnixInv, NEW fd \in Fds, fd > 2,
           fdtab' = [i \in Fds |-> IF i = fd THEN [fdtab[i] EXCEPT !.fd = -1] ELSE fdtab[i]],
           UNCHANGED fdsinitialized
    PROVE  /\ AbstractBound' = [AbstractBound EXCEPT ![fd] = NoHandle]
           /\ ~fdsinitialized => AbstractBound' = AbstractBound
           /\ StdKept'
  <1>1. /\ fdtab'[fd].fd = -1
        /\ \A i \in Fds \ {fd} : fdtab'[i] = fdtab[i]
    BY DEF UnixInv, TidyInv, Inv, TypeOK
  <1>2. CASE fdsinitialized
    <2>1. /\ AbstractBound' = Bindings(fdtab') /\ AbstractBound = Bindings(fdtab)
      BY <1>2, BoundIsBindings, NextBoundIsBindings, InitfdsNames DEF UnixInv, TidyInv, Inv, TypeOK
    <2>2. Bindings(fdtab') = [i \in Fds |-> IF i = fd THEN NoHandle ELSE Bindings(fdtab)[i]]
      BY <1>1 DEF Bindings
    <2>3. AbstractBound' = [AbstractBound EXCEPT ![fd] = NoHandle]
      BY <2>1, <2>2, BoundValues
    <2>4. QED
      BY <1>1, <1>2, <2>3, SizeAssumption DEF UnixInv, StdKept, Fds
  <1>3. CASE ~fdsinitialized
    <2>1. \A i \in Fds : fdtab[i].type = "NONE" /\ fdtab'[i].type = "NONE"
      BY <1>3 DEF UnixInv, TidyInv, Inv, TypeOK, SlotShape
    <2>2. AbstractBound' = AbstractBound
      BY <1>3, <2>1 DEF AbstractBound
    <2>3. AbstractBound[fd] = NoHandle
      BY <1>3 DEF AbstractBound
    <2>4. [AbstractBound EXCEPT ![fd] = NoHandle] = AbstractBound
      BY <2>3, BoundValues
    <2>5. QED  BY <1>3, <2>2, <2>4 DEF StdKept
  <1>4. QED  BY <1>2, <1>3

\* Reading, writing and the calls that hand the handle on reach the object of their
\* descriptor, or nothing.
LEMMA TransferIsTransfer ==
    ASSUME UnixInv, NEW fd \in Fds \cup {-1},
           NEW op \in {"read", "write", "lseek", "ftruncate", "fstat"}, Transfer(op, fd)
    PROVE  Unix!Next
  <1>1. AbstractBound' = AbstractBound /\ UNCHANGED stream
    BY StaysBound DEF Transfer
  <1> DEFINE o == IF ~Live(fd) THEN NoHandle
                  ELSE CASE op = "read" -> ReadTarget(fd)
                         [] op = "write" -> WriteTarget(fd)
                         [] OTHER -> fdtab[fd].hFile
  <1>2. call' = [op |-> op, fd |-> fd, on |-> o]
    BY DEF Transfer, Returns
  <1>3. o = NoHandle \/ (fd \in Fds /\ AbstractBound[fd] # NoHandle /\ o = AbstractBound[fd])
    <2> SUFFICES ASSUME Live(fd)
                 PROVE  o = NoHandle \/ (AbstractBound[fd] # NoHandle /\ o = AbstractBound[fd])
      BY DEF Live
    <2>1. fd \in Fds /\ fdtab[fd].fd # -1
      BY DEF Live
    <2>2. o \in {NoHandle, fdtab[fd].hFile} \/ (fd <= 2 /\ o = StdName(fd))
      <3>1. op = "read" => o = ReadTarget(fd)
        OBVIOUS
      <3>2. op = "write" => o = WriteTarget(fd)
        OBVIOUS
      <3>3. op \notin {"read", "write"} => o = fdtab[fd].hFile
        OBVIOUS
      <3>4. /\ ReadTarget(fd) \in {NoHandle, fdtab[fd].hFile} \/ (fd = 0 /\ ReadTarget(fd) = "stdin")
            /\ \/ WriteTarget(fd) \in {NoHandle, fdtab[fd].hFile}
               \/ fd = 1 /\ WriteTarget(fd) = "stdout"
               \/ fd = 2 /\ WriteTarget(fd) = "stderr"
        BY DEF ReadTarget, WriteTarget
      <3> HIDE DEF o
      <3>5. QED  BY <3>1, <3>2, <3>3, <3>4 DEF StdName
    <2> HIDE DEF o
    <2>3. fdtab[fd].hFile = NoHandle \/ (AbstractBound[fd] = fdtab[fd].hFile)
      <3>1. CASE fdtab[fd].type = "NONE"
        BY <2>1, <3>1 DEF UnixInv, TidyInv, Inv, SlotShape
      <3>2. CASE fdtab[fd].type # "NONE"
        BY <2>1, <3>2, BoundValues DEF Holds
      <3>3. QED  BY <3>1, <3>2
    <2>4. fd <= 2 => AbstractBound[fd] = StdName(fd) /\ StdName(fd) # NoHandle
      BY <2>1, BoundValues, StdAssumption DEF StdName
    <2>5. QED  BY <2>2, <2>3, <2>4
  <1> HIDE DEF o
  <1>4. CASE o = NoHandle
    <2>1. Unix!Fail
      BY <1>1, <1>2, <1>4 DEF Unix!Fail, Unix!Returns
    <2>2. QED  BY <2>1 DEF Unix!Next
  <1>5. CASE o # NoHandle
    <2>1. fd \in Fds /\ Unix!Transfer(fd)
      BY <1>1, <1>2, <1>3, <1>5 DEF Unix!Transfer, Unix!Returns
    <2>2. QED  BY <2>1 DEF Unix!Next
  <1>6. QED  BY <1>4, <1>5

\* Every step is a step of Descriptors, or none.
LEMMA NextUnix ==
    ASSUME UnixInv, [Next]_vars, Roomy, "freopen" \notin Liberties, "closestd" \notin Liberties
    PROVE  [Unix!Next]_Unix!vars /\ UnixInv'
  <1> SUFFICES [Unix!Next]_Unix!vars /\ StdKept'
    BY NextTidy DEF UnixInv
  <1>0. /\ stream \in [Files -> Handles \cup {NoHandle}] /\ fdtab \in [Fds -> SlotSet]
        /\ Inv /\ TidyInv /\ NoHandle \notin Handles
    BY HandleAssumption DEF UnixInv, TidyInv, Inv, TypeOK, SlotSet
  <1>1. ASSUME NEW op \in {"open", "fopen"}, InitOnly,
               UNCHANGED stream, Returns(op, -1, NoHandle)
        PROVE  Unix!Next /\ StdKept'
    BY <1>1, StaysBound DEF Unix!Next, Unix!Fail, Unix!Returns, Returns
  <1>2. ASSUME NEW h \in Handles \ osOpen, NEW fd \in Fds \cup {-1},
               NEW type \in {"FILE", "SOCKET"}, NEW op \in {"open", "socket"},
               getnewfd(initfds, fd), Install(fd, type, h), UNCHANGED stream,
               Returns(op, fd, h)
        PROVE  Unix!Next /\ StdKept'
    <2>1. Unix!Open(fd, h) /\ fd \in Fds /\ StdKept'
      BY <1>2, InstallBinds DEF Unix!Open, Unix!Returns, Returns
    <2>2. QED  BY <2>1 DEF Unix!Next
  <1>3. CASE xceopen
    BY <1>1, <1>2, <1>3 DEF xceopen
  <1>4. CASE AttachSocket
    BY <1>2, <1>4, <1>0, InitfdsNames DEF AttachSocket
  <1>5. ASSUME NEW fd \in Fds \cup {-1}, xceclose(fd)
        PROVE  Unix!Next /\ StdKept'
    <2>1. CASE ~Live(fd)
      <3>1. /\ AbstractBound' = AbstractBound /\ StdKept' /\ UNCHANGED stream
            /\ call' = [op |-> "close", fd |-> fd, on |-> NoHandle]
        BY <1>5, <2>1, StaysBound DEF xceclose, Returns
      <3>2. Unix!Fail
        BY <3>1 DEF Unix!Fail, Unix!Returns
      <3>3. QED  BY <3>1, <3>2 DEF Unix!Next
    <2>2. CASE Live(fd)
      <3>1. /\ fd \in Fds /\ fdtab[fd].fd # -1 /\ fd > 2 /\ ~Streamed(fd)
            /\ fdtab' = [i \in Fds |-> IF i = fd THEN [fdtab[i] EXCEPT !.fd = -1]
                                       ELSE fdtab[i]]
            /\ UNCHANGED <<fdsinitialized, stream>>
            /\ call' = [op |-> "close", fd |-> fd, on |-> fdtab[fd].hFile]
        BY <1>0, <1>5, <2>2, SizeAssumption DEF xceclose, Live, MayClose, Returns, Fds
      <3>2. CASE fdsinitialized
        <4>1. Holds(fd) /\ AbstractBound[fd] = fdtab[fd].hFile /\ AbstractBound[fd] # NoHandle
          BY <3>1, <3>2, <1>0, BoundValues, InitfdsNames
        <4>2. \A f \in Files : stream[f] # AbstractBound[fd]
          BY <3>1, <4>1 DEF Streamed
        <4>3. Unix!Close(fd) /\ StdKept'
          BY <3>1, <4>1, <4>2, VacateUnbinds DEF Unix!Close, Unix!Returns
        <4>4. QED  BY <3>1, <4>3 DEF Unix!Next
      <3>3. CASE ~fdsinitialized
        <4>1. fdtab[fd].hFile = NoHandle
          BY <1>0, <3>1, <3>3 DEF Inv, SlotShape
        <4>2. Unix!Fail /\ StdKept'
          BY <3>1, <3>3, <4>1, VacateUnbinds DEF Unix!Fail, Unix!Returns
        <4>3. QED  BY <4>2 DEF Unix!Next
      <3>4. QED  BY <3>2, <3>3
    <2>3. QED  BY <2>1, <2>2
  <1>6. ASSUME NEW fd \in Fds \cup {-1},
               \/ xceread(fd) \/ xcewrite(fd) \/ xcelseek(fd)
               \/ xceftruncate(fd) \/ xcefstat(fd)
        PROVE  Unix!Next /\ StdKept'
    <2>1. PICK op \in {"read", "write", "lseek", "ftruncate", "fstat"} : Transfer(op, fd)
      BY <1>6 DEF xceread, xcewrite, xcelseek, xceftruncate, xcefstat
    <2>2. StdKept'
      BY <2>1, StaysBound DEF Transfer
    <2>3. QED  BY <2>1, <2>2, TransferIsTransfer
  <1>7. ASSUME NEW f \in Files, xcefopen(f)
        PROVE  Unix!Next /\ StdKept'
    <2>1. ASSUME NEW h \in Handles \ osOpen, NEW fd \in Fds \cup {-1},
                 getnewfd(initfds, fd), Install(fd, "FILE", h),
                 stream' = [stream EXCEPT ![f] = h], Returns("fopen", fd, h)
          PROVE  Unix!Next /\ StdKept'
      <3>1. Unix!Fopen(f, fd, h) /\ fd \in Fds /\ StdKept'
        BY <1>7, <2>1, InstallBinds DEF Unix!Fopen, Unix!Returns, Returns, xcefopen
      <3>2. QED  BY <3>1 DEF Unix!Next
    <2>2. QED  BY <1>1, <1>7, <2>1 DEF xcefopen
  <1>8. ASSUME NEW f \in Files, xcefclose(f)
        PROVE  Unix!Next /\ StdKept'
    <2>1. PICK fd \in Fds \cup {-1} :
             /\ Lookup(f, fd)
             /\ fdtab' = [i \in Fds |-> IF i = fd THEN [fdtab[i] EXCEPT !.fd = -1]
                                        ELSE fdtab[i]]
      BY <1>8 DEF xcefclose
    <2>2. /\ stream[f] # NoHandle /\ UNCHANGED fdsinitialized
          /\ stream' = [stream EXCEPT ![f] = NoHandle]
          /\ call' = [op |-> "fclose", fd |-> -1, on |-> stream[f]]
      BY <1>8 DEF xcefclose, Returns
    <2>3. fd \in Fds /\ Holds(fd) /\ fdtab[fd].hFile = stream[f]
      BY <1>0, <2>1, <2>2, LookupFinds
    <2>4. AbstractBound[fd] = stream[f] /\ fd > 2
      <3>1. AbstractBound[fd] = stream[f]
        BY <2>3, BoundValues
      <3>2. ~(fd <= 2)
        BY <2>3, BoundValues, InitfdsNames, <1>0 DEF Holds
      <3>3. QED  BY <2>3, <3>1, <3>2, SizeAssumption DEF Fds
    <2>5. Unix!Fclose(f, fd) /\ StdKept'
      BY <2>1, <2>2, <2>3, <2>4, VacateUnbinds DEF Unix!Fclose, Unix!Returns
    <2>6. QED  BY <2>3, <2>5 DEF Unix!Next
  <1>9. ASSUME NEW f \in Files, xcefileno(f)
        PROVE  Unix!Next /\ StdKept'
    <2>1. PICK fd \in Fds \cup {-1} :
             /\ Lookup(f, fd)
             /\ call' = [op |-> "fileno", fd |-> IF fd = -1 THEN -1 ELSE fdtab[fd].fd,
                         on |-> stream[f]]
      BY <1>9 DEF xcefileno, Returns
    <2>2. stream[f] # NoHandle /\ UNCHANGED <<fdsinitialized, fdtab, stream>>
      BY <1>9 DEF xcefileno
    <2>3. /\ fd \in Fds /\ Holds(fd) /\ fdtab[fd].hFile = stream[f]
          /\ fdtab[fd].fd = fd /\ fd # -1
      BY <1>0, <2>1, <2>2, LookupFinds, SizeAssumption DEF Fds
    <2>4. AbstractBound[fd] = stream[f] /\ AbstractBound' = AbstractBound /\ StdKept'
      BY <2>2, <2>3, BoundValues, StaysBound
    <2>5. Unix!Fileno(f, fd)
      BY <2>1, <2>2, <2>3, <2>4 DEF Unix!Fileno, Unix!Returns
    <2>6. QED  BY <2>3, <2>4, <2>5 DEF Unix!Next
  <1>10. ASSUME NEW f \in Files, NEW fd \in Fds \cup {-1}, xcefdopen(f, fd)
         PROVE  Unix!Next /\ StdKept'
    <2>1. UNCHANGED <<fdsinitialized, fdtab>> /\ stream[f] = NoHandle
      BY <1>10 DEF xcefdopen
    <2>2. AbstractBound' = AbstractBound /\ StdKept'
      BY <2>1, StaysBound
    <2>3. CASE Live(fd) /\ fdtab[fd].type = "FILE"
      <3>1. /\ fd \in Fds /\ Holds(fd)
            /\ stream' = [stream EXCEPT ![f] = fdtab[fd].hFile]
            /\ call' = [op |-> "fdopen", fd |-> fd, on |-> fdtab[fd].hFile]
        BY <1>10, <2>3 DEF xcefdopen, Live, Holds, Returns
      <3>2. AbstractBound[fd] = fdtab[fd].hFile /\ AbstractBound[fd] # NoHandle
        BY <1>0, <3>1, BoundValues DEF Inv, SlotShape, Holds
      <3>3. Unix!Fdopen(f, fd)
        BY <2>1, <2>2, <3>1, <3>2 DEF Unix!Fdopen, Unix!Returns
      <3>4. QED  BY <2>2, <3>1, <3>3 DEF Unix!Next
    <2>4. CASE ~(Live(fd) /\ fdtab[fd].type = "FILE")
      <3>1. UNCHANGED stream /\ call' = [op |-> "fdopen", fd |-> fd, on |-> NoHandle]
        BY <1>10, <2>4 DEF xcefdopen, Returns
      <3>2. Unix!Fail
        BY <2>2, <3>1 DEF Unix!Fail, Unix!Returns
      <3>3. QED  BY <2>2, <3>2 DEF Unix!Next
    <2>5. QED  BY <2>3, <2>4
  <1>11. CASE UNCHANGED vars
    BY <1>11, StaysBound DEF vars, Unix!vars
  <1>12. ASSUME NEW f \in Files
         PROVE  ~xcefreopen(f)
    BY DEF xcefreopen
  <1>13. QED
    BY <1>3, <1>4, <1>5, <1>6, <1>7, <1>8, <1>9, <1>10, <1>11, <1>12 DEF Next

\* The initial table is bound as a process finds its descriptors.
LEMMA InitUnix == Init => Unix!Init /\ UnixInv
  <1> SUFFICES ASSUME Init PROVE Unix!Init /\ UnixInv
    OBVIOUS
  <1>1. UnixInv
    BY InitInv DEF Init, UnixInv, TidyInv, SlotNames, StdKept, StreamsHaveDescriptors
  <1>2. \A i \in Fds : /\ fdtab[i].type = "NONE"
                       /\ i > 2 <=> i \notin {0, 1, 2}
    BY SizeAssumption DEF Init, Fds
  <1>3. AbstractBound = [i \in Fds |-> IF i \in {0, 1, 2} THEN StdName(i) ELSE NoHandle]
    BY <1>2 DEF Init, AbstractBound
  <1>4. Unix!Init
    BY <1>3 DEF Init, Unix!Init, Unix!Std, Unix!StdObject, StdName
  <1>5. QED  BY <1>1, <1>4

\* The table of ceio.c implements descriptors, for every size and any number of
\* handles and streams, while it does not fill, no stream is moved with freopen and
\* the three standard descriptors stay open (ceio.c:36-49, cestdio.c:46-110).
THEOREM TableImplementsDescriptors ==
    Roomy /\ "freopen" \notin Liberties /\ "closestd" \notin Liberties
        => (Spec => ImplementsDescriptors)
  <1> SUFFICES ASSUME Roomy, "freopen" \notin Liberties, "closestd" \notin Liberties
               PROVE  Spec => ImplementsDescriptors
    OBVIOUS
  <1>1. Init => Unix!Init /\ UnixInv
    BY InitUnix
  <1>2. UnixInv /\ [Next]_vars => UnixInv' /\ [Unix!Next]_Unix!vars
    BY NextUnix
  <1>3. QED  BY <1>1, <1>2, PTL DEF Spec, ImplementsDescriptors, Unix!Spec
==============================================================================
