---------------------------- MODULE CeThreadProofs ----------------------------
(***************************************************************************)
(* For any number of threads, blocks and TLS indices: blocks are never     *)
(* shared and never used after they are freed, and what a thread stores is *)
(* its own as long as no second index is allocated.  When the index is     *)
(* allocated once (the program is started by xceinit, or only _beginthread *)
(* makes its threads) the blocks are the per-thread cells of ThreadLocal,  *)
(* none of them leaks, and every thread of _beginthread closes its handle. *)
(***************************************************************************)
EXTENDS CeThread, TLAPS

AllocatedOnce == CallsXceinit \/ RawThreads = {}

------------------------------------------------------------------------------
(* What holds however often the index is allocated *)

\* Where a block has an owner that has not run yet: nobody has stored in it.
Unborn == {"begin_create", "begin_store", "begin_resume", "start"}

\* Without an index there is no block, and an index not allocated yet hands out none.
IndexShape ==
    /\ tlsindex = Null =>
          /\ heap = {} /\ indexes = {}
          /\ \A t \in Threads :
                pc[t] \in {"none", "xceinit", "user", "begin_index", "exited"}
    /\ tlsindex # Null => tlsindex \in indexes
    /\ \A x \in Indexes \ indexes, t \in Threads : tls[x][t] = Null

\* What each thread's local ptd is, and whose child a suspended thread is.
LocalInv ==
    \A t \in Threads :
        /\ pc[t] \in {"none", "suspended", "stranded", "start"} => Value(t) = Null
        /\ pc[t] \in {"none", "xceinit", "user", "begin_index", "begin_calloc"} =>
              ptd[t] = Null
        /\ pc[t] \in Unborn =>
              ptd[t] # Null /\ ptd[t] # Value(t) /\ block[ptd[t]].cell = Null
        /\ pc[t] \in {"end_close", "end_free"} =>
              ptd[t] # Null /\ Value(t) \in {Null, ptd[t]}
        /\ pc[t] \in {"begin_store", "begin_resume"} =>
              /\ child[t] \in Begun /\ pc[child[t]] = "suspended"
              /\ ptd[child[t]] = ptd[t]

MemInv == TypeOK /\ IndexShape /\ LocalInv /\ BlocksNotShared

\* What PerThread sees of a thread: the cell, and that it has ended.
CellOf(t) == IF Value(t) = Null \/ pc[t] \in Gone \ {"end_free"}
             THEN Null ELSE block[Value(t)].cell
Over(t) == pc[t] \in Gone \ {"end_free"}

\* What OnlyRacesLose says of a step.
StoresOwn == indexes = {} \/ indexes' = indexes => [PerThread!Next]_(PerThread!vars)

------------------------------------------------------------------------------
(* What holds besides when the index is allocated once *)

Running == {"user", "end_close"} \cup Begin

\* Without an index there is one thread.
OneThread ==
    /\ tlsindex = Null =>
          /\ pc[Main] \in {"xceinit", "user", "begin_index"}
          /\ CallsXceinit => pc[Main] = "xceinit"
          /\ \A t \in Threads \ {Main} : pc[t] = "none"
    /\ \A t \in Threads : pc[t] \in {"xceinit", "begin_index"} => tlsindex = Null

\* Which handle is in which block.
BlockInv ==
    \A t \in Threads :
        /\ pc[t] = "begin_resume" => block[ptd[t]]._thandle = child[t]
        /\ pc[t] \in {"end_close", "end_free"} => Value(t) = ptd[t]
        /\ t \in Begun => /\ pc[t] # "xceinit"
                          /\ pc[t] = "start" => block[ptd[t]]._thandle = t
                          /\ pc[t] \in Running =>
                                Value(t) # Null /\ block[Value(t)]._thandle = t
        /\ t \notin Begun => /\ pc[t] \notin {"suspended", "start", "stranded"}
                             /\ pc[t] \in Running /\ Value(t) # Null =>
                                   block[Value(t)]._thandle = Unowned

OnceInv == AllocatedOnce /\ OneThread /\ BlockInv /\ HandleTracksThread /\ NoBlockLeak

------------------------------------------------------------------------------
\* Init has one thread and no memory.
LEMMA InitMemInv == Init => MemInv /\ (AllocatedOnce => OnceInv) /\ PerThread!Init
  <1> SUFFICES ASSUME Init PROVE MemInv /\ (AllocatedOnce => OnceInv) /\ PerThread!Init
    OBVIOUS
  <1>1. TypeOK
    BY ThreadAssumption, BooleanAssumption DEF Init, TypeOK, Labels, Fresh
  <1>2. \A t \in Threads : /\ ptd[t] = Null /\ Value(t) = Null /\ t \notin handle
                           /\ t # Main => pc[t] = "none"
                           /\ t = Main => pc[t] = IF CallsXceinit THEN "xceinit" ELSE "user"
    BY DEF Init, Value
  <1>3. IndexShape /\ OneThread
    BY <1>2, ThreadAssumption DEF Init, IndexShape, OneThread
  <1>4. LocalInv /\ BlockInv
    BY <1>2, ThreadAssumption DEF LocalInv, BlockInv, Begun, Running, Begin, Unborn
  <1>5. BlocksNotShared /\ HandleTracksThread /\ NoBlockLeak
    BY <1>2 DEF BlocksNotShared, Uses, HandleTracksThread, Begun, Gone, NoBlockLeak, Init
  <1>6. PerThread!Init
    BY <1>2 DEF PerThread!Init, Gone
  <1>7. QED  BY <1>1, <1>3, <1>4, <1>5, <1>6 DEF MemInv, OnceInv

\* What TypeOK says of each variable, and where the threads of _beginthread are.
LEMMA Typed ==
    ASSUME MemInv
    PROVE  /\ pc \in [Threads -> Labels] /\ ptd \in [Threads -> Blocks \cup {Null}]
           /\ child \in [Threads -> Threads \cup {Null}]
           /\ tls \in [Indexes -> [Threads -> Blocks \cup {Null}]]
           /\ block \in [Blocks -> [_thandle : Threads \cup {Null, Unowned},
                                    cell : Threads \cup {Null}]]
           /\ heap \subseteq Blocks /\ handle \subseteq Threads
           /\ tlsindex \in Indexes \cup {Null} /\ indexes \subseteq Indexes
           /\ aborted \in BOOLEAN
           /\ Begun \subseteq Threads /\ Main \notin Begun
           /\ \A t \in Threads : Value(t) \in Blocks \cup {Null}
  BY DEF MemInv, TypeOK, Begun, Value

\* A thread beyond its first steps has an index to use.
LEMMA HasIndex ==
    ASSUME MemInv, NEW t \in Threads,
           pc[t] \notin {"none", "xceinit", "user", "begin_index", "exited"}
    PROVE  tlsindex \in Indexes
  BY Typed DEF MemInv, IndexShape

\* A user thread but Main has one too, when it is allocated once.
LEMMA UserHasIndex ==
    ASSUME MemInv, OneThread, NEW t \in Threads, t # Main, pc[t] # "none"
    PROVE  tlsindex \in Indexes
  BY Typed DEF OneThread

\* The blocks of a thread that the following lemmas speak of are among those it uses.
LEMMA Holders ==
    ASSUME MemInv
    PROVE  \A u \in Threads :
              /\ pc[u] \notin Gone \ {"end_free"} /\ Value(u) # Null => Value(u) \in Uses(u)
              /\ pc[u] \in Unborn \cup {"end_close", "end_free"} => ptd[u] \in Uses(u)
              /\ Uses(u) \subseteq heap
              /\ \A v \in Threads \ {u} : Uses(u) \cap Uses(v) = {}
  BY Typed, NullAssumption
     DEF MemInv, LocalInv, BlocksNotShared, Uses, Unborn, Labels, Begin, Ending, Gone

\* A block that is not allocated, or that t uses, is in the way of no other thread.
LEMMA Elsewhere ==
    ASSUME MemInv, NEW t \in Threads, NEW b \in Blocks, b \notin heap \/ b \in Uses(t)
    PROVE  \A u \in Threads \ {t} :
              /\ pc[u] \in Unborn => /\ ptd[u] \in Blocks \ {b} /\ ptd[u] # Value(u)
                                     /\ block[ptd[u]].cell = Null
              /\ pc[u] \in Running /\ Value(u) # Null => Value(u) \in Blocks \ {b}
  <1> SUFFICES ASSUME NEW u \in Threads \ {t}
               PROVE  /\ pc[u] \in Unborn => /\ ptd[u] \in Blocks \ {b} /\ ptd[u] # Value(u)
                                             /\ block[ptd[u]].cell = Null
                      /\ pc[u] \in Running /\ Value(u) # Null => Value(u) \in Blocks \ {b}
    OBVIOUS
  <1>1. b \notin Uses(u)
    BY Holders
  <1>2. pc[u] \in Unborn => /\ ptd[u] # Null /\ ptd[u] # Value(u) /\ ptd[u] \in Uses(u)
                           /\ block[ptd[u]].cell = Null
    BY Holders DEF MemInv, LocalInv
  <1>3. pc[u] \in Running /\ Value(u) # Null => Value(u) \in Uses(u)
    BY Holders DEF Running, Begin, Gone
  <1>4. Uses(u) \subseteq Blocks
    BY Holders, Typed
  <1>5. QED  BY <1>1, <1>2, <1>3, <1>4

\* A step that changes no cell and ends no thread is a stutter of PerThread.
LEMMA CellsStay ==
    ASSUME \A u \in Threads : CellOf(u)' = CellOf(u) /\ Over(u)' = Over(u)
    PROVE  StoresOwn
  BY DEF StoresOwn, CellOf, Over, PerThread!vars

\* A step in which a thread stores its name.
LEMMA CellStored ==
    ASSUME NEW t \in Threads, ~Over(t), CellOf(t)' = t,
           \A u \in Threads \ {t} : CellOf(u)' = CellOf(u),
           \A u \in Threads : Over(u)' = Over(u)
    PROVE  StoresOwn
  <1>1. PerThread!Store(t, t)
    BY DEF CellOf, Over, PerThread!Store
  <1>2. QED  BY <1>1 DEF StoresOwn, PerThread!Next

\* A step in which a thread ends.
LEMMA CellEnds ==
    ASSUME NEW t \in Threads, ~Over(t), Over(t)',
           \A u \in Threads \ {t} : CellOf(u)' = CellOf(u) /\ Over(u)' = Over(u)
    PROVE  StoresOwn
  <1>1. PerThread!End(t)
    BY DEF CellOf, Over, PerThread!End
  <1>2. QED  BY <1>1 DEF StoresOwn, PerThread!Next

\* xceabort stops every thread where it is.
LEMMA AbortStep ==
    ASSUME MemInv, NEW t \in Threads, xceabort
    PROVE  MemInv' /\ StoresOwn /\ (OnceInv => OnceInv')
  <1> USE ThreadAssumption, NullAssumption, UnownedAssumption, Typed
  <1>1. UNCHANGED <<tlsindex, indexes, tls, heap, block, handle, pc, ptd, child>> /\ aborted' = TRUE
    BY DEF xceabort, memory
  <1>2. \A u \in Threads : Value(u)' = Value(u)
    BY <1>1 DEF Value
  <1>3. TypeOK' /\ IndexShape'
    BY <1>1, <1>2 DEF MemInv, TypeOK, IndexShape, Labels, Begin, Ending, Fresh
  <1>4. LocalInv'
    BY <1>1, <1>2, Holders DEF MemInv, LocalInv, Unborn, Gone
  <1>5. \A u \in Threads : Uses(u)' = Uses(u)
    BY <1>1, <1>2, Holders DEF Uses, MemInv, LocalInv, Unborn
  <1>6. BlocksNotShared'
    BY <1>1, <1>5, Holders DEF BlocksNotShared
  <1>7. StoresOwn
    <2>1. \A u \in Threads : CellOf(u)' = CellOf(u) /\ Over(u)' = Over(u)
      BY <1>1, <1>2, Holders DEF CellOf, Over, Gone, MemInv, LocalInv, Unborn
    <2>2. QED  BY <2>1, CellsStay
  <1>8. ASSUME OnceInv
        PROVE  OnceInv'
    <2>1. OneThread'
      BY <1>1, <1>2, <1>8 DEF OnceInv, OneThread
    <2>2. BlockInv'
      BY <1>1, <1>2, <1>8, Holders
         DEF OnceInv, BlockInv, Running, Begin, MemInv, LocalInv, Unborn, Gone
    <2>3. HandleTracksThread'
      BY <1>1, <1>2, <1>8 DEF OnceInv, HandleTracksThread, Gone
    <2>4. NoBlockLeak'
      BY <1>1, <1>2, <1>5, <1>8 DEF OnceInv, NoBlockLeak
    <2>5. QED  BY <1>8, <2>1, <2>2, <2>3, <2>4 DEF OnceInv, AllocatedOnce
  <1>9. QED
    BY <1>3, <1>4, <1>6, <1>7, <1>8 DEF MemInv

\* A stuttering step.
LEMMA StutterStep ==
    ASSUME MemInv, NEW t \in Threads, UNCHANGED vars
    PROVE  MemInv' /\ StoresOwn /\ (OnceInv => OnceInv')
  <1> USE ThreadAssumption, NullAssumption, UnownedAssumption, Typed
  <1>1. UNCHANGED <<tlsindex, indexes, tls, heap, block, handle, pc, ptd, child, aborted>>
    BY DEF vars, memory
  <1>2. \A u \in Threads : Value(u)' = Value(u)
    BY <1>1 DEF Value
  <1>3. TypeOK' /\ IndexShape'
    BY <1>1, <1>2 DEF MemInv, TypeOK, IndexShape, Labels, Begin, Ending, Fresh
  <1>4. LocalInv'
    BY <1>1, <1>2, Holders DEF MemInv, LocalInv, Unborn, Gone
  <1>5. \A u \in Threads : Uses(u)' = Uses(u)
    BY <1>1, <1>2, Holders DEF Uses, MemInv, LocalInv, Unborn
  <1>6. BlocksNotShared'
    BY <1>1, <1>5, Holders DEF BlocksNotShared
  <1>7. StoresOwn
    <2>1. \A u \in Threads : CellOf(u)' = CellOf(u) /\ Over(u)' = Over(u)
      BY <1>1, <1>2, Holders DEF CellOf, Over, Gone, MemInv, LocalInv, Unborn
    <2>2. QED  BY <2>1, CellsStay
  <1>8. ASSUME OnceInv
        PROVE  OnceInv'
    <2>1. OneThread'
      BY <1>1, <1>2, <1>8 DEF OnceInv, OneThread
    <2>2. BlockInv'
      BY <1>1, <1>2, <1>8, Holders
         DEF OnceInv, BlockInv, Running, Begin, MemInv, LocalInv, Unborn, Gone
    <2>3. HandleTracksThread'
      BY <1>1, <1>2, <1>8 DEF OnceInv, HandleTracksThread, Gone
    <2>4. NoBlockLeak'
      BY <1>1, <1>2, <1>5, <1>8 DEF OnceInv, NoBlockLeak
    <2>5. QED  BY <1>8, <2>1, <2>2, <2>3, <2>4 DEF OnceInv, AllocatedOnce
  <1>9. QED
    BY <1>3, <1>4, <1>6, <1>7, <1>8 DEF MemInv

\* Entering _beginthread.
LEMMA BeginThreadStep ==
    ASSUME MemInv, NEW t \in Threads, BeginThread(t)
    PROVE  MemInv' /\ StoresOwn /\ (OnceInv => OnceInv')
  <1> USE ThreadAssumption, NullAssumption, UnownedAssumption, Typed
  <1>1. /\ pc[t] = "user"
        /\ pc' = [pc EXCEPT ![t] = IF tlsindex = Null THEN "begin_index" ELSE "begin_calloc"]
        /\ UNCHANGED <<tlsindex, indexes, tls, heap, block, handle, ptd, child, aborted>>
    BY DEF BeginThread, At, Goto, memory
  <1>2. \A u \in Threads :
            /\ Value(u)' = Value(u)
            /\ u # t => pc'[u] = pc[u]
            /\ pc'[t] = IF tlsindex = Null THEN "begin_index" ELSE "begin_calloc"
    BY <1>1 DEF Value
  <1>3. TypeOK' /\ IndexShape'
    BY <1>1, <1>2 DEF MemInv, TypeOK, IndexShape, Labels, Begin, Ending, Fresh
  <1>4. LocalInv'
    BY <1>1, <1>2, Holders DEF MemInv, LocalInv, Unborn, Gone
  <1>5. \A u \in Threads : Uses(u)' = Uses(u)
    BY <1>1, <1>2, Holders DEF Uses, MemInv, LocalInv, Unborn
  <1>6. BlocksNotShared'
    BY <1>1, <1>5, Holders DEF BlocksNotShared
  <1>7. StoresOwn
    <2>1. \A u \in Threads : CellOf(u)' = CellOf(u) /\ Over(u)' = Over(u)
      BY <1>1, <1>2, Holders DEF CellOf, Over, Gone, MemInv, LocalInv, Unborn
    <2>2. QED  BY <2>1, CellsStay
  <1>8. ASSUME OnceInv
        PROVE  OnceInv'
    <2>1. OneThread'
      BY <1>1, <1>2, <1>8 DEF OnceInv, OneThread
    <2>2. BlockInv'
      BY <1>1, <1>2, <1>8, Holders
         DEF OnceInv, BlockInv, Running, Begin, MemInv, LocalInv, Unborn, Gone
    <2>3. HandleTracksThread'
      BY <1>1, <1>2, <1>8 DEF OnceInv, HandleTracksThread, Gone
    <2>4. NoBlockLeak'
      BY <1>1, <1>2, <1>5, <1>8 DEF OnceInv, NoBlockLeak
    <2>5. QED  BY <1>8, <2>1, <2>2, <2>3, <2>4 DEF OnceInv, AllocatedOnce
  <1>9. QED
    BY <1>3, <1>4, <1>6, <1>7, <1>8 DEF MemInv

\* A thread of CreateThread returns; its block, if it has one, is left behind.
LEMMA RawLeaveStep ==
    ASSUME MemInv, NEW t \in Threads, RawLeave(t)
    PROVE  MemInv' /\ StoresOwn /\ (OnceInv => OnceInv')
  <1> USE ThreadAssumption, NullAssumption, UnownedAssumption, Typed
  <1>1. /\ pc[t] = "user" /\ t \in RawThreads /\ pc' = [pc EXCEPT ![t] = "exited"]
        /\ UNCHANGED <<tlsindex, indexes, tls, heap, block, handle, ptd, child, aborted>>
    BY DEF RawLeave, At, Goto, memory
  <1>2. /\ t \notin Begun /\ t # Main
        /\ \A u \in Threads : /\ Value(u)' = Value(u)
                              /\ pc'[u] = IF u = t THEN "exited" ELSE pc[u]
    BY <1>1 DEF Value, Begun
  <1>3. TypeOK' /\ IndexShape'
    BY <1>1, <1>2 DEF MemInv, TypeOK, IndexShape, Labels, Begin, Ending, Fresh
  <1>4. LocalInv'
    BY <1>1, <1>2, Holders DEF MemInv, LocalInv, Unborn, Gone
  <1>5. Uses(t)' = {} /\ \A u \in Threads \ {t} : Uses(u)' = Uses(u)
    BY <1>1, <1>2, Holders DEF Uses, MemInv, LocalInv, Unborn
  <1>6. BlocksNotShared'
    BY <1>1, <1>5, Holders DEF BlocksNotShared
  <1>7. StoresOwn
    <2>1. /\ ~Over(t) /\ Over(t)'
          /\ \A u \in Threads \ {t} : CellOf(u)' = CellOf(u) /\ Over(u)' = Over(u)
      BY <1>1, <1>2, Holders DEF CellOf, Over, Gone, MemInv, LocalInv, Unborn
    <2>2. QED  BY <2>1, CellEnds
  <1>8. ASSUME OnceInv
        PROVE  OnceInv'
    <2>1. OneThread'
      BY <1>1, <1>2, <1>8, UserHasIndex DEF OnceInv, OneThread
    <2>2. BlockInv'
      BY <1>1, <1>2, <1>8, Holders
         DEF OnceInv, BlockInv, Running, Begin, MemInv, LocalInv, Unborn, Gone
    <2>3. HandleTracksThread'
      BY <1>1, <1>2, <1>8 DEF OnceInv, HandleTracksThread, Gone
    <2>4. NoBlockLeak'
      BY <1>1, <1>2, <1>5, <1>8 DEF OnceInv, NoBlockLeak, Uses, MemInv, LocalInv
    <2>5. QED  BY <1>8, <2>1, <2>2, <2>3, <2>4 DEF OnceInv, AllocatedOnce
  <1>9. QED
    BY <1>3, <1>4, <1>6, <1>7, <1>8 DEF MemInv

\* CreateThread, which without an index only a program without raw threads can call.
LEMMA RawCreateStep ==
    ASSUME MemInv, NEW t \in Threads, NEW v \in Threads, RawCreate(t, v)
    PROVE  MemInv' /\ StoresOwn /\ (OnceInv => OnceInv')
  <1> USE ThreadAssumption, NullAssumption, UnownedAssumption, Typed
  <1>1. /\ pc[t] = "user" /\ pc[v] = "none" /\ v \in RawThreads /\ pc' = [pc EXCEPT ![v] = "user"]
        /\ UNCHANGED <<tlsindex, indexes, tls, heap, block, handle, ptd, child, aborted>>
    BY DEF RawCreate, At, Goto, memory
  <1>2. /\ v \notin Begun /\ Value(v) = Null /\ ptd[v] = Null
        /\ \A u \in Threads : /\ Value(u)' = Value(u)
                              /\ pc'[u] = IF u = v THEN "user" ELSE pc[u]
    BY <1>1 DEF Value, Begun, MemInv, LocalInv, Unborn
  <1>3. TypeOK' /\ IndexShape'
    BY <1>1, <1>2 DEF MemInv, TypeOK, IndexShape, Labels, Begin, Ending, Fresh
  <1>4. LocalInv'
    BY <1>1, <1>2, Holders DEF MemInv, LocalInv, Unborn, Gone
  <1>5. \A u \in Threads : Uses(u)' = Uses(u)
    BY <1>1, <1>2, Holders DEF Uses, MemInv, LocalInv, Unborn
  <1>6. BlocksNotShared'
    BY <1>1, <1>5, Holders DEF BlocksNotShared
  <1>7. StoresOwn
    <2>1. \A u \in Threads : CellOf(u)' = CellOf(u) /\ Over(u)' = Over(u)
      BY <1>1, <1>2, Holders DEF CellOf, Over, Gone, MemInv, LocalInv, Unborn
    <2>2. QED  BY <2>1, CellsStay
  <1>8. ASSUME OnceInv
        PROVE  OnceInv'
    <2>1. OneThread'
      BY <1>1, <1>2, <1>8 DEF OnceInv, OneThread, AllocatedOnce
    <2>2. BlockInv'
      BY <1>1, <1>2, <1>8, Holders
         DEF OnceInv, BlockInv, Running, Begin, MemInv, LocalInv, Unborn, Gone
    <2>3. HandleTracksThread'
      BY <1>1, <1>2, <1>8 DEF OnceInv, HandleTracksThread, Gone
    <2>4. NoBlockLeak'
      BY <1>1, <1>2, <1>5, <1>8 DEF OnceInv, NoBlockLeak
    <2>5. QED  BY <1>8, <2>1, <2>2, <2>3, <2>4 DEF OnceInv, AllocatedOnce
  <1>9. QED
    BY <1>3, <1>4, <1>6, <1>7, <1>8 DEF MemInv

\* TlsAlloc, by xceinit or in _beginthread: the one thread there is has no block yet.
LEMMA AllocIndexStep ==
    ASSUME MemInv, NEW t \in Threads, NEW next \in {"user", "begin_calloc"},
           pc[t] \in {"xceinit", "begin_index"}, ~xceabort, init_multithread(t, next)
    PROVE  MemInv' /\ StoresOwn /\ (OnceInv => OnceInv')
  <1> USE ThreadAssumption, NullAssumption, UnownedAssumption, Typed
  <1>1. /\ tlsindex' \in Indexes \ indexes /\ indexes' = indexes \cup {tlsindex'}
        /\ pc' = [pc EXCEPT ![t] = next]
        /\ UNCHANGED <<tls, heap, block, handle, ptd, child, aborted>>
    BY DEF init_multithread, Goto, memory
  <1>2. /\ ptd[t] = Null
        /\ \A u \in Threads : /\ Value(u)' = Null
                              /\ pc'[u] = IF u = t THEN next ELSE pc[u]
    BY <1>1 DEF Value, MemInv, IndexShape, LocalInv, Unborn
  <1>3. TypeOK' /\ IndexShape'
    BY <1>1, <1>2 DEF MemInv, TypeOK, IndexShape, Labels, Begin, Ending, Fresh
  <1>4. LocalInv'
    BY <1>1, <1>2, Holders DEF MemInv, LocalInv, Unborn, Gone
  <1>5. \A u \in Threads : Uses(u)' \subseteq Uses(u)
    BY <1>1, <1>2, Holders DEF Uses, MemInv, LocalInv, Unborn
  <1>6. BlocksNotShared'
    BY <1>1, <1>5, Holders DEF BlocksNotShared
  <1>7. ASSUME indexes = {}
        PROVE  StoresOwn
    <2>a. \A u \in Threads : Value(u) = Null
      BY <1>7 DEF Value, MemInv, IndexShape
    <2>1. \A u \in Threads : CellOf(u)' = CellOf(u) /\ Over(u)' = Over(u)
      BY <1>1, <1>2, <2>a DEF CellOf, Over, Gone
    <2>2. QED  BY <2>1, CellsStay
  <1>8. ASSUME OnceInv
        PROVE  OnceInv'
    <2>a. /\ tlsindex = Null /\ t = Main /\ t \notin Begun /\ heap = {}
          /\ \A u \in Threads \ {t} : pc[u] = "none"
      BY <1>8 DEF OnceInv, OneThread, MemInv, IndexShape
    <2>1. OneThread'
      BY <1>1, <1>2, <1>8, <2>a DEF OnceInv, OneThread
    <2>2. BlockInv'
      BY <1>1, <1>2, <1>8, <2>a, Holders
         DEF OnceInv, BlockInv, Running, Begin, MemInv, LocalInv, Unborn, Gone
    <2>3. HandleTracksThread'
      BY <1>1, <1>2, <1>8, <2>a DEF OnceInv, HandleTracksThread, Gone
    <2>4. NoBlockLeak'
      BY <1>1, <2>a DEF NoBlockLeak
    <2>5. QED  BY <1>8, <2>1, <2>2, <2>3, <2>4 DEF OnceInv, AllocatedOnce
  <1>9. indexes' # indexes
    BY <1>1
  <1>10. QED
    BY <1>3, <1>4, <1>6, <1>7, <1>8, <1>9 DEF MemInv, StoresOwn

\* _beginthread returns -1 because calloc did.
LEMMA CallocFailsStep ==
    ASSUME MemInv, NEW t \in Threads, pc[t] = "begin_calloc", Goto(t, "user"),
           UNCHANGED <<tlsindex, indexes, memory, handle, ptd, child, aborted>>
    PROVE  MemInv' /\ StoresOwn /\ (OnceInv => OnceInv')
  <1> USE ThreadAssumption, NullAssumption, UnownedAssumption, Typed
  <1>1. /\ pc' = [pc EXCEPT ![t] = "user"] /\ tlsindex \in Indexes
        /\ UNCHANGED <<tlsindex, indexes, tls, heap, block, handle, ptd, child, aborted>>
    BY HasIndex DEF Goto, memory
  <1>2. \A u \in Threads : Value(u)' = Value(u) /\ pc'[u] = IF u = t THEN "user" ELSE pc[u]
    BY <1>1 DEF Value
  <1>3. TypeOK' /\ IndexShape'
    BY <1>1, <1>2 DEF MemInv, TypeOK, IndexShape, Labels, Begin, Ending, Fresh
  <1>4. LocalInv'
    BY <1>1, <1>2, Holders DEF MemInv, LocalInv, Unborn, Gone
  <1>5. \A u \in Threads : Uses(u)' = Uses(u)
    BY <1>1, <1>2, Holders DEF Uses, MemInv, LocalInv, Unborn
  <1>6. BlocksNotShared'
    BY <1>1, <1>5, Holders DEF BlocksNotShared
  <1>7. StoresOwn
    <2>1. \A u \in Threads : CellOf(u)' = CellOf(u) /\ Over(u)' = Over(u)
      BY <1>1, <1>2, Holders DEF CellOf, Over, Gone, MemInv, LocalInv, Unborn
    <2>2. QED  BY <2>1, CellsStay
  <1>8. ASSUME OnceInv
        PROVE  OnceInv'
    <2>1. OneThread'
      BY <1>1, <1>2, <1>8 DEF OnceInv, OneThread
    <2>2. BlockInv'
      BY <1>1, <1>2, <1>8, Holders
         DEF OnceInv, BlockInv, Running, Begin, MemInv, LocalInv, Unborn, Gone
    <2>3. HandleTracksThread'
      BY <1>1, <1>2, <1>8 DEF OnceInv, HandleTracksThread, Gone
    <2>4. NoBlockLeak'
      BY <1>1, <1>2, <1>5, <1>8 DEF OnceInv, NoBlockLeak
    <2>5. QED  BY <1>8, <2>1, <2>2, <2>3, <2>4 DEF OnceInv, AllocatedOnce
  <1>9. QED
    BY <1>3, <1>4, <1>6, <1>7, <1>8 DEF MemInv

\* _beginthread has a block no thread uses.
LEMMA CallocStep ==
    ASSUME MemInv, NEW t \in Threads, NEW b \in Blocks \ heap,
           pc[t] = "begin_calloc", Goto(t, "begin_create"),
           heap' = heap \cup {b}, block' = [block EXCEPT ![b] = Fresh],
           ptd' = [ptd EXCEPT ![t] = b],
           UNCHANGED <<tlsindex, indexes, tls, handle, child, aborted>>
    PROVE  MemInv' /\ StoresOwn /\ (OnceInv => OnceInv')
  <1> USE ThreadAssumption, NullAssumption, UnownedAssumption, Typed
  <1>1. /\ pc' = [pc EXCEPT ![t] = "begin_create"] /\ tlsindex \in Indexes
    BY HasIndex DEF Goto
  <1>2. /\ \A u \in Threads : /\ Value(u)' = Value(u) /\ b \notin Uses(u)
                              /\ pc'[u] = IF u = t THEN "begin_create" ELSE pc[u]
                              /\ ptd'[u] = IF u = t THEN b ELSE ptd[u]
        /\ block'[b] = Fresh /\ \A c \in Blocks \ {b} : block'[c] = block[c]
    BY <1>1, Holders DEF Value
  <1>3. TypeOK' /\ IndexShape'
    BY <1>1, <1>2 DEF MemInv, TypeOK, IndexShape, Labels, Begin, Ending, Fresh
  <1>a. \A u \in Threads \ {t} :
           /\ pc[u] \in Unborn => /\ ptd[u] \in Blocks \ {b} /\ ptd[u] # Value(u)
                                  /\ block[ptd[u]].cell = Null
           /\ pc[u] \in Running /\ Value(u) # Null => Value(u) \in Blocks \ {b}
    BY Elsewhere
  <1>4. LocalInv'
    <2>1. ASSUME NEW u \in Threads \ {t}, pc[u] \in Unborn
          PROVE  ptd'[u] # Null /\ ptd'[u] # Value(u)' /\ block'[ptd'[u]].cell = Null
      <3>1. ptd[u] \in Blocks \ {b} /\ ptd[u] # Value(u) /\ block[ptd[u]].cell = Null
        BY <1>a, <2>1
      <3>2. QED  BY <1>2, <3>1
    <2>2. ptd'[t] # Null /\ ptd'[t] # Value(t)' /\ block'[ptd'[t]].cell = Null
      <3>1. Value(t) # Null => Value(t) \in heap
        BY Holders DEF Gone
      <3>2. QED  BY <1>2, <3>1 DEF Fresh
    <2>3. QED
      BY <1>1, <1>2, <2>1, <2>2 DEF MemInv, LocalInv, Unborn
  <1>5. Uses(t)' = Uses(t) \cup {b} /\ \A u \in Threads \ {t} : Uses(u)' = Uses(u)
    BY <1>1, <1>2, Holders DEF Uses, MemInv, LocalInv, Unborn
  <1>6. BlocksNotShared'
    BY <1>2, <1>5, Holders DEF BlocksNotShared
  <1>7. StoresOwn
    <2>1. \A u \in Threads : CellOf(u)' = CellOf(u) /\ Over(u)' = Over(u)
      BY <1>1, <1>2, Holders DEF CellOf, Over, Gone, MemInv, LocalInv, Unborn
    <2>2. QED  BY <2>1, CellsStay
  <1>8. ASSUME OnceInv
        PROVE  OnceInv'
    <2>1. OneThread'
      BY <1>1, <1>2, <1>8 DEF OnceInv, OneThread
    <2>2. BlockInv'
      <3>1. \A u \in Threads : /\ pc[u] \in {"begin_resume", "start"} => ptd[u] \in Uses(u)
                               /\ pc[u] \in Running /\ Value(u) # Null => Value(u) \in Uses(u)
        BY Holders DEF Unborn, Running, Begin, Gone
      <3>2. \A u \in Threads :
               /\ pc[u] \in {"begin_resume", "start"} => block'[ptd[u]] = block[ptd[u]]
               /\ pc[u] \in Running /\ Value(u) # Null => block'[Value(u)] = block[Value(u)]
        BY <1>2, <3>1 DEF MemInv, LocalInv, Unborn
      <3>3. QED
        BY <1>1, <1>2, <1>8, <3>2 DEF OnceInv, BlockInv, Running, Begin
    <2>3. HandleTracksThread'
      BY <1>1, <1>2, <1>8 DEF OnceInv, HandleTracksThread, Gone
    <2>4. NoBlockLeak'
      BY <1>1, <1>2, <1>5, <1>8 DEF OnceInv, NoBlockLeak
    <2>5. QED  BY <1>8, <2>1, <2>2, <2>3, <2>4 DEF OnceInv, AllocatedOnce
  <1>9. QED
    BY <1>3, <1>4, <1>6, <1>7, <1>8 DEF MemInv

\* CreateThread failed: nobody but the creator knew the block it frees.
LEMMA CreateFailsStep ==
    ASSUME MemInv, NEW t \in Threads, pc[t] = "begin_create", Goto(t, "user"), Return(t),
           heap' = heap \ {ptd[t]},
           UNCHANGED <<tlsindex, indexes, tls, block, handle, aborted>>
    PROVE  MemInv' /\ StoresOwn /\ (OnceInv => OnceInv')
  <1> USE ThreadAssumption, NullAssumption, UnownedAssumption, Typed
  <1>1. /\ pc' = [pc EXCEPT ![t] = "user"] /\ tlsindex \in Indexes
        /\ ptd' = [ptd EXCEPT ![t] = Null] /\ child' = [child EXCEPT ![t] = Null]
    BY HasIndex DEF Goto, Return
  <1>2. \A u \in Threads : /\ Value(u)' = Value(u)
                           /\ pc'[u] = IF u = t THEN "user" ELSE pc[u]
                           /\ ptd'[u] = IF u = t THEN Null ELSE ptd[u]
                           /\ u # t => child'[u] = child[u]
    BY <1>1 DEF Value
  <1>3. TypeOK' /\ IndexShape'
    BY <1>1, <1>2 DEF MemInv, TypeOK, IndexShape, Labels, Begin, Ending, Fresh
  <1>4. LocalInv'
    BY <1>1, <1>2, Holders DEF MemInv, LocalInv, Unborn, Gone
  <1>5. /\ Uses(t)' = Uses(t) \ {ptd[t]} /\ ptd[t] \in Uses(t)
        /\ \A u \in Threads \ {t} : Uses(u)' = Uses(u)
    BY <1>1, <1>2, Holders DEF Uses, MemInv, LocalInv, Unborn
  <1>6. BlocksNotShared'
    BY <1>1, <1>5, Holders DEF BlocksNotShared
  <1>7. StoresOwn
    <2>1. \A u \in Threads : CellOf(u)' = CellOf(u) /\ Over(u)' = Over(u)
      BY <1>1, <1>2, Holders DEF CellOf, Over, Gone, MemInv, LocalInv, Unborn
    <2>2. QED  BY <2>1, CellsStay
  <1>8. ASSUME OnceInv
        PROVE  OnceInv'
    <2>1. OneThread'
      BY <1>1, <1>2, <1>8 DEF OnceInv, OneThread
    <2>2. BlockInv'
      BY <1>1, <1>2, <1>8, Holders
         DEF OnceInv, BlockInv, Running, Begin, MemInv, LocalInv, Unborn, Gone
    <2>3. HandleTracksThread'
      BY <1>1, <1>2, <1>8 DEF OnceInv, HandleTracksThread, Gone
    <2>4. NoBlockLeak'
      BY <1>1, <1>2, <1>5, <1>8 DEF OnceInv, NoBlockLeak
    <2>5. QED  BY <1>8, <2>1, <2>2, <2>3, <2>4 DEF OnceInv, AllocatedOnce
  <1>9. QED
    BY <1>3, <1>4, <1>6, <1>7, <1>8 DEF MemInv

\* CreateThread made v, suspended, with the creator's block as its argument.
LEMMA CreateStep ==
    ASSUME MemInv, NEW t \in Threads, NEW v \in Begun, pc[v] = "none",
           pc[t] = "begin_create",
           pc' = [pc EXCEPT ![t] = "begin_store", ![v] = "suspended"],
           handle' = handle \cup {v}, ptd' = [ptd EXCEPT ![v] = ptd[t]],
           child' = [child EXCEPT ![t] = v],
           UNCHANGED <<tlsindex, indexes, tls, heap, block, aborted>>
    PROVE  MemInv' /\ StoresOwn /\ (OnceInv => OnceInv')
  <1> USE ThreadAssumption, NullAssumption, UnownedAssumption, Typed
  <1>1. tlsindex \in Indexes /\ v # t /\ v # Main
    BY HasIndex
  <1>2. \A u \in Threads : /\ Value(u)' = Value(u)
                           /\ pc'[u] = IF u = t THEN "begin_store"
                                       ELSE IF u = v THEN "suspended" ELSE pc[u]
                           /\ ptd'[u] = IF u = v THEN ptd[t] ELSE ptd[u]
                           /\ child'[u] = IF u = t THEN v ELSE child[u]
    BY <1>1 DEF Value
  <1>3. TypeOK' /\ IndexShape'
    BY <1>1, <1>2 DEF MemInv, TypeOK, IndexShape, Labels, Begin, Ending, Fresh
  <1>4. LocalInv'
    BY <1>1, <1>2, Holders DEF MemInv, LocalInv, Unborn, Gone
  <1>5. \A u \in Threads : Uses(u)' = Uses(u)
    BY <1>1, <1>2, Holders DEF Uses, MemInv, LocalInv, Unborn
  <1>6. BlocksNotShared'
    BY <1>1, <1>5, Holders DEF BlocksNotShared
  <1>7. StoresOwn
    <2>1. \A u \in Threads : CellOf(u)' = CellOf(u) /\ Over(u)' = Over(u)
      BY <1>1, <1>2, Holders DEF CellOf, Over, Gone, MemInv, LocalInv, Unborn
    <2>2. QED  BY <2>1, CellsStay
  <1>8. ASSUME OnceInv
        PROVE  OnceInv'
    <2>1. OneThread'
      BY <1>1, <1>2, <1>8 DEF OnceInv, OneThread
    <2>2. BlockInv'
      BY <1>1, <1>2, <1>8, Holders
         DEF OnceInv, BlockInv, Running, Begin, MemInv, LocalInv, Unborn, Gone
    <2>3. HandleTracksThread'
      BY <1>1, <1>2, <1>8 DEF OnceInv, HandleTracksThread, Gone
    <2>4. NoBlockLeak'
      BY <1>1, <1>2, <1>5, <1>8 DEF OnceInv, NoBlockLeak
    <2>5. QED  BY <1>8, <2>1, <2>2, <2>3, <2>4 DEF OnceInv, AllocatedOnce
  <1>9. QED
    BY <1>3, <1>4, <1>6, <1>7, <1>8 DEF MemInv

\* The handle goes into the block while the thread is still suspended.
LEMMA StoreHandleStep ==
    ASSUME MemInv, NEW t \in Threads, BeginStore(t)
    PROVE  MemInv' /\ StoresOwn /\ (OnceInv => OnceInv')
  <1> USE ThreadAssumption, NullAssumption, UnownedAssumption, Typed
  <1>1. /\ pc[t] = "begin_store" /\ pc' = [pc EXCEPT ![t] = "begin_resume"]
        /\ ptd[t] \in Blocks
        /\ block' = [block EXCEPT ![ptd[t]]._thandle = child[t]]
        /\ tlsindex \in Indexes
        /\ UNCHANGED <<tlsindex, indexes, tls, heap, handle, ptd, child, aborted>>
    BY HasIndex DEF BeginStore, At, Goto, MemInv, LocalInv, Unborn
  <1>2. /\ \A u \in Threads : /\ Value(u)' = Value(u)
                              /\ pc'[u] = IF u = t THEN "begin_resume" ELSE pc[u]
        /\ \A c \in Blocks \ {ptd[t]} : block'[c] = block[c]
        /\ block'[ptd[t]]._thandle = child[t]
    BY <1>1 DEF Value
  <1>3. TypeOK' /\ IndexShape'
    BY <1>1, <1>2 DEF MemInv, TypeOK, IndexShape, Labels, Begin, Ending, Fresh
  <1>4. LocalInv'
    BY <1>1, <1>2, Holders DEF MemInv, LocalInv, Unborn, Gone
  <1>5. \A u \in Threads : Uses(u)' = Uses(u)
    BY <1>1, <1>2, Holders DEF Uses, MemInv, LocalInv, Unborn
  <1>6. BlocksNotShared'
    BY <1>1, <1>5, Holders DEF BlocksNotShared
  <1>7. StoresOwn
    <2>1. \A u \in Threads : CellOf(u)' = CellOf(u) /\ Over(u)' = Over(u)
      BY <1>1, <1>2, Holders DEF CellOf, Over, Gone, MemInv, LocalInv, Unborn
    <2>2. QED  BY <2>1, CellsStay
  <1>8. ASSUME OnceInv
        PROVE  OnceInv'
    <2>1. OneThread'
      BY <1>1, <1>2, <1>8 DEF OnceInv, OneThread
    <2>2. BlockInv'
      <3>1. \A u \in Threads \ {t} : /\ pc[u] \in {"begin_resume", "start"} => ptd[u] # ptd[t]
                                     /\ pc[u] \in Running => Value(u) # ptd[t]
        BY <1>1, Holders DEF Unborn, Running, Begin, Gone
      <3>2. QED
        BY <1>1, <1>2, <1>8, <3>1
           DEF OnceInv, BlockInv, Running, Begin, MemInv, LocalInv, Unborn
    <2>3. HandleTracksThread'
      BY <1>1, <1>2, <1>8 DEF OnceInv, HandleTracksThread, Gone
    <2>4. NoBlockLeak'
      BY <1>1, <1>2, <1>5, <1>8 DEF OnceInv, NoBlockLeak
    <2>5. QED  BY <1>8, <2>1, <2>2, <2>3, <2>4 DEF OnceInv, AllocatedOnce
  <1>9. QED
    BY <1>3, <1>4, <1>6, <1>7, <1>8 DEF MemInv

\* From ResumeThread on the block is the child's.
LEMMA ResumeStep ==
    ASSUME MemInv, NEW t \in Threads, pc[t] = "begin_resume",
           pc' = [pc EXCEPT ![t] = "user", ![child[t]] = "start"], Return(t),
           UNCHANGED <<tlsindex, indexes, tls, heap, block, handle, aborted>>
    PROVE  MemInv' /\ StoresOwn /\ (OnceInv => OnceInv')
  <1> USE ThreadAssumption, NullAssumption, UnownedAssumption, Typed
  <1>1. /\ ptd' = [ptd EXCEPT ![t] = Null] /\ child' = [child EXCEPT ![t] = Null]
        /\ tlsindex \in Indexes /\ child[t] \in Begun /\ child[t] # t
        /\ pc[child[t]] = "suspended" /\ ptd[child[t]] = ptd[t]
        /\ \A u \in Threads \ {t} :
              pc[u] \in {"begin_store", "begin_resume"} => child[u] # child[t]
    BY HasIndex, Holders DEF Return, MemInv, LocalInv, Unborn
  <1>2. \A u \in Threads : /\ Value(u)' = Value(u)
                           /\ pc'[u] = IF u = t THEN "user"
                                       ELSE IF u = child[t] THEN "start" ELSE pc[u]
                           /\ ptd'[u] = IF u = t THEN Null ELSE ptd[u]
                           /\ u # t => child'[u] = child[u]
    BY <1>1 DEF Value
  <1>3. TypeOK' /\ IndexShape'
    BY <1>1, <1>2 DEF MemInv, TypeOK, IndexShape, Labels, Begin, Ending, Fresh
  <1>4. LocalInv'
    BY <1>1, <1>2, Holders DEF MemInv, LocalInv, Unborn, Gone
  <1>k. PICK k \in Begun : k = child[t]
    BY <1>1
  <1>5. /\ Uses(t)' = Uses(t) \ {ptd[t]} /\ ptd[t] \in Uses(t)
        /\ Uses(k)' = {ptd[t]} /\ Uses(k) = {}
        /\ \A u \in Threads \ {t, k} : Uses(u)' = Uses(u)
    <2>1. /\ pc'[k] = "start" /\ ptd'[k] = ptd[t] /\ pc'[t] = "user" /\ ptd'[t] = Null
          /\ Value(t)' = Value(t) /\ ptd[t] # Null /\ ptd[t] # Value(t) /\ k # t
      BY <1>1, <1>2, <1>k DEF MemInv, LocalInv, Unborn
    <2>2. Uses(t)' = Uses(t) \ {ptd[t]} /\ ptd[t] \in Uses(t)
      BY <1>1, <2>1 DEF Uses
    <2>3. Uses(k)' = {ptd[t]} /\ Uses(k) = {}
      BY <1>1, <1>k, <2>1 DEF Uses
    <2>4. \A u \in Threads \ {t, k} : Uses(u)' = Uses(u)
      BY <1>1, <1>2, <1>k DEF Uses
    <2>5. QED  BY <2>2, <2>3, <2>4
  <1>6. BlocksNotShared'
    <2>1. \A u \in Threads : Uses(u)' \subseteq heap'
      BY <1>1, <1>k, <1>5, Holders
    <2>2. \A u, v \in Threads : u # v => Uses(u)' \cap Uses(v)' = {}
      BY <1>k, <1>5, Holders
    <2>3. QED  BY <2>1, <2>2 DEF BlocksNotShared
  <1>7. StoresOwn
    <2>1. \A u \in Threads : CellOf(u)' = CellOf(u) /\ Over(u)' = Over(u)
      BY <1>1, <1>2, Holders DEF CellOf, Over, Gone, MemInv, LocalInv, Unborn
    <2>2. QED  BY <2>1, CellsStay
  <1>8. ASSUME OnceInv
        PROVE  OnceInv'
    <2>1. OneThread'
      BY <1>1, <1>2, <1>8 DEF OnceInv, OneThread
    <2>2. BlockInv'
      BY <1>1, <1>2, <1>8, Holders
         DEF OnceInv, BlockInv, Running, Begin, MemInv, LocalInv, Unborn, Gone
    <2>3. HandleTracksThread'
      BY <1>1, <1>2, <1>8 DEF OnceInv, HandleTracksThread, Gone
    <2>4. NoBlockLeak'
      BY <1>1, <1>2, <1>k, <1>5, <1>8 DEF OnceInv, NoBlockLeak
    <2>5. QED  BY <1>8, <2>1, <2>2, <2>3, <2>4 DEF OnceInv, AllocatedOnce
  <1>9. QED
    BY <1>3, <1>4, <1>6, <1>7, <1>8 DEF MemInv

\* ResumeThread failed: the child will never run, so its block may go.
LEMMA StrandStep ==
    ASSUME MemInv, NEW t \in Threads, pc[t] = "begin_resume",
           pc' = [pc EXCEPT ![t] = "user", ![child[t]] = "stranded"], Return(t),
           heap' = heap \ {ptd[t]},
           UNCHANGED <<tlsindex, indexes, tls, block, handle, aborted>>
    PROVE  MemInv' /\ StoresOwn /\ (OnceInv => OnceInv')
  <1> USE ThreadAssumption, NullAssumption, UnownedAssumption, Typed
  <1>1. /\ ptd' = [ptd EXCEPT ![t] = Null] /\ child' = [child EXCEPT ![t] = Null]
        /\ tlsindex \in Indexes /\ child[t] \in Begun /\ child[t] # t
        /\ pc[child[t]] = "suspended" /\ ptd[child[t]] = ptd[t]
        /\ \A u \in Threads \ {t} :
              pc[u] \in {"begin_store", "begin_resume"} => child[u] # child[t]
    BY HasIndex, Holders DEF Return, MemInv, LocalInv, Unborn
  <1>2. \A u \in Threads : /\ Value(u)' = Value(u)
                           /\ pc'[u] = IF u = t THEN "user"
                                       ELSE IF u = child[t] THEN "stranded" ELSE pc[u]
                           /\ ptd'[u] = IF u = t THEN Null ELSE ptd[u]
                           /\ u # t => child'[u] = child[u]
    BY <1>1 DEF Value
  <1>3. TypeOK' /\ IndexShape'
    BY <1>1, <1>2 DEF MemInv, TypeOK, IndexShape, Labels, Begin, Ending, Fresh
  <1>4. LocalInv'
    BY <1>1, <1>2, Holders DEF MemInv, LocalInv, Unborn, Gone
  <1>5. /\ Uses(t)' = Uses(t) \ {ptd[t]} /\ ptd[t] \in Uses(t)
        /\ \A u \in Threads \ {t} : Uses(u)' = Uses(u)
    BY <1>1, <1>2, Holders DEF Uses, MemInv, LocalInv, Unborn
  <1>6. BlocksNotShared'
    BY <1>1, <1>5, Holders DEF BlocksNotShared
  <1>7. StoresOwn
    <2>1. \A u \in Threads : CellOf(u)' = CellOf(u) /\ Over(u)' = Over(u)
      BY <1>1, <1>2, Holders DEF CellOf, Over, Gone, MemInv, LocalInv, Unborn
    <2>2. QED  BY <2>1, CellsStay
  <1>8. ASSUME OnceInv
        PROVE  OnceInv'
    <2>1. OneThread'
      BY <1>1, <1>2, <1>8 DEF OnceInv, OneThread
    <2>2. BlockInv'
      BY <1>1, <1>2, <1>8, Holders
         DEF OnceInv, BlockInv, Running, Begin, MemInv, LocalInv, Unborn, Gone
    <2>3. HandleTracksThread'
      BY <1>1, <1>2, <1>8 DEF OnceInv, HandleTracksThread, Gone
    <2>4. NoBlockLeak'
      BY <1>1, <1>2, <1>5, <1>8 DEF OnceInv, NoBlockLeak
    <2>5. QED  BY <1>8, <2>1, <2>2, <2>3, <2>4 DEF OnceInv, AllocatedOnce
  <1>9. QED
    BY <1>3, <1>4, <1>6, <1>7, <1>8 DEF MemInv

\* _threadstart hangs the block on the TLS index.
LEMMA StartTlsStep ==
    ASSUME MemInv, NEW t \in Threads, At(t, "start"), Goto(t, "user"),
           tls' = [tls EXCEPT ![tlsindex][t] = ptd[t]], ptd' = [ptd EXCEPT ![t] = Null],
           UNCHANGED <<tlsindex, indexes, heap, block, handle, child, aborted>>
    PROVE  MemInv' /\ StoresOwn /\ (OnceInv => OnceInv')
  <1> USE ThreadAssumption, NullAssumption, UnownedAssumption, Typed
  <1>1. /\ pc[t] = "start" /\ pc' = [pc EXCEPT ![t] = "user"]
        /\ tls' = [tls EXCEPT ![tlsindex][t] = ptd[t]]
        /\ ptd' = [ptd EXCEPT ![t] = Null] /\ tlsindex \in Indexes
        /\ UNCHANGED <<tlsindex, indexes, heap, block, handle, child, aborted>>
    BY HasIndex DEF At, Goto
  <1>2. /\ ptd[t] # Null
        /\ \A u \in Threads : /\ Value(u)' = IF u = t THEN ptd[t] ELSE Value(u)
                              /\ pc'[u] = IF u = t THEN "user" ELSE pc[u]
                              /\ ptd'[u] = IF u = t THEN Null ELSE ptd[u]
    BY <1>1 DEF Value, MemInv, LocalInv, Unborn
  <1>3. TypeOK' /\ IndexShape'
    BY <1>1, <1>2 DEF MemInv, TypeOK, IndexShape, Labels, Begin, Ending, Fresh
  <1>4. LocalInv'
    BY <1>1, <1>2, Holders DEF MemInv, LocalInv, Unborn, Gone
  <1>5. \A u \in Threads : Uses(u)' = Uses(u)
    BY <1>1, <1>2, Holders DEF Uses, MemInv, LocalInv, Unborn
  <1>6. BlocksNotShared'
    BY <1>1, <1>5, Holders DEF BlocksNotShared
  <1>7. StoresOwn
    <2>1. \A u \in Threads : CellOf(u)' = CellOf(u) /\ Over(u)' = Over(u)
      BY <1>1, <1>2, Holders DEF CellOf, Over, Gone, MemInv, LocalInv, Unborn
    <2>2. QED  BY <2>1, CellsStay
  <1>8. ASSUME OnceInv
        PROVE  OnceInv'
    <2>1. OneThread'
      BY <1>1, <1>2, <1>8 DEF OnceInv, OneThread
    <2>2. BlockInv'
      BY <1>1, <1>2, <1>8, Holders
         DEF OnceInv, BlockInv, Running, Begin, MemInv, LocalInv, Unborn, Gone
    <2>3. HandleTracksThread'
      BY <1>1, <1>2, <1>8 DEF OnceInv, HandleTracksThread, Gone
    <2>4. NoBlockLeak'
      BY <1>1, <1>2, <1>5, <1>8 DEF OnceInv, NoBlockLeak
    <2>5. QED  BY <1>8, <2>1, <2>2, <2>3, <2>4 DEF OnceInv, AllocatedOnce
  <1>9. QED
    BY <1>3, <1>4, <1>6, <1>7, <1>8 DEF MemInv

LEMMA StartStep ==
    ASSUME MemInv, NEW t \in Threads, ThreadStart(t)
    PROVE  MemInv' /\ StoresOwn /\ (OnceInv => OnceInv')
  BY StartTlsStep, AbortStep DEF ThreadStart

\* A store into the block the thread has.
LEMMA StoreOldStep ==
    ASSUME MemInv, NEW t \in Threads, pc[t] = "user", NEW b \in Blocks, b = Value(t),
           block' = [block EXCEPT ![b] = [_thandle |-> block[b]._thandle, cell |-> t]],
           UNCHANGED <<tlsindex, indexes, tls, heap, handle, pc, ptd, child, aborted>>
    PROVE  MemInv' /\ StoresOwn /\ (OnceInv => OnceInv')
  <1> USE ThreadAssumption, NullAssumption, UnownedAssumption, Typed
  <1>1. /\ tlsindex # Null
        /\ \A c \in Blocks : block'[c]._thandle = block[c]._thandle
    BY DEF Value
  <1>2. \A u \in Threads : Value(u)' = Value(u)
    BY DEF Value
  <1>3. TypeOK' /\ IndexShape'
    BY <1>1, <1>2 DEF MemInv, TypeOK, IndexShape, Labels, Begin, Ending, Fresh
  <1>a. b \in Uses(t)
    BY Holders DEF Gone
  <1>b. \A u \in Threads \ {t} :
           /\ pc[u] \in Unborn => /\ ptd[u] \in Blocks \ {b} /\ ptd[u] # Value(u)
                                  /\ block[ptd[u]].cell = Null
           /\ pc[u] \in Running /\ Value(u) # Null => Value(u) \in Blocks \ {b}
    BY <1>a, Elsewhere
  <1>4. LocalInv'
    <2>1. ASSUME NEW u \in Threads \ {t}, pc[u] \in Unborn
          PROVE  ptd[u] # Null /\ ptd[u] # Value(u)' /\ block'[ptd[u]].cell = Null
      <3>1. ptd[u] \in Blocks \ {b} /\ ptd[u] # Value(u) /\ block[ptd[u]].cell = Null
        BY <1>b, <2>1
      <3>2. block'[ptd[u]] = block[ptd[u]]
        BY <3>1
      <3>3. QED  BY <1>2, <3>1, <3>2
    <2>2. QED
      BY <1>1, <1>2, <2>1 DEF MemInv, LocalInv, Unborn
  <1>5. \A u \in Threads : Uses(u)' = Uses(u)
    BY <1>1, <1>2, Holders DEF Uses, MemInv, LocalInv, Unborn
  <1>6. BlocksNotShared'
    BY <1>1, <1>5, Holders DEF BlocksNotShared
  <1>7. StoresOwn
    <2>1. /\ ~Over(t) /\ CellOf(t)' = t /\ \A u \in Threads \ {t} : CellOf(u)' = CellOf(u)
          /\ \A u \in Threads : Over(u)' = Over(u)
      BY <1>1, <1>2, Holders DEF CellOf, Over, Gone, MemInv, LocalInv, Unborn
    <2>2. QED  BY <2>1, CellStored
  <1>8. ASSUME OnceInv
        PROVE  OnceInv'
    <2>1. OneThread'
      BY <1>1, <1>2, <1>8 DEF OnceInv, OneThread
    <2>2. BlockInv'
      BY <1>1, <1>2, <1>8, Holders
         DEF OnceInv, BlockInv, Running, Begin, MemInv, LocalInv, Unborn, Gone
    <2>3. HandleTracksThread'
      BY <1>1, <1>2, <1>8 DEF OnceInv, HandleTracksThread, Gone
    <2>4. NoBlockLeak'
      BY <1>1, <1>2, <1>5, <1>8 DEF OnceInv, NoBlockLeak
    <2>5. QED  BY <1>8, <2>1, <2>2, <2>3, <2>4 DEF OnceInv, AllocatedOnce
  <1>9. QED
    BY <1>3, <1>4, <1>6, <1>7, <1>8 DEF MemInv

\* The first store of a thread not made by _beginthread.
LEMMA StoreNewStep ==
    ASSUME MemInv, NEW t \in Threads, pc[t] = "user", NEW b \in Blocks \ heap,
           heap' = heap \cup {b}, tls' = [tls EXCEPT ![tlsindex][t] = b],
           block' = [block EXCEPT ![b] = [_thandle |-> Unowned, cell |-> t]],
           tlsindex # Null, Value(t) = Null,
           UNCHANGED <<tlsindex, indexes, handle, pc, ptd, child, aborted>>
    PROVE  MemInv' /\ StoresOwn /\ (OnceInv => OnceInv')
  <1> USE ThreadAssumption, NullAssumption, UnownedAssumption, Typed
  <1>1. /\ tlsindex \in Indexes /\ b # Null
        /\ block'[b]._thandle = Unowned /\ \A c \in Blocks \ {b} : block'[c] = block[c]
    OBVIOUS
  <1>2. \A u \in Threads : Value(u)' = IF u = t THEN b ELSE Value(u)
    BY <1>1 DEF Value
  <1>3. TypeOK' /\ IndexShape'
    BY <1>1, <1>2 DEF MemInv, TypeOK, IndexShape, Labels, Begin, Ending, Fresh
  <1>a. \A u \in Threads \ {t} :
           /\ pc[u] \in Unborn => /\ ptd[u] \in Blocks \ {b} /\ ptd[u] # Value(u)
                                  /\ block[ptd[u]].cell = Null
           /\ pc[u] \in Running /\ Value(u) # Null => Value(u) \in Blocks \ {b}
    BY Elsewhere
  <1>4. LocalInv'
    BY <1>1, <1>2, Holders DEF MemInv, LocalInv, Unborn, Gone
  <1>5. Uses(t) = {} /\ Uses(t)' = {b} /\ \A u \in Threads \ {t} : Uses(u)' = Uses(u)
    BY <1>1, <1>2, Holders DEF Uses, MemInv, LocalInv, Unborn
  <1>6. BlocksNotShared'
    BY <1>1, <1>5, Holders DEF BlocksNotShared
  <1>7. StoresOwn
    <2>1. /\ ~Over(t) /\ CellOf(t)' = t /\ \A u \in Threads \ {t} : CellOf(u)' = CellOf(u)
          /\ \A u \in Threads : Over(u)' = Over(u)
      BY <1>1, <1>2, Holders DEF CellOf, Over, Gone, MemInv, LocalInv, Unborn
    <2>2. QED  BY <2>1, CellStored
  <1>8. ASSUME OnceInv
        PROVE  OnceInv'
    <2>a. t \notin Begun
      BY <1>8 DEF OnceInv, BlockInv, Running
    <2>1. OneThread'
      BY <1>1, <1>2, <1>8 DEF OnceInv, OneThread
    <2>2. BlockInv'
      <3>1. ASSUME NEW u \in Threads \ {t}
            PROVE  /\ pc[u] \in {"begin_resume", "start"} => block'[ptd[u]] = block[ptd[u]]
                   /\ pc[u] \in Running /\ Value(u) # Null =>
                         block'[Value(u)] = block[Value(u)]
        <4>1. pc[u] \in {"begin_resume", "start"} => ptd[u] \in Blocks \ {b}
          BY <1>a, <3>1 DEF Unborn
        <4>2. pc[u] \in Running /\ Value(u) # Null => Value(u) \in Blocks \ {b}
          BY <1>a, <3>1
        <4>3. QED  BY <1>1, <4>1, <4>2
      <3>2. QED
        BY <1>1, <1>2, <1>8, <2>a, <3>1 DEF OnceInv, BlockInv, Running, Begin
    <2>3. HandleTracksThread'
      BY <1>1, <1>2, <1>8 DEF OnceInv, HandleTracksThread, Gone
    <2>4. NoBlockLeak'
      BY <1>1, <1>2, <1>5, <1>8 DEF OnceInv, NoBlockLeak
    <2>5. QED  BY <1>8, <2>1, <2>2, <2>3, <2>4 DEF OnceInv, AllocatedOnce
  <1>9. QED
    BY <1>3, <1>4, <1>6, <1>7, <1>8 DEF MemInv

\* _endthread finds the thread's block.
LEMMA EndOldStep ==
    ASSUME MemInv, NEW t \in Threads, pc[t] = "user", tlsindex # Null, Value(t) # Null,
           ptd' = [ptd EXCEPT ![t] = Value(t)], Goto(t, "end_close"),
           UNCHANGED <<tlsindex, indexes, tls, heap, block, handle, child, aborted>>
    PROVE  MemInv' /\ StoresOwn /\ (OnceInv => OnceInv')
  <1> USE ThreadAssumption, NullAssumption, UnownedAssumption, Typed
  <1>1. pc' = [pc EXCEPT ![t] = "end_close"]
    BY DEF Goto
  <1>2. \A u \in Threads : /\ Value(u)' = Value(u)
                           /\ pc'[u] = IF u = t THEN "end_close" ELSE pc[u]
                           /\ ptd'[u] = IF u = t THEN Value(t) ELSE ptd[u]
    BY <1>1 DEF Value
  <1>3. TypeOK' /\ IndexShape'
    BY <1>1, <1>2 DEF MemInv, TypeOK, IndexShape, Labels, Begin, Ending, Fresh
  <1>4. LocalInv'
    BY <1>1, <1>2, Holders DEF MemInv, LocalInv, Unborn, Gone
  <1>5. \A u \in Threads : Uses(u)' = Uses(u)
    BY <1>1, <1>2, Holders DEF Uses, MemInv, LocalInv, Unborn
  <1>6. BlocksNotShared'
    BY <1>1, <1>5, Holders DEF BlocksNotShared
  <1>7. StoresOwn
    <2>1. \A u \in Threads : CellOf(u)' = CellOf(u) /\ Over(u)' = Over(u)
      BY <1>1, <1>2, Holders DEF CellOf, Over, Gone, MemInv, LocalInv, Unborn
    <2>2. QED  BY <2>1, CellsStay
  <1>8. ASSUME OnceInv
        PROVE  OnceInv'
    <2>1. OneThread'
      BY <1>1, <1>2, <1>8 DEF OnceInv, OneThread
    <2>2. BlockInv'
      BY <1>1, <1>2, <1>8, Holders
         DEF OnceInv, BlockInv, Running, Begin, MemInv, LocalInv, Unborn, Gone
    <2>3. HandleTracksThread'
      BY <1>1, <1>2, <1>8 DEF OnceInv, HandleTracksThread, Gone
    <2>4. NoBlockLeak'
      BY <1>1, <1>2, <1>5, <1>8 DEF OnceInv, NoBlockLeak
    <2>5. QED  BY <1>8, <2>1, <2>2, <2>3, <2>4 DEF OnceInv, AllocatedOnce
  <1>9. QED
    BY <1>3, <1>4, <1>6, <1>7, <1>8 DEF MemInv

\* _endthread makes a block only to free it: nothing was stored in this thread.
LEMMA EndNewStep ==
    ASSUME MemInv, NEW t \in Threads, pc[t] = "user", NEW b \in Blocks \ heap,
           heap' = heap \cup {b}, tls' = [tls EXCEPT ![tlsindex][t] = b],
           block' = [block EXCEPT ![b] = [_thandle |-> Unowned, cell |-> Null]],
           tlsindex # Null, Value(t) = Null,
           ptd' = [ptd EXCEPT ![t] = b], Goto(t, "end_close"),
           UNCHANGED <<tlsindex, indexes, handle, child, aborted>>
    PROVE  MemInv' /\ StoresOwn /\ (OnceInv => OnceInv')
  <1> USE ThreadAssumption, NullAssumption, UnownedAssumption, Typed
  <1>1. /\ tlsindex \in Indexes /\ b # Null
        /\ pc' = [pc EXCEPT ![t] = "end_close"]
        /\ block'[b]._thandle = Unowned /\ \A c \in Blocks \ {b} : block'[c] = block[c]
    BY DEF Goto
  <1>2. \A u \in Threads : /\ Value(u)' = IF u = t THEN b ELSE Value(u)
                           /\ pc'[u] = IF u = t THEN "end_close" ELSE pc[u]
                           /\ ptd'[u] = IF u = t THEN b ELSE ptd[u]
    BY <1>1 DEF Value
  <1>3. TypeOK' /\ IndexShape'
    BY <1>1, <1>2 DEF MemInv, TypeOK, IndexShape, Labels, Begin, Ending, Fresh
  <1>4. LocalInv'
    BY <1>1, <1>2, Holders DEF MemInv, LocalInv, Unborn, Gone
  <1>5. Uses(t) = {} /\ Uses(t)' = {b} /\ \A u \in Threads \ {t} : Uses(u)' = Uses(u)
    BY <1>1, <1>2, Holders DEF Uses, MemInv, LocalInv, Unborn
  <1>6. BlocksNotShared'
    <2>1. heap' = heap \cup {b} /\ \A u \in Threads \ {t} : b \notin Uses(u)
      BY Holders
    <2>2. \A u \in Threads : Uses(u)' \subseteq heap'
      BY <1>5, <2>1, Holders
    <2>3. \A u, v \in Threads : u # v => Uses(u)' \cap Uses(v)' = {}
      BY <1>5, <2>1, Holders
    <2>4. QED  BY <2>2, <2>3 DEF BlocksNotShared
  <1>7. StoresOwn
    <2>1. \A u \in Threads : CellOf(u)' = CellOf(u) /\ Over(u)' = Over(u)
      BY <1>1, <1>2, Holders DEF CellOf, Over, Gone, MemInv, LocalInv, Unborn
    <2>2. QED  BY <2>1, CellsStay
  <1>8. ASSUME OnceInv
        PROVE  OnceInv'
    <2>a. t \notin Begun
      BY <1>8 DEF OnceInv, BlockInv, Running
    <2>1. OneThread'
      BY <1>1, <1>2, <1>8 DEF OnceInv, OneThread
    <2>2. BlockInv'
      <3>1. \A u \in Threads \ {t} : /\ pc[u] \in {"begin_resume", "start"} => ptd[u] # b
                                     /\ pc[u] \in Running => Value(u) # b
        <4>1. b \notin heap /\ b # Null
          BY <1>1
        <4>2. \A u \in Threads : /\ pc[u] \in {"begin_resume", "start"} => ptd[u] \in Uses(u)
                                 /\ pc[u] \in Running /\ Value(u) # Null => Value(u) \in Uses(u)
                                 /\ Uses(u) \subseteq heap
          BY Holders DEF Unborn, Running, Begin, Gone
        <4>3. QED  BY <4>1, <4>2
      <3>2. block'[ptd'[t]]._thandle = Unowned /\ Value(t)' = ptd'[t] /\ b \in Blocks
        BY <1>1, <1>2
      <3>3. \A u \in Threads \ {t} :
               /\ pc[u] \in {"begin_resume", "start"} => block'[ptd[u]] = block[ptd[u]]
               /\ pc[u] \in Running /\ Value(u) # Null => block'[Value(u)] = block[Value(u)]
        BY <1>1, <3>1 DEF MemInv, LocalInv, Unborn
      <3>4. \A u \in Threads \ {t} : pc'[u] = pc[u] /\ ptd'[u] = ptd[u] /\ Value(u)' = Value(u)
        BY <1>2
      <3>5. pc'[t] = "end_close"
        BY <1>2
      <3>6. QED
        BY <1>8, <2>a, <3>2, <3>3, <3>4, <3>5 DEF OnceInv, BlockInv, Running, Begin
    <2>3. HandleTracksThread'
      BY <1>1, <1>2, <1>8 DEF OnceInv, HandleTracksThread, Gone
    <2>4. NoBlockLeak'
      BY <1>1, <1>2, <1>5, <1>8 DEF OnceInv, NoBlockLeak
    <2>5. QED  BY <1>8, <2>1, <2>2, <2>3, <2>4 DEF OnceInv, AllocatedOnce
  <1>9. QED
    BY <1>3, <1>4, <1>6, <1>7, <1>8 DEF MemInv

\* The handle in the block is the thread's own, or none.
LEMMA EndCloseStep ==
    ASSUME MemInv, NEW t \in Threads, EndClose(t)
    PROVE  MemInv' /\ StoresOwn /\ (OnceInv => OnceInv')
  <1> USE ThreadAssumption, NullAssumption, UnownedAssumption, Typed
  <1>1. /\ pc[t] = "end_close" /\ pc' = [pc EXCEPT ![t] = "end_free"] /\ tlsindex \in Indexes
        /\ handle' = handle \ {block[ptd[t]]._thandle}
        /\ UNCHANGED <<tlsindex, indexes, tls, heap, block, ptd, child, aborted>>
    BY HasIndex DEF EndClose, At, Goto, memory
  <1>2. \A u \in Threads : /\ Value(u)' = Value(u)
                           /\ pc'[u] = IF u = t THEN "end_free" ELSE pc[u]
    BY <1>1 DEF Value
  <1>3. TypeOK' /\ IndexShape'
    BY <1>1, <1>2 DEF MemInv, TypeOK, IndexShape, Labels, Begin, Ending, Fresh
  <1>4. LocalInv'
    BY <1>1, <1>2, Holders DEF MemInv, LocalInv, Unborn, Gone
  <1>5. \A u \in Threads : Uses(u)' = Uses(u)
    BY <1>1, <1>2, Holders DEF Uses, MemInv, LocalInv, Unborn
  <1>6. BlocksNotShared'
    BY <1>1, <1>5, Holders DEF BlocksNotShared
  <1>7. StoresOwn
    <2>1. \A u \in Threads : CellOf(u)' = CellOf(u) /\ Over(u)' = Over(u)
      BY <1>1, <1>2, Holders DEF CellOf, Over, Gone, MemInv, LocalInv, Unborn
    <2>2. QED  BY <2>1, CellsStay
  <1>8. ASSUME OnceInv
        PROVE  OnceInv'
    <2>a. handle' \cap Begun = (handle \cap Begun) \ {t}
      BY <1>1, <1>8 DEF MemInv, LocalInv, OnceInv, BlockInv, Running, Begun
    <2>1. OneThread'
      BY <1>1, <1>2, <1>8 DEF OnceInv, OneThread
    <2>2. BlockInv'
      BY <1>1, <1>2, <1>8, Holders
         DEF OnceInv, BlockInv, Running, Begin, MemInv, LocalInv, Unborn, Gone
    <2>3. HandleTracksThread'
      BY <1>1, <1>2, <1>8, <2>a DEF OnceInv, HandleTracksThread, Gone
    <2>4. NoBlockLeak'
      BY <1>1, <1>2, <1>5, <1>8 DEF OnceInv, NoBlockLeak
    <2>5. QED  BY <1>8, <2>1, <2>2, <2>3, <2>4 DEF OnceInv, AllocatedOnce
  <1>9. QED
    BY <1>3, <1>4, <1>6, <1>7, <1>8 DEF MemInv

\* free: after it only the TLS slot still has the address.
LEMMA EndFreeStep ==
    ASSUME MemInv, NEW t \in Threads, EndFree(t)
    PROVE  MemInv' /\ StoresOwn /\ (OnceInv => OnceInv')
  <1> USE ThreadAssumption, NullAssumption, UnownedAssumption, Typed
  <1>1. /\ pc[t] = "end_free" /\ pc' = [pc EXCEPT ![t] = "end_tls"] /\ tlsindex \in Indexes
        /\ heap' = heap \ {ptd[t]} /\ ptd' = [ptd EXCEPT ![t] = Null]
        /\ UNCHANGED <<tlsindex, indexes, tls, block, handle, child, aborted>>
    BY HasIndex DEF EndFree, At, Goto
  <1>2. \A u \in Threads : /\ Value(u)' = Value(u)
                           /\ pc'[u] = IF u = t THEN "end_tls" ELSE pc[u]
                           /\ ptd'[u] = IF u = t THEN Null ELSE ptd[u]
    BY <1>1 DEF Value
  <1>3. TypeOK' /\ IndexShape'
    BY <1>1, <1>2 DEF MemInv, TypeOK, IndexShape, Labels, Begin, Ending, Fresh
  <1>4. LocalInv'
    BY <1>1, <1>2, Holders DEF MemInv, LocalInv, Unborn, Gone
  <1>5. /\ Uses(t) = {ptd[t]} /\ Uses(t)' = {}
        /\ \A u \in Threads \ {t} : Uses(u)' = Uses(u)
    BY <1>1, <1>2, Holders DEF Uses, MemInv, LocalInv, Unborn
  <1>6. BlocksNotShared'
    BY <1>1, <1>5, Holders DEF BlocksNotShared
  <1>7. StoresOwn
    <2>1. /\ ~Over(t) /\ Over(t)'
          /\ \A u \in Threads \ {t} : CellOf(u)' = CellOf(u) /\ Over(u)' = Over(u)
      BY <1>1, <1>2, Holders DEF CellOf, Over, Gone, MemInv, LocalInv, Unborn
    <2>2. QED  BY <2>1, CellEnds
  <1>8. ASSUME OnceInv
        PROVE  OnceInv'
    <2>1. OneThread'
      BY <1>1, <1>2, <1>8 DEF OnceInv, OneThread
    <2>2. BlockInv'
      BY <1>1, <1>2, <1>8, Holders
         DEF OnceInv, BlockInv, Running, Begin, MemInv, LocalInv, Unborn, Gone
    <2>3. HandleTracksThread'
      BY <1>1, <1>2, <1>8 DEF OnceInv, HandleTracksThread, Gone
    <2>4. NoBlockLeak'
      BY <1>1, <1>2, <1>5, <1>8 DEF OnceInv, NoBlockLeak
    <2>5. QED  BY <1>8, <2>1, <2>2, <2>3, <2>4 DEF OnceInv, AllocatedOnce
  <1>9. QED
    BY <1>3, <1>4, <1>6, <1>7, <1>8 DEF MemInv

\* TlsSetValue(0).
LEMMA EndTlsStep ==
    ASSUME MemInv, NEW t \in Threads, EndTls(t)
    PROVE  MemInv' /\ StoresOwn /\ (OnceInv => OnceInv')
  <1> USE ThreadAssumption, NullAssumption, UnownedAssumption, Typed
  <1>1. /\ pc[t] = "end_tls" /\ pc' = [pc EXCEPT ![t] = "end_exit"] /\ tlsindex \in Indexes
        /\ tls' = [tls EXCEPT ![tlsindex][t] = Null]
        /\ UNCHANGED <<tlsindex, indexes, heap, block, handle, ptd, child, aborted>>
    BY HasIndex DEF EndTls, At, Goto
  <1>2. \A u \in Threads : /\ Value(u)' = IF u = t THEN Null ELSE Value(u)
                           /\ pc'[u] = IF u = t THEN "end_exit" ELSE pc[u]
    BY <1>1 DEF Value
  <1>3. TypeOK' /\ IndexShape'
    BY <1>1, <1>2 DEF MemInv, TypeOK, IndexShape, Labels, Begin, Ending, Fresh
  <1>4. LocalInv'
    BY <1>1, <1>2, Holders DEF MemInv, LocalInv, Unborn, Gone
  <1>5. \A u \in Threads : Uses(u)' = Uses(u)
    BY <1>1, <1>2, Holders DEF Uses, MemInv, LocalInv, Unborn
  <1>6. BlocksNotShared'
    BY <1>1, <1>5, Holders DEF BlocksNotShared
  <1>7. StoresOwn
    <2>1. \A u \in Threads : CellOf(u)' = CellOf(u) /\ Over(u)' = Over(u)
      BY <1>1, <1>2, Holders DEF CellOf, Over, Gone, MemInv, LocalInv, Unborn
    <2>2. QED  BY <2>1, CellsStay
  <1>8. ASSUME OnceInv
        PROVE  OnceInv'
    <2>1. OneThread'
      BY <1>1, <1>2, <1>8 DEF OnceInv, OneThread
    <2>2. BlockInv'
      BY <1>1, <1>2, <1>8, Holders
         DEF OnceInv, BlockInv, Running, Begin, MemInv, LocalInv, Unborn, Gone
    <2>3. HandleTracksThread'
      BY <1>1, <1>2, <1>8 DEF OnceInv, HandleTracksThread, Gone
    <2>4. NoBlockLeak'
      BY <1>1, <1>2, <1>5, <1>8 DEF OnceInv, NoBlockLeak
    <2>5. QED  BY <1>8, <2>1, <2>2, <2>3, <2>4 DEF OnceInv, AllocatedOnce
  <1>9. QED
    BY <1>3, <1>4, <1>6, <1>7, <1>8 DEF MemInv

\* ExitThread.
LEMMA EndExitStep ==
    ASSUME MemInv, NEW t \in Threads, EndExit(t)
    PROVE  MemInv' /\ StoresOwn /\ (OnceInv => OnceInv')
  <1> USE ThreadAssumption, NullAssumption, UnownedAssumption, Typed
  <1>1. /\ pc[t] = "end_exit" /\ pc' = [pc EXCEPT ![t] = "exited"] /\ tlsindex \in Indexes
        /\ UNCHANGED <<tlsindex, indexes, tls, heap, block, handle, ptd, child, aborted>>
    BY HasIndex DEF EndExit, At, Goto, memory
  <1>2. \A u \in Threads : /\ Value(u)' = Value(u)
                           /\ pc'[u] = IF u = t THEN "exited" ELSE pc[u]
    BY <1>1 DEF Value
  <1>3. TypeOK' /\ IndexShape'
    BY <1>1, <1>2 DEF MemInv, TypeOK, IndexShape, Labels, Begin, Ending, Fresh
  <1>4. LocalInv'
    BY <1>1, <1>2, Holders DEF MemInv, LocalInv, Unborn, Gone
  <1>5. \A u \in Threads : Uses(u)' = Uses(u)
    BY <1>1, <1>2, Holders DEF Uses, MemInv, LocalInv, Unborn
  <1>6. BlocksNotShared'
    BY <1>1, <1>5, Holders DEF BlocksNotShared
  <1>7. StoresOwn
    <2>1. \A u \in Threads : CellOf(u)' = CellOf(u) /\ Over(u)' = Over(u)
      BY <1>1, <1>2, Holders DEF CellOf, Over, Gone, MemInv, LocalInv, Unborn
    <2>2. QED  BY <2>1, CellsStay
  <1>8. ASSUME OnceInv
        PROVE  OnceInv'
    <2>1. OneThread'
      BY <1>1, <1>2, <1>8 DEF OnceInv, OneThread
    <2>2. BlockInv'
      BY <1>1, <1>2, <1>8, Holders
         DEF OnceInv, BlockInv, Running, Begin, MemInv, LocalInv, Unborn, Gone
    <2>3. HandleTracksThread'
      BY <1>1, <1>2, <1>8 DEF OnceInv, HandleTracksThread, Gone
    <2>4. NoBlockLeak'
      BY <1>1, <1>2, <1>5, <1>8 DEF OnceInv, NoBlockLeak
    <2>5. QED  BY <1>8, <2>1, <2>2, <2>3, <2>4 DEF OnceInv, AllocatedOnce
  <1>9. QED
    BY <1>3, <1>4, <1>6, <1>7, <1>8 DEF MemInv

\* User code.
LEMMA UserStep ==
    ASSUME MemInv, NEW t \in Threads, User(t)
    PROVE  MemInv' /\ StoresOwn /\ (OnceInv => OnceInv')
  <1>1. ASSUME Store(t)
        PROVE  MemInv' /\ StoresOwn /\ (OnceInv => OnceInv')
    <2>1. CASE getptdFails(t)
      BY <2>1, AbortStep DEF getptdFails
    <2>2. ASSUME NEW b \in Blocks, tlsindex # Null, pc[t] = "user",
                 IF Value(t) # Null
                 THEN b = Value(t) /\ UNCHANGED <<tls, heap>>
                 ELSE /\ b \in Blocks \ heap
                      /\ heap' = heap \cup {b}
                      /\ tls' = [tls EXCEPT ![tlsindex][t] = b],
                 block' = [block EXCEPT ![b] =
                     [_thandle |-> IF Value(t) # Null THEN block[b]._thandle ELSE Unowned,
                      cell |-> t]],
                 UNCHANGED <<tlsindex, indexes, handle, pc, ptd, child, aborted>>
          PROVE  MemInv' /\ StoresOwn /\ (OnceInv => OnceInv')
      <3>1. CASE Value(t) # Null
        BY <2>2, <3>1, StoreOldStep
      <3>2. CASE Value(t) = Null
        BY <2>2, <3>2, StoreNewStep
      <3>3. QED  BY <3>1, <3>2
    <2>3. QED
      BY <1>1, <2>1, <2>2 DEF Store, At
  <1>2. ASSUME EndThread(t)
        PROVE  MemInv' /\ StoresOwn /\ (OnceInv => OnceInv')
    <2>1. CASE getptdFails(t)
      BY <2>1, AbortStep DEF getptdFails
    <2>2. ASSUME NEW b \in Blocks, getptd(t, b), pc[t] = "user",
                 ptd' = [ptd EXCEPT ![t] = b], Goto(t, "end_close"),
                 UNCHANGED <<tlsindex, indexes, handle, child, aborted>>
          PROVE  MemInv' /\ StoresOwn /\ (OnceInv => OnceInv')
      <3>1. CASE Value(t) # Null
        BY <2>2, <3>1, EndOldStep DEF getptd, memory
      <3>2. CASE Value(t) = Null
        <4>1. block' = [block EXCEPT ![b] = [_thandle |-> Unowned, cell |-> Null]]
          BY <2>2, <3>2 DEF getptd, Fresh
        <4>2. QED
          BY <2>2, <3>2, <4>1, EndNewStep DEF getptd
      <3>3. QED  BY <3>1, <3>2
    <2>3. QED
      BY <1>2, <2>1, <2>2 DEF EndThread, At
  <1>3. QED
    BY <1>1, <1>2, BeginThreadStep, RawLeaveStep, RawCreateStep DEF User

\* The library's steps.
LEMMA LibraryStep ==
    ASSUME MemInv, NEW t \in Threads, Library(t)
    PROVE  MemInv' /\ StoresOwn /\ (OnceInv => OnceInv')
  <1>1. CASE xceinit(t) \/ BeginIndex(t)
    BY <1>1, AllocIndexStep, AbortStep DEF xceinit, BeginIndex, At
  <1>2. ASSUME BeginCalloc(t)
        PROVE  MemInv' /\ StoresOwn /\ (OnceInv => OnceInv')
    BY <1>2, CallocStep, CallocFailsStep DEF BeginCalloc, At, memory
  <1>3. ASSUME BeginCreate(t)
        PROVE  MemInv' /\ StoresOwn /\ (OnceInv => OnceInv')
    BY <1>3, CreateStep, CreateFailsStep DEF BeginCreate, At, Begun
  <1>4. ASSUME BeginResume(t)
        PROVE  MemInv' /\ StoresOwn /\ (OnceInv => OnceInv')
    BY <1>4, ResumeStep, StrandStep DEF BeginResume, At
  <1>5. QED
    BY <1>1, <1>2, <1>3, <1>4, StoreHandleStep, StartStep, EndCloseStep, EndFreeStep,
       EndTlsStep, EndExitStep DEF Library

\* Every step, and stuttering.
LEMMA NextStep ==
    ASSUME MemInv, [Next]_vars
    PROVE  MemInv' /\ StoresOwn /\ (OnceInv => OnceInv')
  <1>1. CASE UNCHANGED vars
    BY <1>1, StutterStep, ThreadAssumption
  <1>2. QED
    BY <1>1, UserStep, LibraryStep DEF Next

\* Once there is an index no other is allocated.
LEMMA NoSecondIndex ==
    ASSUME MemInv, OnceInv, [Next]_vars
    PROVE  indexes = {} \/ indexes' = indexes
  <1>1. ASSUME NEW t \in Threads, xceinit(t) \/ BeginIndex(t)
        PROVE  indexes = {}
    BY <1>1 DEF xceinit, BeginIndex, At, OnceInv, OneThread, MemInv, IndexShape
  <1>2. ASSUME NEW t \in Threads, User(t) \/ Library(t), ~xceinit(t), ~BeginIndex(t)
        PROVE  indexes' = indexes
    BY <1>2 DEF User, Library, Store, BeginThread, EndThread, RawLeave, RawCreate, BeginCalloc,
       BeginCreate, BeginStore, BeginResume, ThreadStart, EndClose, EndFree, EndTls, EndExit,
       getptdFails, xceabort
  <1>3. UNCHANGED vars => indexes' = indexes
    BY DEF vars
  <1>4. QED  BY <1>1, <1>2, <1>3 DEF Next

------------------------------------------------------------------------------
\* Every variable keeps its type, whatever the threads do.
THEOREM TypeCorrect == Spec => []TypeOK
  <1>1. MemInv => TypeOK
    BY DEF MemInv
  <1>2. QED  BY <1>1, InitMemInv, NextStep, PTL DEF Spec

\* A per-thread block is used by one thread at a time and never after it is freed
\* (cethread.c:33-61, 89-92, 112-117), for any number of threads, and even when the
\* race for the TLS index makes two of them.
THEOREM BlocksStayPrivate == Spec => []BlocksNotShared
  <1>1. MemInv => BlocksNotShared
    BY DEF MemInv
  <1>2. QED  BY <1>1, InitMemInv, NextStep, PTL DEF Spec

\* What a thread stores is its own in every step but the one that allocates a second
\* index (cethread.c:30-31, 108-136).
THEOREM OnlyTheRaceLosesStores == Spec => OnlyRacesLose
  <1>1. StoresOwn =>
           (indexes = {} \/ indexes' = indexes => [PerThread!Next]_(PerThread!vars))
    BY DEF StoresOwn
  <1>2. QED  BY <1>1, InitMemInv, NextStep, PTL DEF Spec, OnlyRacesLose

\* The handle of a thread of _beginthread is open exactly while the thread exists
\* (cethread.c:41, 89), for any number of threads.
THEOREM HandlesFollowThreads == AllocatedOnce => (Spec => []HandleTracksThread)
  <1> SUFFICES ASSUME AllocatedOnce PROVE Spec => []HandleTracksThread
    OBVIOUS
  <1>1. Init => MemInv /\ OnceInv
    BY InitMemInv
  <1>2. OnceInv => HandleTracksThread
    BY DEF OnceInv
  <1>3. QED  BY <1>1, <1>2, NextStep, PTL DEF Spec

\* A block that is allocated belongs to a thread that can still free it, unless a
\* thread of CreateThread left without _endthread (cethread.c:33-61, 112-117).
THEOREM EveryBlockIsFreed == AllocatedOnce => (Spec => []NoBlockLeak)
  <1> SUFFICES ASSUME AllocatedOnce PROVE Spec => []NoBlockLeak
    OBVIOUS
  <1>1. Init => MemInv /\ OnceInv
    BY InitMemInv
  <1>2. OnceInv => NoBlockLeak
    BY DEF OnceInv
  <1>3. QED  BY <1>1, <1>2, NextStep, PTL DEF Spec

\* When the index is allocated once the library implements ThreadLocal: a cell for
\* every thread (inc/cethread.h:10-13), zero until the thread stores in it.
THEOREM BlocksImplementThreadLocal == AllocatedOnce => (Spec => ImplementsThreadLocal)
  <1> SUFFICES ASSUME AllocatedOnce PROVE Spec => ImplementsThreadLocal
    OBVIOUS
  <1>1. Init => MemInv /\ OnceInv /\ PerThread!Init
    BY InitMemInv
  <1>2. MemInv /\ OnceInv /\ [Next]_vars =>
           MemInv' /\ OnceInv' /\ [PerThread!Next]_(PerThread!vars)
    BY NextStep, NoSecondIndex DEF StoresOwn
  <1>3. QED  BY <1>1, <1>2, PTL DEF Spec, ImplementsThreadLocal, PerThread!Spec
==============================================================================
