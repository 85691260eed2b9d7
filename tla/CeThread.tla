------------------------------- MODULE CeThread -------------------------------
(***************************************************************************)
(* cethread.c in the _MT build: threads made by _beginthread, the block of *)
(* per-thread data each of them gets, and the TLS index the blocks hang    *)
(* on.  One action per access to memory another thread can reach, so       *)
(* creator and child interleave between CreateThread, the store of the     *)
(* handle, ResumeThread and the end of the child.                          *)
(*                                                                         *)
(* The block's contents are its thread handle and one cell, which stands   *)
(* for errno and the current directory alike.  The handle of a thread is   *)
(* named by the thread.                                                    *)
(***************************************************************************)
EXTENDS Naturals, FiniteSets

CONSTANTS
    Threads,
    Main,           \* the thread wWinMain runs in
    Blocks,         \* addresses calloc returns for a _tiddata
    Null,           \* no block, no handle, no index: calloc's zeros
    Indexes,        \* the TLS indices the system has
    CallsXceinit,   \* the program starts in cert0.c
    RawThreads      \* threads made with CreateThread, not _beginthread

ASSUME ThreadAssumption == Main \in Threads /\ RawThreads \subseteq Threads \ {Main}
ASSUME NullAssumption == Null \notin Threads \cup Blocks \cup Indexes
ASSUME BooleanAssumption == CallsXceinit \in BOOLEAN

Unowned == "-1"     \* _thandle of a block that _getptd made
ASSUME UnownedAssumption == Unowned \notin Threads \cup {Null}

VARIABLES
    tlsindex,   \* __tlsindex; Null stands for 0xFFFFFFFF
    indexes,    \* the TLS indices allocated so far
    tls,        \* tls[x][t]: TlsGetValue(x) in thread t
    heap,       \* the blocks allocated now
    block,      \* block[b]: the contents at b
    handle,     \* the threads whose handle is open
    pc, ptd,    \* where each thread is, and its local ptd
    child,      \* the thread a _beginthread under way has created
    aborted     \* xceabort was called

vars == <<tlsindex, indexes, tls, heap, block, handle, pc, ptd, child, aborted>>
memory == <<tls, heap, block>>

Begin == {"begin_index", "begin_calloc", "begin_create", "begin_store", "begin_resume"}
Ending == {"end_close", "end_free", "end_tls", "end_exit"}
Labels == {"none", "suspended", "stranded", "start", "xceinit", "user", "exited"}
              \cup Begin \cup Ending

TypeOK ==
    /\ tlsindex \in Indexes \cup {Null} /\ indexes \subseteq Indexes
    /\ tls \in [Indexes -> [Threads -> Blocks \cup {Null}]]
    /\ heap \subseteq Blocks
    /\ block \in [Blocks -> [_thandle : Threads \cup {Null, Unowned},
                             cell : Threads \cup {Null}]]
    /\ handle \subseteq Threads
    /\ pc \in [Threads -> Labels]
    /\ ptd \in [Threads -> Blocks \cup {Null}]
    /\ child \in [Threads -> Threads \cup {Null}]
    /\ aborted \in BOOLEAN

\* Mutant of Fresh: malloc for calloc.
FreshGarbage == [_thandle |-> Null, cell |-> "garbage"]

\* A block as calloc returns it.
Fresh == [_thandle |-> Null, cell |-> Null]

Init ==
    /\ tlsindex = Null /\ indexes = {}
    /\ tls = [x \in Indexes |-> [t \in Threads |-> Null]]
    /\ heap = {} /\ block = [b \in Blocks |-> Fresh]
    /\ handle = {}
    /\ pc = [t \in Threads |-> IF t # Main THEN "none"
                               ELSE IF CallsXceinit THEN "xceinit" ELSE "user"]
    /\ ptd = [t \in Threads |-> Null] /\ child = [t \in Threads |-> Null]
    /\ aborted = FALSE

------------------------------------------------------------------------------
At(t, label) == pc[t] = label /\ ~aborted
Goto(t, label) == pc' = [pc EXCEPT ![t] = label]

xceabort == aborted' = TRUE /\ UNCHANGED <<tlsindex, indexes, memory, handle, pc, ptd, child>>

\* _init_multithread.  A second call allocates a second index and forgets the
\* first.
init_multithread(t, next) ==
    IF indexes = Indexes
    THEN xceabort
    ELSE /\ \E x \in Indexes \ indexes : tlsindex' = x /\ indexes' = indexes \cup {x}
         /\ Goto(t, next)
         /\ UNCHANGED <<memory, handle, ptd, child, aborted>>

xceinit(t) == At(t, "xceinit") /\ init_multithread(t, "user")

\* Mutant of Value: one block for all threads, as errno is without _MT.
ValueShared(t) == IF tlsindex = Null THEN Null ELSE tls[tlsindex][Main]

\* TlsGetValue(__tlsindex) in t.
Value(t) == IF tlsindex = Null THEN Null ELSE tls[tlsindex][t]

\* What _getptd does before it returns b: it gives a thread without a block a
\* new one, with no thread handle in it.
getptd(t, b) ==
    /\ tlsindex # Null
    /\ IF Value(t) # Null
       THEN b = Value(t) /\ UNCHANGED memory
       ELSE /\ b \in Blocks \ heap
            /\ heap' = heap \cup {b}
            /\ block' = [block EXCEPT ![b] = [Fresh EXCEPT !._thandle = Unowned]]
            /\ tls' = [tls EXCEPT ![tlsindex][t] = b]

getptdFails(t) == Value(t) = Null /\ xceabort

------------------------------------------------------------------------------
(* User code *)

\* errno = ..., or a change of directory: a store through _getptd().
Store(t) ==
    /\ At(t, "user")
    /\ \/ getptdFails(t)
       \/ \E b \in Blocks :
             /\ tlsindex # Null
             /\ IF Value(t) # Null
                THEN b = Value(t) /\ UNCHANGED <<tls, heap>>
                ELSE /\ b \in Blocks \ heap
                     /\ heap' = heap \cup {b}
                     /\ tls' = [tls EXCEPT ![tlsindex][t] = b]
             /\ block' = [block EXCEPT ![b] =
                   [_thandle |-> IF Value(t) # Null THEN @._thandle ELSE Unowned,
                    cell |-> t]]
             /\ UNCHANGED <<tlsindex, indexes, handle, pc, ptd, child, aborted>>

\* CreateThread by the program itself.
RawCreate(t, u) ==
    /\ At(t, "user") /\ pc[u] = "none" /\ u \in RawThreads
    /\ Goto(u, "user")
    /\ UNCHANGED <<tlsindex, indexes, memory, handle, ptd, child, aborted>>

\* Such a thread may return without a call to the library.
RawLeave(t) ==
    /\ At(t, "user") /\ t \in RawThreads
    /\ Goto(t, "exited")
    /\ UNCHANGED <<tlsindex, indexes, memory, handle, ptd, child, aborted>>

------------------------------------------------------------------------------
(* _beginthread, in the creating thread *)

BeginThread(t) ==
    /\ At(t, "user")
    /\ Goto(t, IF tlsindex = Null THEN "begin_index" ELSE "begin_calloc")
    /\ UNCHANGED <<tlsindex, indexes, memory, handle, ptd, child, aborted>>

BeginIndex(t) == At(t, "begin_index") /\ init_multithread(t, "begin_calloc")

\* Back to the caller, with the handle or with -1; the locals are gone.
Return(t) == /\ ptd' = [ptd EXCEPT ![t] = Null]
             /\ child' = [child EXCEPT ![t] = Null]

BeginCalloc(t) ==
    /\ At(t, "begin_calloc")
    /\ \/ \E b \in Blocks \ heap :
             /\ heap' = heap \cup {b}
             /\ block' = [block EXCEPT ![b] = Fresh]
             /\ ptd' = [ptd EXCEPT ![t] = b]
             /\ Goto(t, "begin_create")
       \/ Goto(t, "user") /\ UNCHANGED <<heap, block, ptd>>
    /\ UNCHANGED <<tlsindex, indexes, tls, handle, child, aborted>>

\* Mutant of BeginCreate: no CREATE_SUSPENDED.
BeginCreateRunning(t) ==
    /\ At(t, "begin_create")
    /\ \E u \in Threads \ (RawThreads \cup {Main}) :
          /\ pc[u] = "none"
          /\ pc' = [pc EXCEPT ![t] = "begin_store", ![u] = "start"]
          /\ handle' = handle \cup {u}
          /\ ptd' = [ptd EXCEPT ![u] = ptd[t]]
          /\ child' = [child EXCEPT ![t] = u]
    /\ UNCHANGED <<tlsindex, indexes, tls, heap, block, aborted>>

\* CreateThread with CREATE_SUSPENDED; when it fails the block is freed.
BeginCreate(t) ==
    /\ At(t, "begin_create")
    /\ \/ \E u \in Threads \ (RawThreads \cup {Main}) :
             /\ pc[u] = "none"
             /\ pc' = [pc EXCEPT ![t] = "begin_store", ![u] = "suspended"]
             /\ handle' = handle \cup {u}
             /\ ptd' = [ptd EXCEPT ![u] = ptd[t]]
             /\ child' = [child EXCEPT ![t] = u]
             /\ UNCHANGED heap
       \/ /\ heap' = heap \ {ptd[t]}
          /\ Goto(t, "user") /\ Return(t)
          /\ UNCHANGED handle
    /\ UNCHANGED <<tlsindex, indexes, tls, block, aborted>>

BeginStore(t) ==
    /\ At(t, "begin_store")
    /\ block' = [block EXCEPT ![ptd[t]]._thandle = child[t]]
    /\ Goto(t, "begin_resume")
    /\ UNCHANGED <<tlsindex, indexes, tls, heap, handle, ptd, child, aborted>>

\* Mutant of BeginResume: the block is freed although the thread runs.
BeginResumeFrees(t) ==
    /\ At(t, "begin_resume")
    /\ pc' = [pc EXCEPT ![t] = "user", ![child[t]] = "start"]
    /\ heap' = heap \ {ptd[t]}
    /\ Return(t)
    /\ UNCHANGED <<tlsindex, indexes, tls, block, handle, aborted>>

\* Mutant of BeginResume: ResumeThread is never called.
BeginResumeNot(t) ==
    /\ At(t, "begin_resume")
    /\ Goto(t, "user") /\ Return(t)
    /\ UNCHANGED <<tlsindex, indexes, memory, handle, aborted>>

\* ResumeThread.  When it fails the block is freed; the thread stays suspended
\* for good and its handle open.
BeginResume(t) ==
    /\ At(t, "begin_resume")
    /\ \/ /\ pc' = [pc EXCEPT ![t] = "user", ![child[t]] = "start"]
          /\ UNCHANGED heap
       \/ /\ pc' = [pc EXCEPT ![t] = "user", ![child[t]] = "stranded"]
          /\ heap' = heap \ {ptd[t]}
    /\ Return(t)
    /\ UNCHANGED <<tlsindex, indexes, tls, block, handle, aborted>>

------------------------------------------------------------------------------
(* _threadstart and _endthread, in the thread itself *)

\* Mutant of ThreadStart: the block is not put into the TLS slot.
ThreadStartNoTls(t) ==
    /\ At(t, "start")
    /\ Goto(t, "user")
    /\ ptd' = [ptd EXCEPT ![t] = Null]
    /\ UNCHANGED <<tlsindex, indexes, memory, handle, child, aborted>>

ThreadStart(t) ==
    /\ At(t, "start")
    /\ \/ /\ tls' = [tls EXCEPT ![tlsindex][t] = ptd[t]]
          /\ Goto(t, "user")
          /\ ptd' = [ptd EXCEPT ![t] = Null]
          /\ UNCHANGED <<tlsindex, indexes, heap, block, handle, child, aborted>>
       \/ xceabort     \* TlsSetValue fails

\* User code returns, or calls _endthread itself, which starts with _getptd.
EndThread(t) ==
    /\ At(t, "user")
    /\ \/ getptdFails(t)
       \/ \E b \in Blocks :
             /\ getptd(t, b)
             /\ ptd' = [ptd EXCEPT ![t] = b]
             /\ Goto(t, "end_close")
             /\ UNCHANGED <<tlsindex, indexes, handle, child, aborted>>

EndClose(t) ==
    /\ At(t, "end_close")
    /\ handle' = handle \ {block[ptd[t]]._thandle}
    /\ Goto(t, "end_free")
    /\ UNCHANGED <<tlsindex, indexes, memory, ptd, child, aborted>>

\* _freeptd: free, then TlsSetValue(0).
EndFree(t) ==
    /\ At(t, "end_free")
    /\ heap' = heap \ {ptd[t]}
    /\ ptd' = [ptd EXCEPT ![t] = Null]
    /\ Goto(t, "end_tls")
    /\ UNCHANGED <<tlsindex, indexes, tls, block, handle, child, aborted>>

EndTls(t) ==
    /\ At(t, "end_tls")
    /\ tls' = [tls EXCEPT ![tlsindex][t] = Null]
    /\ Goto(t, "end_exit")
    /\ UNCHANGED <<tlsindex, indexes, heap, block, handle, ptd, child, aborted>>

EndExit(t) ==
    /\ At(t, "end_exit")
    /\ Goto(t, "exited")
    /\ UNCHANGED <<tlsindex, indexes, memory, handle, ptd, child, aborted>>

------------------------------------------------------------------------------
User(t) == \/ Store(t) \/ BeginThread(t) \/ EndThread(t) \/ RawLeave(t)
           \/ \E u \in Threads : RawCreate(t, u)

Library(t) == \/ xceinit(t) \/ BeginIndex(t) \/ BeginCalloc(t) \/ BeginCreate(t)
              \/ BeginStore(t) \/ BeginResume(t) \/ ThreadStart(t)
              \/ EndClose(t) \/ EndFree(t) \/ EndTls(t) \/ EndExit(t)

Next == \E t \in Threads : User(t) \/ Library(t)

Spec == Init /\ [][Next]_vars

\* The scheduler runs a thread that is inside the library; user code may loop.
FairSpec == Spec /\ \A t \in Threads : WF_vars(Library(t))

------------------------------------------------------------------------------
(* Properties *)

Begun == Threads \ (RawThreads \cup {Main})
Gone == {"end_free", "end_tls", "end_exit", "exited"}

\* The blocks t may still read, write or free.  A suspended thread's block is its
\* creator's until ResumeThread; after that only the child's.
Uses(t) ==
    (CASE pc[t] \in {"none", "suspended", "stranded", "end_tls", "end_exit", "exited"} -> {}
       [] pc[t] = "start" -> {ptd[t]}
       [] OTHER -> {ptd[t], Value(t)}) \ {Null}

\* No thread uses a block that has been freed, or one that another thread uses:
\* _beginthread frees the block when it fails, the child when it ends, and neither
\* touches it after the other may have (cethread.c:53-61 and 89-92).
BlocksNotShared ==
    \A t \in Threads : /\ Uses(t) \subseteq heap
                       /\ \A u \in Threads \ {t} : Uses(t) \cap Uses(u) = {}

\* A block nobody uses is free, but for the blocks of threads that were not made
\* by _beginthread and left without _endthread.
NoBlockLeak ==
    \A b \in heap : \E t \in Threads :
        \/ b \in Uses(t)
        \/ t \in RawThreads /\ pc[t] = "exited" /\ Value(t) = b

\* The handle of a thread made by _beginthread is closed by that thread on its way
\* out and at no other time: the store of _thandle is in the block before the child
\* can read it (cethread.c:41-53, 89).
HandleTracksThread ==
    \A t \in Begun : t \in handle <=> pc[t] \notin {"none"} \cup Gone

\* inc/cethread.h:10, "per thread errno", and :13: what a thread stores stays until
\* it stores again or ends, whatever the others do.
PerThread == INSTANCE ThreadLocal WITH
    Values <- Threads, Zero <- Null,
    cell <- [t \in Threads |-> IF Value(t) = Null \/ pc[t] \in Gone \ {"end_free"}
                               THEN Null ELSE block[Value(t)].cell],
    ended <- {t \in Threads : pc[t] \in Gone \ {"end_free"}}

ImplementsThreadLocal == PerThread!Spec

\* Without xceinit two first calls of _beginthread may both allocate an index
\* (cethread.c:30), and what threads stored under the first one is lost; but only in
\* that step: before and after it what a thread stores is its own.
OnlyRacesLose ==
    [][indexes = {} \/ indexes' = indexes => [PerThread!Next]_PerThread!vars]_vars

\* A thread _beginthread created comes to run its user code unless ResumeThread
\* failed; one that leaves user code comes to an end (unless memory runs out).
ThreadsRunAndEnd ==
    \A t \in Threads :
        /\ pc[t] = "suspended" ~> (pc[t] \in {"user", "stranded"} \/ aborted)
        /\ pc[t] = "end_close" ~> (pc[t] = "exited" \/ aborted)
==============================================================================
