\* Started by cert0.c: two threads of _beginthread and one of CreateThread.
\* Deadlock: every thread may end, and xceabort stops them all.
SPECIFICATION Spec
CHECK_DEADLOCK FALSE
CONSTANTS
    Threads = {main, a, b, r}
    Main = main
    Blocks = {b1, b2, b3}
    Null = Null
    Indexes = {x1, x2}
    CallsXceinit = TRUE
    RawThreads = {r}
INVARIANTS TypeOK BlocksNotShared NoBlockLeak HandleTracksThread
PROPERTIES ImplementsThreadLocal
SYMMETRY Interchangeable
