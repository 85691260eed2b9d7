\* Without xceinit, and with a thread made by CreateThread.
\* Deadlock: every thread may end, and xceabort stops them all.
SPECIFICATION FairSpec
CHECK_DEADLOCK FALSE
CONSTANTS
    Threads = {main, a, r}
    Main = main
    Blocks = {b1, b2}
    Null = Null
    Indexes = {x1, x2}
    CallsXceinit = FALSE
    RawThreads = {r}
PROPERTIES
    ThreadsRunAndEnd
    OnlyRacesLose
