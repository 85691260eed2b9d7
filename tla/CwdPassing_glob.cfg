\* Where the files of the command line are looked for.
\* Deadlock: the last process may exit.
SPECIFICATION Spec
CHECK_DEADLOCK FALSE
CONSTANTS
    Procs = {p1, p2, p3}
    Roots = {p1}
    Dirs = {top, a}
    Top = top
    P = P
    TMP = TMP
    PWD = PWD
    Names = {PWD, TMP}
    Beginnings = {PWD}
    None = None
INVARIANTS ArgumentsMatchedThere
SYMMETRY Interchangeable
VIEW GlobbedToo
