\* One program, its children and theirs; parents wait or go on.
\* Deadlock: the last process may exit.
SPECIFICATION Spec
CHECK_DEADLOCK FALSE
CONSTANTS
    Procs = {p1, p2, p3}
    Roots = {p1}
    Dirs = {top, a}
    Top = top
    P = P
    TMP = TMP
    PWD = PWD
    Names = {P, PWD, TMP}
    Beginnings = {P, PWD}
    None = None
PROPERTIES StartsInParentsDirectory
CONSTRAINT FewValues
SYMMETRY Interchangeable
VIEW CallsGone
