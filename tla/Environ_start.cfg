\* A vector of one place that has to grow at once and again; at most three values
\* in the registry, written to by others while they are read.
SPECIFICATION Spec
CONSTANTS
    P = P
    PWD = PWD
    TMP = TMP
    x = x
    y = y
    Names = {P, PWD, TMP}
    Values = {x, y}
    Shorter <- BeginsWith
    InitialSize = 1
    MaxRegistry = 3
    Null = Null
    Garbage = Garbage
    Unset = Unset
INVARIANTS Terminated InitTakesEveryValue
PROPERTIES ImplementsEnvMap
VIEW LocalsGone
SYMMETRY ValueSymmetry
