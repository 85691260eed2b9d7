\* One free slot, two handles; descriptors 0 to 2 are closed and reused, streams
\* are moved by freopen.
SPECIFICATION Spec
CONSTANTS
    MAXFDS = 4
    Handles = {h1, h2}
    NoHandle = NoHandle
    Files = {f1, f2}
    Liberties = {"socket", "closestd", "freopen"}
INVARIANTS HandleExclusive StaleOnlyAbove NoOrphan
VIEW WithoutCall
SYMMETRY HandleAndFileSymmetry
