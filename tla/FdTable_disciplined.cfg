\* More slots than handles: the operating system refuses before the table fills.
SPECIFICATION Spec
CONSTANTS
    MAXFDS = 6
    Handles = {h1, h2, h3}
    NoHandle = NoHandle
    Files = {f1, f2}
    Liberties = {"socket"}
INVARIANTS TypeOK StreamsHaveDescriptors
SYMMETRY HandleAndFileSymmetry
PROPERTIES ImplementsDescriptors
