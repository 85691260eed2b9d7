\* One free slot and two handles: the second open finds the table full.
SPECIFICATION Spec
CONSTANTS
    MAXFDS = 4
    Handles = {h1, h2}
    NoHandle = NoHandle
    Files = {f1}
    Liberties = {}
PROPERTIES FailedOpenOpensNothing
