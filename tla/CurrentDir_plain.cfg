\* Names without doubled separators, the library as it is built.
SPECIFICATION Spec
CONSTANTS
    Dirs <- Tree
    Files <- Leaves
    Paths <- Plain
    InitialDir <- Root
    MaxSegments = 6
    ENOENT = ENOENT
    ENOTDIR = ENOTDIR
    ENOSYS = ENOSYS
INVARIANTS CwdSurvivesPassing
PROPERTIES ImplementsUnixCwd
VIEW WithoutArgument
