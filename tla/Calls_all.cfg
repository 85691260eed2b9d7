\* Two processes on one or two files; up to two users and one lookup; two messages of
\* syslog; and the texts.
SPECIFICATION CallsSpec
CONSTANTS
    p1 = p1
    p2 = p2
    Process = {p1, p2}
    Plain = {t}
    Attributes = {"READONLY"}
    Pid <- Pids
    PidLimit = 8
    LastLetter = 2
    None = None
    Entries <- Users
    Services = {telnet}
    Streams = {s1, s2}
    MaxLines = 2
    Unreadable = Unreadable
    Null = Null
    Caller = {p1, p2}
    MaxMessages = 2
    ErrorCases = {{"errno", "winerror"}, {"winsockerror"}}
    NoTag = NoTag
    W = 2
    AddrChars = 11
    Patterns <- PatternsAsked
    MatchNames <- NamesToMatch
    Words <- WordsGlobbed
    Addresses <- AddressesAsked
    Tails <- TailsAsked
VIEW ResultsGone
CONSTRAINT Orderly
INVARIANTS
    CallsTypeOK
    RenameKeepsTarget
    TempNameFree
    StreamsAccounted
    LogKeepsLines
    NamesMatched
    BracesRight
    AddressRight
PROPERTY UsersFound
