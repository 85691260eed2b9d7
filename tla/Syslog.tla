-------------------------------- MODULE Syslog --------------------------------
(***************************************************************************)
(* syslog.c in its Windows CE build: several processes write messages to   *)
(* one file.  A message is two writes, of the priority's name and of the   *)
(* line; the file is opened for each message with O_APPEND, which seeks to *)
(* the end when the file is opened and not when it is written.             *)
(*                                                                         *)
(* The file is a sequence of what one write puts there, all of one size.   *)
(* What a message says is which error it shows and under which tag.        *)
(***************************************************************************)
EXTENDS Integers, Sequences, FiniteSets

CONSTANTS
    Caller,         \* processes
    MaxMessages,    \* bound: messages written
    ErrorCases,     \* which errors are set when a message is written
    NoTag           \* __LogTag before anybody has set it

ASSUME MessagesAssumption == MaxMessages \in Nat
ASSUME CasesAssumption == ErrorCases \subseteq SUBSET {"errno", "winerror", "winsockerror"}

VARIABLES
    log,        \* the file
    at,         \* where each process is in vsyslog
    pos,        \* the position of its descriptor
    line,       \* what it is about to write
    tag,        \* __LogTag
    overlapped, \* history: two processes had the file open for a message at once
    meant,      \* history: what was written, in the order of the writes
    cut         \* the processes that were ended

logVars == <<log, at, pos, line, tag, overlapped, meant, cut>>

Tags == {NoTag, "module", "ident"}
Errors == {"errno", "winerror", "winsockerror", "nothing"}
Message == [by : Caller, error : Errors, tag : Tags]
Part == [of : Message, part : {"priority", "line"}]

LogTypeOK ==
    /\ log \in Seq(Part) /\ meant \in Seq(Part)
    /\ at \in [Caller -> {"main", "priority", "line", "close"}]
    /\ pos \in [Caller -> Nat]
    /\ line \in [Caller -> Message \cup {NoTag}]
    /\ tag \in [Caller -> Tags]
    /\ overlapped \in BOOLEAN /\ cut \subseteq Caller

LogInit ==
    /\ log = <<>> /\ meant = <<>>
    /\ at = [c \in Caller |-> "main"] /\ pos = [c \in Caller |-> 0]
    /\ line = [c \in Caller |-> NoTag] /\ tag = [c \in Caller |-> NoTag]
    /\ overlapped = FALSE /\ cut = {}

Runs(c, step) == c \notin cut /\ at[c] = step
Writing == {c \in Caller \ cut : at[c] \in {"priority", "line"}}

------------------------------------------------------------------------------
\* The first error that is set is the one %m shows; %w does not look at errno.
Shown(fmt, errors) ==
    IF fmt = "%m" /\ "errno" \in errors THEN "errno"
    ELSE IF "winerror" \in errors THEN "winerror"
    ELSE IF "winsockerror" \in errors THEN "winsockerror" ELSE "nothing"

\* openlog: nothing is opened on Windows CE, and __LogOpened stays zero.
Tagged(ident) == IF ident = NoTag THEN "module" ELSE ident

openlog(c, ident) ==
    /\ Runs(c, "main")
    /\ tag' = [tag EXCEPT ![c] = Tagged(ident)]
    /\ UNCHANGED <<log, at, pos, line, overlapped, meant, cut>>

\* Mutant of vsyslog: opened without O_APPEND.
vsyslogAtStart(c, fmt, errors) ==
    /\ Runs(c, "main") /\ Len(meant) + 2 * Cardinality(Writing) < 2 * MaxMessages
    /\ line' = [line EXCEPT ![c] = [by |-> c, error |-> Shown(fmt, errors), tag |-> tag[c]]]
    /\ tag' = [tag EXCEPT ![c] = Tagged(tag[c])]
    /\ at' = [at EXCEPT ![c] = "priority"]
    /\ pos' = [pos EXCEPT ![c] = 0]
    /\ overlapped' = (overlapped \/ Writing # {})
    /\ UNCHANGED <<log, meant, cut>>

\* The line is made with the tag as it is; then openlog is called, each time, and
\* gives one to a program that has none; then the file is opened at its end.
vsyslog(c, fmt, errors) ==
    /\ Runs(c, "main") /\ Len(meant) + 2 * Cardinality(Writing) < 2 * MaxMessages
    /\ line' = [line EXCEPT ![c] = [by |-> c, error |-> Shown(fmt, errors), tag |-> tag[c]]]
    /\ tag' = [tag EXCEPT ![c] = Tagged(tag[c])]
    /\ at' = [at EXCEPT ![c] = "priority"]
    /\ pos' = [pos EXCEPT ![c] = Len(log)]
    /\ overlapped' = (overlapped \/ Writing # {})
    /\ UNCHANGED <<log, meant, cut>>

\* The file cannot be opened: the message is dropped without a word.
vsyslogDropped(c) ==
    /\ Runs(c, "main")
    /\ tag' = [tag EXCEPT ![c] = Tagged(tag[c])]
    /\ UNCHANGED <<log, at, pos, line, overlapped, meant, cut>>

\* What is there behind the position of the descriptor is overwritten.
XCEWriteFile(c, part) ==
    /\ log' = [i \in DOMAIN log \cup {pos[c] + 1} |-> IF i = pos[c] + 1 THEN part ELSE log[i]]
    /\ pos' = [pos EXCEPT ![c] = @ + 1]

xcewrite(c, name, next) ==
    /\ Runs(c, name)
    /\ LET part == [of |-> line[c], part |-> name]
       IN  XCEWriteFile(c, part) /\ meant' = Append(meant, part)
    /\ at' = [at EXCEPT ![c] = next]
    /\ UNCHANGED <<line, tag, overlapped, cut>>

WritePriority(c) == xcewrite(c, "priority", "line")
WriteLine(c) == xcewrite(c, "line", "close")

Close(c) ==
    /\ Runs(c, "close")
    /\ at' = [at EXCEPT ![c] = "main"]
    /\ pos' = [pos EXCEPT ![c] = 0] /\ line' = [line EXCEPT ![c] = NoTag]
    /\ UNCHANGED <<log, tag, overlapped, meant, cut>>

\* A process is ended in the middle of a message.  One is enough (a bound).
Cut(c) ==
    /\ cut = {} /\ at[c] # "main" /\ cut' = {c}
    /\ UNCHANGED <<log, at, pos, line, tag, overlapped, meant>>

LogStep(c) ==
    \/ \E ident \in {NoTag, "ident"} : openlog(c, ident)
    \/ \E fmt \in {"%m", "%w"}, errors \in ErrorCases :
          vsyslog(c, fmt, errors)
    \/ vsyslogDropped(c) \/ WritePriority(c) \/ WriteLine(c) \/ Close(c) \/ Cut(c)

LogNext == \E c \in Caller : LogStep(c)
LogSpec == LogInit /\ [][LogNext]_logVars

------------------------------------------------------------------------------
(***************************************************************************)
(* The file is what was written to it, in that order, also after a process *)
(* was ended in the middle of a line, as long as no two processes had it   *)
(* open for their messages at one time.                                    *)
(***************************************************************************)
LogKeepsLines == ~overlapped => log = meant
================================================================================
