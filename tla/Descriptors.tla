----------------------------- MODULE Descriptors -----------------------------
(***************************************************************************)
(* What a Unix program expects of file descriptors and of the stdio        *)
(* streams over them, with no table and no handles scanned for: a          *)
(* descriptor is bound to one object until it is closed, the lowest vacant *)
(* descriptor is handed out, a stream knows its descriptor, and I/O        *)
(* through a descriptor reaches the object it is bound to or nothing.      *)
(***************************************************************************)
EXTENDS Integers

CONSTANTS Fds,       \* the descriptors, 0 .. MAXFDS-1
          Objects,   \* what a descriptor can be opened on
          Files,     \* FILE pointers
          None

VARIABLES bound,     \* bound[fd]: the object of fd, None while fd is vacant
          streamOn,  \* streamOn[f]: the object of stream f, None while f is closed
          call       \* the last call: its name, its descriptor, the object it reached

vars == <<bound, streamOn, call>>

Std == {0, 1, 2}
StdObject(fd) == IF fd = 0 THEN "stdin" ELSE IF fd = 1 THEN "stdout" ELSE "stderr"

InUse(o) == (\E fd \in Fds : bound[fd] = o) \/ (\E f \in Files : streamOn[f] = o)
Lowest(fd) == /\ fd \in Fds /\ bound[fd] = None
              /\ \A i \in Fds : i < fd => bound[i] # None

Init == /\ bound = [fd \in Fds |-> IF fd \in Std THEN StdObject(fd) ELSE None]
        /\ streamOn = [f \in Files |-> None]
        /\ call = [op |-> "start", fd |-> -1, on |-> None]

Returns(op, fd, o) == call' = [op |-> op, fd |-> fd, on |-> o]

Open(fd, o) == /\ ~InUse(o) /\ Lowest(fd)
               /\ bound' = [bound EXCEPT ![fd] = o]
               /\ UNCHANGED streamOn
               /\ \E op \in {"open", "socket"} : Returns(op, fd, o)

\* A call that fails reaches no object and changes no binding.
Fail == /\ \E op \in {"open", "close", "read", "write", "fopen", "fdopen",
                      "lseek", "ftruncate", "fstat"}, fd \in Fds \cup {-1} :
              Returns(op, fd, None)
        /\ UNCHANGED <<bound, streamOn>>

Close(fd) == /\ bound[fd] # None
             /\ \A f \in Files : streamOn[f] # bound[fd]
             /\ bound' = [bound EXCEPT ![fd] = None]
             /\ UNCHANGED streamOn
             /\ Returns("close", fd, bound[fd])

Transfer(fd) == /\ bound[fd] # None
                /\ \E op \in {"read", "write", "lseek", "ftruncate", "fstat"} :
                      Returns(op, fd, bound[fd])
                /\ UNCHANGED <<bound, streamOn>>

Fopen(f, fd, o) == /\ streamOn[f] = None /\ ~InUse(o) /\ Lowest(fd)
                   /\ bound' = [bound EXCEPT ![fd] = o]
                   /\ streamOn' = [streamOn EXCEPT ![f] = o]
                   /\ Returns("fopen", fd, o)

Fdopen(f, fd) == /\ streamOn[f] = None /\ bound[fd] # None
                 /\ streamOn' = [streamOn EXCEPT ![f] = bound[fd]]
                 /\ UNCHANGED bound
                 /\ Returns("fdopen", fd, bound[fd])

\* fclose closes the stream, its object and the descriptor bound to it.
Fclose(f, fd) == /\ streamOn[f] # None /\ bound[fd] = streamOn[f]
                 /\ bound' = [bound EXCEPT ![fd] = None]
                 /\ streamOn' = [streamOn EXCEPT ![f] = None]
                 /\ Returns("fclose", -1, streamOn[f])

Fileno(f, fd) == /\ streamOn[f] # None /\ bound[fd] = streamOn[f]
                 /\ Returns("fileno", fd, streamOn[f])
                 /\ UNCHANGED <<bound, streamOn>>

Next == \/ Fail
        \/ \E fd \in Fds : Close(fd) \/ Transfer(fd)
        \/ \E fd \in Fds, o \in Objects : Open(fd, o)
        \/ \E f \in Files, fd \in Fds, o \in Objects : Fopen(f, fd, o)
        \/ \E f \in Files, fd \in Fds : Fdopen(f, fd) \/ Fclose(f, fd) \/ Fileno(f, fd)

Spec == Init /\ [][Next]_vars
==============================================================================
