--------------------------------- MODULE Rcmd ---------------------------------
(***************************************************************************)
(* rcmd.c and rexec.c: a call connects to a server from a reserved port,   *)
(* trying ports downwards, addresses in turn and a refusal again after a   *)
(* pause; if the caller wants the command's standard error apart, it       *)
(* listens on a second reserved port, sends its number and waits for the   *)
(* server to connect back.                                                 *)
(*                                                                         *)
(* One action per call of the socket library.  The server, and strangers   *)
(* who connect to the second port, act between any two of them.            *)
(***************************************************************************)
EXTENDS Integers

CONSTANTS
    IPPORT_RESERVED,    \* 1024
    PortSpace,          \* 2^16, what u_short holds
    Contended,          \* ports others may hold, or a connection may linger on
    NAddrs,             \* how many addresses the host has
    Sockets,            \* socket handles
    None                \* no socket; INVALID_SOCKET

ASSUME PortAssumption == /\ IPPORT_RESERVED \in Nat /\ PortSpace \in Nat
                         /\ IPPORT_RESERVED < PortSpace
\* Of the reserved ports no more than all but two are taken.
ASSUME ContentionAssumption ==
    \E p, q \in (1 .. IPPORT_RESERVED - 1) \ Contended : p < q
ASSUME AddressAssumption == NAddrs \in Nat \ {0}
ASSUME NoneAssumption == None \notin Sockets

VARIABLES
    pc,
    fun,        \* which of the two was called
    wants,      \* fd2p is not null
    lport, timo,
    addr,       \* where hp->h_addr_list points
    s, s2, fd2, \* the sockets; fd2 is *fd2p
    open,       \* the sockets this call has opened and not closed
    port,       \* port[k]: the local port of k, 0 before bind
    number,     \* what the server was sent for the second port, -1 before
    result,     \* what the last call returned
    srv,        \* what the server is doing
    backlog,    \* the connection waiting on s2: by the kind of port it is from
    slept       \* history: seconds spent in Sleep

call == <<fun, wants>>
search == <<lport, timo, addr, slept>>
sockets == <<s, s2, fd2, open, port>>
server == <<number, srv, backlog>>
vars == <<pc, call, search, sockets, result, server>>

Labels == {"idle", "socket", "bind", "connect", "socket2", "bind2", "announce",
           "accept", "greet", "recv", "bad2", "bad"}
Reserved == 1 .. IPPORT_RESERVED - 1
PortKinds == {"reserved", "unreserved"}

TypeOK ==
    /\ pc \in Labels
    /\ fun \in {"xcercmd", "xcerexec"} /\ wants \in BOOLEAN
    /\ lport \in 0 .. IPPORT_RESERVED - 1
    /\ timo \in {1, 2, 4, 8, 16, 32} /\ slept \in Nat
    /\ addr \in 1 .. NAddrs
    /\ {s, s2, fd2, result} \subseteq Sockets \cup {None}
    /\ open \subseteq Sockets
    /\ port \in [Sockets -> 0 .. PortSpace - 1]
    /\ number \in 0 .. IPPORT_RESERVED - 1 \cup {-1}
    /\ srv \in {"none", "reading", "serving", "accepts", "refuses", "gone"}
    /\ backlog \in SUBSET PortKinds

Unbound == [k \in Sockets |-> 0]

Init ==
    /\ pc = "idle" /\ fun = "xcercmd" /\ wants = FALSE
    /\ lport = IPPORT_RESERVED - 1 /\ timo = 1 /\ addr = 1 /\ slept = 0
    /\ s = None /\ s2 = None /\ fd2 = None /\ open = {} /\ port = Unbound
    /\ number = -1 /\ result = None /\ srv = "none" /\ backlog = {}

------------------------------------------------------------------------------
Goto(label) == pc' = label /\ UNCHANGED result
Return(r) == pc' = "idle" /\ result' = r

\* The arguments and the host name.  What the last call returned is the
\* caller's from here on: its sockets are not in open, its ports in Contended.
Call(f, w) ==
    /\ pc = "idle"
    /\ fun' = f /\ wants' = w
    /\ lport' = IPPORT_RESERVED - 1 /\ timo' = 1 /\ slept' = 0
    /\ addr' \in {1} \cup (IF f = "xcerexec" THEN {NAddrs} ELSE {})  \* given as a number
    /\ s' = None /\ s2' = None /\ fd2' = None /\ open' = {} /\ port' = Unbound
    /\ number' = -1 /\ srv' = "none" /\ backlog' = {}
    /\ \/ Goto("socket")
       \/ Return(None)      \* no such host; rexec without user or password

First == pc \in {"socket", "bind"}

\* rresvport has no port to give, for the first or for the second circuit.
rresvportFails == IF First THEN Return(None) ELSE Goto("bad")

Socket ==
    /\ pc \in {"socket", "socket2"}
    /\ \/ \E k \in Sockets \ open :
             /\ open' = open \cup {k}
             /\ port' = [port EXCEPT ![k] = 0]
             /\ IF First THEN s' = k /\ UNCHANGED s2 ELSE s2' = k /\ UNCHANGED s
             /\ Goto(IF First THEN "bind" ELSE "bind2")
       \/ rresvportFails /\ UNCHANGED <<s, s2, open, port>>
    /\ UNCHANGED <<call, search, fd2, server>>

OwnPorts == {port[k] : k \in open}

\* What bind gives for the number in sin_port: 0 is any port of the system's.
Bindable(p) == (IF p = 0 THEN IPPORT_RESERVED .. PortSpace - 1 ELSE {p}) \ OwnPorts

\* One turn of rresvport's loop.  The counter is compared with the lowest port
\* only after it was counted down, and for equality: a search that starts at
\* the lowest port or below it goes on downwards.
Bind ==
    /\ pc \in {"bind", "bind2"}
    /\ LET k == IF First THEN s ELSE s2
       IN  \/ /\ \E q \in Bindable(lport % PortSpace) : port' = [port EXCEPT ![k] = q]
              /\ Goto(IF First THEN "connect" ELSE "announce")
              /\ UNCHANGED <<lport, open>>
           \/ /\ lport % PortSpace \in Contended \cup OwnPorts   \* WSAEADDRINUSE
              /\ lport' = lport - 1
              /\ IF lport' = IPPORT_RESERVED \div 2
                 THEN rresvportFails /\ open' = open \ {k}
                 ELSE Goto(pc) /\ UNCHANGED open
              /\ UNCHANGED port
           \/ /\ rresvportFails /\ open' = open \ {k}   \* any other error
              /\ UNCHANGED <<lport, port>>
    /\ UNCHANGED <<call, timo, addr, slept, s, s2, fd2, server>>

\* connect succeeds; without fd2p the server is sent an empty number.
Connected ==
    /\ IF wants
       THEN lport' = lport - 1 /\ number' = number /\ Goto("socket2")
       ELSE lport' = 0 /\ number' = 0 /\ Goto("greet")
    /\ srv' = "reading"
    /\ UNCHANGED <<timo, addr, slept, open, backlog>>

\* Mutant of Retry: the pause is not doubled.
RetrySamePause ==
    \/ /\ port[s] \in Contended
       /\ lport' = lport - 1 /\ Goto("socket")
       /\ UNCHANGED <<timo, addr, slept>>
    \/ /\ timo <= 16
       /\ slept' = slept + timo /\ Goto("socket")
       /\ UNCHANGED <<timo, lport, addr>>
    \/ /\ addr < NAddrs
       /\ addr' = addr + 1 /\ Goto("socket")
       /\ UNCHANGED <<lport, timo, slept>>
    \/ addr = NAddrs /\ Return(None) /\ UNCHANGED search

\* Mutant of Retry: the next try uses the same port.
RetrySamePort ==
    \/ port[s] \in Contended /\ Goto("socket") /\ UNCHANGED search
    \/ addr = NAddrs /\ Return(None) /\ UNCHANGED search

\* connect fails and the socket has been closed.
Retry ==
    \/ /\ port[s] \in Contended                         \* WSAEADDRINUSE
       /\ lport' = lport - 1 /\ Goto("socket")
       /\ UNCHANGED <<timo, addr, slept>>
    \/ /\ timo <= 16                                    \* WSAECONNREFUSED
       /\ timo' = 2 * timo /\ slept' = slept + timo /\ Goto("socket")
       /\ UNCHANGED <<lport, addr>>
    \/ /\ addr < NAddrs     \* any other error, or refused once too often
       /\ addr' = addr + 1 /\ Goto("socket")
       /\ UNCHANGED <<lport, timo, slept>>
    \/ addr = NAddrs /\ Return(None) /\ UNCHANGED search

Connect ==
    /\ pc = "connect"
    /\ \/ Connected
       \/ Retry /\ open' = open \ {s} /\ UNCHANGED server
    /\ UNCHANGED <<call, s, s2, fd2, port>>

\* Mutant of Announce: the first port is announced.
AnnounceFirst ==
    /\ pc = "announce"
    /\ number' = port[s] /\ Goto("accept") /\ UNCHANGED open
    /\ UNCHANGED <<call, search, s, s2, fd2, port, srv, backlog>>

\* listen, and the number is sent.
Announce ==
    /\ pc = "announce"
    /\ \/ number' = lport /\ Goto("accept") /\ UNCHANGED open
       \/ open' = open \ {s2} /\ Goto("bad") /\ UNCHANGED number
    /\ UNCHANGED <<call, search, s, s2, fd2, port, srv, backlog>>

\* The port the server connects from: rexec.c:161, "SCO does not obeye this".
PeerRefused(c) == fun = "xcercmd" /\ c = "unreserved"

\* accept returns a connection; the listening socket is closed.
Accept ==
    /\ pc = "accept"
    /\ \E c \in backlog, k \in Sockets \ open :
          /\ open' = (open \ {s2}) \cup {k}
          /\ port' = [port EXCEPT ![k] = port[s2]]
          /\ fd2' = k
          /\ Goto(IF PeerRefused(c) THEN "bad2" ELSE "greet")
    /\ backlog' = {}
    /\ UNCHANGED <<call, search, s, s2, number, srv>>

AcceptFails ==
    /\ pc = "accept"
    /\ open' = open \ {s2}
    /\ lport' = 0
    /\ backlog' = {}
    /\ Goto("bad")
    /\ UNCHANGED <<call, timo, addr, slept, s, s2, fd2, port, number, srv>>

\* The three strings; that a send fails shows only in recv.
Greet ==
    /\ pc = "greet"
    /\ Goto("recv")
    /\ UNCHANGED <<call, search, sockets, server>>

\* The server's answer: a zero byte, a line that says why not, or the end.
Recv ==
    /\ pc = "recv"
    /\ \/ srv = "accepts" /\ Return(s)
       \/ srv \in {"refuses", "gone"} /\ Goto("bad2")
    /\ UNCHANGED <<call, search, sockets, server>>

\* Mutant of Bad2: bad is entered past the test.
Bad2Skips ==
    /\ pc = "bad2"
    /\ Goto("bad")
    /\ UNCHANGED <<call, search, sockets, server>>

\* lport is not zero if there is a second circuit.
Bad2 ==
    /\ pc = "bad2"
    /\ open' = IF lport # 0 THEN open \ {fd2} ELSE open
    /\ Goto("bad")
    /\ UNCHANGED <<call, search, s, s2, fd2, port, server>>

Bad ==
    /\ pc = "bad"
    /\ open' = open \ {s}
    /\ Return(None)
    /\ UNCHANGED <<call, search, s, s2, fd2, port, server>>

------------------------------------------------------------------------------
(* The others *)

Listening(p) == pc = "accept" /\ port[s2] = p

\* The server reads the number and connects to that port, from a port of its
\* choice, waiting while the one place of the backlog is taken.
ServerReads ==
    /\ srv = "reading" /\ number # -1
    /\ IF number # 0 /\ Listening(number)
       THEN backlog = {} /\ srv' = "serving" /\ \E c \in PortKinds : backlog' = {c}
       ELSE srv' = (IF number = 0 THEN "serving" ELSE "gone") /\ UNCHANGED backlog
    /\ UNCHANGED <<pc, call, search, sockets, result, number>>

\* It starts the command, or says why not.
ServerAnswers ==
    /\ srv = "serving" /\ pc = "recv"
    /\ srv' \in {"accepts", "refuses"}
    /\ UNCHANGED <<pc, call, search, sockets, result, number, backlog>>

ServerDies ==
    /\ srv \in {"reading", "serving"} /\ pc # "idle"
    /\ srv' = "gone"
    /\ UNCHANGED <<pc, call, search, sockets, result, number, backlog>>

Stranger ==
    /\ pc = "accept" /\ backlog = {}
    /\ \E c \in PortKinds : backlog' = {c}
    /\ UNCHANGED <<pc, call, search, sockets, result, number, srv>>

------------------------------------------------------------------------------
Proceed == \/ Socket \/ Bind \/ Connect \/ Announce \/ Accept
           \/ Greet \/ Recv \/ Bad2 \/ Bad

Next == \/ \E f \in {"xcercmd", "xcerexec"}, w \in BOOLEAN : Call(f, w)
        \/ Proceed \/ AcceptFails
        \/ ServerReads \/ ServerAnswers \/ ServerDies \/ Stranger

Spec == Init /\ [][Next]_vars

\* The caller's thread runs, and a server that is there reads and answers.  That
\* accept fails, that anybody connects or that the server ends is left open.
FairSpec == Spec /\ WF_vars(Proceed) /\ WF_vars(ServerReads) /\ WF_vars(ServerAnswers)

------------------------------------------------------------------------------
(* Properties *)

\* A call that fails leaves no socket open, one that succeeds those it gives to
\* its caller: which of the exits closes what is told from lport, which is also
\* the port counter (rcmd.c:183-189).
NothingLeftOpen ==
    pc = "idle" => open = CASE result = None -> {}
                            [] result # None /\ wants -> {result, fd2}
                            [] result # None /\ ~wants -> {result}

\* While the call waits in accept, the number the server was sent is the port it
\* listens on, and not that of the first circuit (rcmd.c:117-124).
AnnouncedPortListens ==
    pc = "accept" => /\ number = port[s2] /\ number \in Reserved
                     /\ number # port[s]

\* All pauses of a call together take half a minute at most, however many
\* addresses the host has (rcmd.c:84-89).
PausesAreBounded == slept <= 31

\* A call returns: ports, pauses and addresses are used up, and a server answers
\* or goes.  Only in accept may it wait for good, on a server that went away
\* before it connected back (rcmd.c:130).
Returns == pc # "idle" ~> (pc = "idle" \/ (pc = "accept" /\ srv = "gone" /\ backlog = {}))
==============================================================================
