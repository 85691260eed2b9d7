------------------------------ MODULE RcmdProofs ------------------------------
(***************************************************************************)
(* What a call of rcmd or rexec leaves open, what it announces and how     *)
(* long it pauses, for any number of ports, addresses and sockets.         *)
(*                                                                         *)
(* The port counter never falls below the lower of two ports nobody else   *)
(* takes: the first circuit gets the higher one at worst, the second the   *)
(* lower.  So it is not zero while it stands for "there is a second        *)
(* circuit", and the number sent to the server is a port.                  *)
(***************************************************************************)
EXTENDS Rcmd, TLAPS

\* Two ports that are free whenever they are tried.
Free(p, q) == p \in Reserved \ Contended /\ q \in Reserved \ Contended /\ p < q

\* The sockets a call has open, by the place it has reached.
Circuits ==
    /\ pc \in {"bind", "connect", "socket2", "bind2", "announce", "accept",
               "greet", "recv", "bad2", "bad"} => s \in Sockets
    /\ pc \in {"bind2", "announce", "accept"} => s2 \in Sockets /\ s2 # s
    /\ pc = "socket" => open = {}
    /\ pc \in {"bind", "connect", "socket2", "bad"} => open = {s}
    /\ pc \in {"bind2", "announce", "accept"} => open = {s, s2}
    /\ pc \in {"greet", "recv", "bad2"} =>
          IF wants THEN fd2 \in Sockets /\ fd2 # s /\ open = {s, fd2} ELSE open = {s}
    /\ pc \in {"socket2", "bind2", "announce", "accept"} => wants

\* Where the port counter stands, and the ports bound.
Ports(p, q) ==
    /\ pc \in {"socket", "bind", "connect"} => lport >= q
    /\ pc = "bind" => port[s] = 0
    /\ pc = "connect" => port[s] = lport
    /\ pc \in {"socket2", "bind2", "announce", "accept"} => lport >= p /\ lport < port[s]
    /\ pc = "bind2" => port[s2] = 0
    /\ pc \in {"announce", "accept"} => port[s2] = lport
    /\ pc = "accept" => number = lport
    /\ pc \in {"greet", "recv", "bad2"} => (wants <=> lport # 0)

Pauses == slept = timo - 1

IInv(p, q) == TypeOK /\ Circuits /\ Ports(p, q) /\ Pauses /\ NothingLeftOpen

------------------------------------------------------------------------------
\* A port number that fits is what bind is given.
LEMMA Fits == ASSUME NEW n \in Nat, NEW x \in Nat, x < n PROVE x % n = x
<1>1. x % n \in 0 .. n - 1
    BY SMT
<1>2. x = n * (x \div n) + (x % n)
    BY SMT
<1>3. x \div n \in Int
    BY SMT
<1>4. x \div n = 0
    BY <1>1, <1>2, <1>3, SMT
<1> QED BY <1>2, <1>4, SMT

\* Nothing is open before the first call.
LEMMA Start == ASSUME NEW p, NEW q, Free(p, q), Init PROVE IInv(p, q)
<1> USE PortAssumption, AddressAssumption DEF Init
<1>1. p \in 1 .. IPPORT_RESERVED - 1 /\ q \in 1 .. IPPORT_RESERVED - 1
    BY DEF Free, Reserved
<1>2. TypeOK
    <2>1. port \in [Sockets -> 0 .. PortSpace - 1]
        BY DEF Unbound
    <2>2. lport \in 0 .. IPPORT_RESERVED - 1 /\ addr \in 1 .. NAddrs
        BY <1>1
    <2>3. number \in 0 .. IPPORT_RESERVED - 1 \cup {-1} /\ slept \in Nat
        OBVIOUS
    <2>4. {s, s2, fd2, result} \subseteq Sockets \cup {None} /\ open \subseteq Sockets
        OBVIOUS
    <2> QED BY <2>1, <2>2, <2>3, <2>4 DEF TypeOK, Labels, PortKinds
<1>3. Circuits /\ Ports(p, q) /\ Pauses /\ NothingLeftOpen
    BY DEF Circuits, Ports, Pauses, NothingLeftOpen
<1> QED BY <1>2, <1>3 DEF IInv

\* Every step of the call or of the others keeps the invariant.
LEMMA Step == ASSUME NEW p, NEW q, Free(p, q), IInv(p, q), [Next]_vars PROVE IInv(p, q)'
<1> USE PortAssumption, AddressAssumption, NoneAssumption
<1>0. p \in 1 .. IPPORT_RESERVED - 1 /\ q \in 1 .. IPPORT_RESERVED - 1
      /\ p \notin Contended /\ q \notin Contended /\ p < q
    BY DEF Free, Reserved
<1>1. CASE UNCHANGED vars
    BY <1>1 DEF vars, call, search, sockets, server, IInv, TypeOK, Circuits, Ports, Pauses,
        NothingLeftOpen
<1>2. ASSUME NEW f \in {"xcercmd", "xcerexec"}, NEW w \in BOOLEAN, Call(f, w)
      PROVE IInv(p, q)'
    BY <1>0, <1>2 DEF Call, Goto, Return, Unbound, IInv, TypeOK, Labels, PortKinds, Circuits,
        Ports, Pauses, NothingLeftOpen
<1>3. CASE Socket
    BY <1>0, <1>3 DEF Socket, First, rresvportFails, Goto, Return, call, search, server, IInv,
        TypeOK, Labels, Circuits, Ports, Pauses, NothingLeftOpen
<1>4. CASE Bind
    <2>1. lport % PortSpace = lport
        BY Fits DEF IInv, TypeOK
    <2>2. lport \notin OwnPorts /\ lport \in Nat /\ lport >= p /\ (pc = "bind" => lport >= q)
        BY <1>0, <1>4 DEF Bind, OwnPorts, IInv, TypeOK, Circuits, Ports
    <2> DEFINE k == IF First THEN s ELSE s2
    <2>3. CASE /\ \E r \in Bindable(lport) : port' = [port EXCEPT ![k] = r]
               /\ Goto(IF First THEN "connect" ELSE "announce")
               /\ UNCHANGED <<lport, open>>
        <3>1. PICK r \in Bindable(lport) : port' = [port EXCEPT ![k] = r]
            BY <2>3
        <3>2. lport # 0
            BY <1>0, <2>2
        <3>3. r = lport
            BY <3>1, <3>2 DEF Bindable
        <3> QED BY <1>0, <1>4, <2>2, <2>3, <3>1, <3>3 DEF Bind, First, Goto, call, server, IInv, TypeOK,
                   Labels, Circuits, Ports, Pauses, NothingLeftOpen
    <2>4. CASE /\ lport \in Contended
               /\ lport' = lport - 1
               /\ IF lport' = IPPORT_RESERVED \div 2
                  THEN rresvportFails /\ open' = open \ {k}
                  ELSE Goto(pc) /\ UNCHANGED open
               /\ UNCHANGED port
        <3>1. lport' >= p /\ (pc = "bind" => lport' >= q)
            BY <1>0, <2>2, <2>4
        <3> QED BY <1>0, <1>4, <2>2, <2>4, <3>1 DEF Bind, First, rresvportFails, Goto, Return,
                   call, server, IInv, TypeOK, Labels, Circuits, Ports, Pauses, NothingLeftOpen
    <2>5. CASE rresvportFails /\ open' = open \ {k} /\ UNCHANGED <<lport, port>>
        BY <1>0, <1>4, <2>2, <2>5 DEF Bind, First, rresvportFails, Goto, Return, call, server,
            IInv, TypeOK, Labels, Circuits, Ports, Pauses, NothingLeftOpen
    <2> QED BY <1>4, <2>1, <2>2, <2>3, <2>4, <2>5 DEF Bind
<1>5. CASE Connect
    <2>1. CASE Connected
        BY <1>0, <1>5, <2>1 DEF Connect, Connected, Goto, call, server, IInv, TypeOK, Labels,
            Circuits, Ports, Pauses, NothingLeftOpen
    <2>2. CASE Retry /\ open' = open \ {s} /\ UNCHANGED server
        BY <1>0, <1>5, <2>2 DEF Connect, Retry, Goto, Return, call, search, server, IInv, TypeOK,
            Labels, Circuits, Ports, Pauses, NothingLeftOpen
    <2> QED BY <1>5, <2>1, <2>2 DEF Connect
<1>6. CASE Announce
    BY <1>0, <1>6 DEF Announce, Goto, call, search, IInv, TypeOK, Labels, Circuits, Ports, Pauses,
        NothingLeftOpen
<1>7. CASE Accept
    <2>1. PICK c \in backlog, k \in Sockets \ open :
              /\ open' = (open \ {s2}) \cup {k}
              /\ port' = [port EXCEPT ![k] = port[s2]]
              /\ fd2' = k
              /\ Goto(IF PeerRefused(c) THEN "bad2" ELSE "greet")
        BY <1>7 DEF Accept
    <2> QED BY <1>0, <1>7, <2>1 DEF Accept, Goto, call, search, IInv, TypeOK, Labels, PortKinds,
               Circuits, Ports, Pauses, NothingLeftOpen
<1>8. CASE AcceptFails
    BY <1>0, <1>8 DEF AcceptFails, Goto, call, IInv, TypeOK, Labels, Circuits, Ports, Pauses,
        NothingLeftOpen
<1>9. CASE Greet
    BY <1>0, <1>9 DEF Greet, Goto, call, search, sockets, server, IInv, TypeOK, Labels, Circuits,
        Ports, Pauses, NothingLeftOpen
<1>10. CASE Recv
    BY <1>0, <1>10 DEF Recv, Goto, Return, call, search, sockets, server, IInv, TypeOK, Labels,
        Circuits, Ports, Pauses, NothingLeftOpen
<1>11. CASE Bad2
    BY <1>0, <1>11 DEF Bad2, Goto, call, search, server, IInv, TypeOK, Labels, Circuits, Ports,
        Pauses, NothingLeftOpen
<1>12. CASE Bad
    BY <1>0, <1>12 DEF Bad, Return, call, search, server, IInv, TypeOK, Labels, Circuits, Ports,
        Pauses, NothingLeftOpen
<1>13. CASE ServerReads \/ ServerAnswers \/ ServerDies \/ Stranger
    BY <1>0, <1>13 DEF ServerReads, ServerAnswers, ServerDies, Stranger, call, search, sockets,
        IInv, TypeOK, PortKinds, Circuits, Ports, Pauses, NothingLeftOpen
<1> QED
    BY <1>1, <1>2, <1>3, <1>4, <1>5, <1>6, <1>7, <1>8, <1>9, <1>10, <1>11, <1>12, <1>13
    DEF Next, Proceed

\* What the invariant says of the properties.
LEMMA Consequences == ASSUME NEW p, NEW q, Free(p, q), IInv(p, q)
                      PROVE TypeOK /\ NothingLeftOpen /\ AnnouncedPortListens /\ PausesAreBounded
    BY PortAssumption DEF Free, Reserved, IInv, TypeOK, Circuits, Ports, Pauses, AnnouncedPortListens,
       PausesAreBounded

\* The invariant holds throughout.
LEMMA Invariance == Spec => [](TypeOK /\ NothingLeftOpen /\ AnnouncedPortListens /\ PausesAreBounded)
<1>1. PICK p, q \in (1 .. IPPORT_RESERVED - 1) \ Contended : p < q
    BY ContentionAssumption
<1>2. Free(p, q)
    BY <1>1 DEF Free, Reserved
<1>3. Init => IInv(p, q)
    BY <1>2, Start
<1>4. IInv(p, q) /\ [Next]_vars => IInv(p, q)'
    BY <1>2, Step
<1>5. IInv(p, q) => TypeOK /\ NothingLeftOpen /\ AnnouncedPortListens /\ PausesAreBounded
    BY <1>2, Consequences
<1> QED BY <1>3, <1>4, <1>5, PTL DEF Spec

------------------------------------------------------------------------------
\* The type invariant of rcmd and rexec: the port counter stays positive until it
\* is set to zero, and the address pointer within the host's list.
THEOREM TypeCorrect == Spec => []TypeOK
    BY Invariance, PTL

\* A call that fails leaves no socket open, one that succeeds those it returns,
\* as long as two reserved ports are free.
THEOREM FailureLeavesNothingOpen == Spec => []NothingLeftOpen
    BY Invariance, PTL

\* The number sent to the server is a reserved port, and the one listened on.
THEOREM ServerIsSentTheRightPort == Spec => []AnnouncedPortListens
    BY Invariance, PTL

\* A call pauses for 31 seconds at most.
THEOREM PausesStayBounded == Spec => []PausesAreBounded
    BY Invariance, PTL
==============================================================================
