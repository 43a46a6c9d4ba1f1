------------------------ MODULE ForwardServiceProofs ------------------------
(***************************************************************************)
(* Proofs about ForwardService: socket ownership.  OwnSocket becomes       *)
(* inductive with the relation between the three descriptions of a         *)
(* forward's socket: the descriptor its event uses (fd), the one its       *)
(* destructor closes (local_fd) and where the socket came from.  At the    *)
(* end: when the comparator of the table of forwards is an order.          *)
(***************************************************************************)
EXTENDS ForwardService, TLAPS

USE DEF Origins

\* The destructor knows the forward's own socket if ICE made it, else none.
Origin ==
  \A p \in Active :
    forwards[p].local_fd = IF sockets[forwards[p].fd] = "ice" THEN forwards[p].fd ELSE NULL

IInv == TypeOK /\ OwnSocket /\ Origin

-------------------------------------------------------------------------------
\* A forward is a record with these fields, and differs from NoForward.
LEMMA ForwardFields ==
  ASSUME TypeOK, NEW p \in Active
  PROVE  /\ forwards[p] \in Forward
         /\ forwards[p].fd \in Fds /\ forwards[p].local_fd \in Fds \cup {NULL}
         /\ forwards[p].silent \in 0 .. MaxAge
BY DEF TypeOK, Active, Forward

LEMMA ForwardIsEntry == ASSUME NEW f \in Forward PROVE f # NoForward
BY NullAssumption DEF Forward, NoForward

LEMMA InitOK == Init => IInv
BY DEF Init, IInv, TypeOK, OwnSocket, Origin, Active

\* Opening a descriptor nobody uses disturbs no forward.
LEMMA OpenOK ==
  ASSUME IInv, NEW fd \in Fds, NEW origin \in Origins, OpenSocket(fd, origin),
         UNCHANGED <<forwards, route>>
  PROVE  IInv'
<1> USE DEF IInv
<1>1. TypeOK'
  BY DEF TypeOK, OpenSocket
<1>2. Active' = Active /\ \A p \in Active : forwards[p].fd \in Fds /\ forwards[p].fd # fd
  BY ForwardFields DEF Active, OwnSocket, OpenSocket
<1>3. \A p \in Active : sockets'[forwards[p].fd] = sockets[forwards[p].fd]
  BY <1>2 DEF OpenSocket, TypeOK
<1>4. OwnSocket' /\ Origin'
  BY <1>2, <1>3 DEF OwnSocket, Origin
<1> QED BY <1>1, <1>4

LEMMA StartOK ==
  ASSUME IInv, NEW p \in Ports, NEW fd \in Fds, NEW origin \in Origins,
         NEW media \in Media, NEW samePort \in BOOLEAN, NEW zeroPad \in BOOLEAN,
         StartForward(p, fd, origin, media, samePort, zeroPad)
  PROVE  IInv'
<1> USE DEF IInv
<1> DEFINE f == NewForward(fd, origin, media, samePort, zeroPad)
<1>1. /\ f \in Forward /\ f.fd = fd
      /\ f.local_fd = IF origin = "ice" THEN fd ELSE NULL
  BY AliveTimeAssumption DEF NewForward, Forward, MaxAge
<1> HIDE DEF f
<1>2. /\ forwards' = [forwards EXCEPT ![p] = f] /\ p \notin Active
      /\ sockets' = [sockets EXCEPT ![fd] = origin] /\ sockets[fd] = "closed"
      /\ route' = route
  BY DEF StartForward, OpenSocket, f
<1>3. TypeOK'
  BY <1>1, <1>2 DEF TypeOK
<1>4. f # NoForward
  BY <1>1, ForwardIsEntry
<1>5. /\ Active' = Active \cup {p} /\ forwards'[p] = f
      /\ \A q \in Active : forwards'[q] = forwards[q]
  BY <1>2, <1>4 DEF Active, TypeOK
<1>6. \A q \in Active : forwards[q].fd \in Fds /\ forwards[q].fd # fd
  BY <1>2, ForwardFields DEF OwnSocket
<1>7. \A q \in Active : sockets'[forwards[q].fd] = sockets[forwards[q].fd]
  BY <1>2, <1>6 DEF TypeOK
<1>8. sockets'[fd] = origin
  BY <1>2 DEF TypeOK
<1>9. Origin'
  BY <1>1, <1>5, <1>7, <1>8 DEF Origin
<1>10. OwnSocket'
  <2>1. \A q \in Active' : sockets'[forwards'[q].fd] # "closed"
    BY <1>1, <1>5, <1>7, <1>8 DEF OwnSocket
  <2>2. \A q \in Active : forwards[q].local_fd # fd
    BY <1>6, NullAssumption DEF Origin
  <2>3. ASSUME NEW q \in Active', NEW r \in Active', q # r
        PROVE  forwards'[q].fd # forwards'[r].fd /\ forwards'[q].local_fd # forwards'[r].fd
    <3>1. CASE q = p
      BY <3>1, <2>3, <1>1, <1>5, <1>6, NullAssumption
    <3>2. CASE r = p
      BY <3>2, <2>3, <2>2, <1>1, <1>5, <1>6
    <3>3. CASE q \in Active /\ r \in Active
      BY <3>3, <2>3, <1>5 DEF OwnSocket
    <3> QED BY <3>1, <3>2, <3>3, <1>5
  <2> QED BY <2>1, <2>3 DEF OwnSocket
<1> QED BY <1>3, <1>9, <1>10

\* A step that changes nothing but the silence of forwards.
LEMMA SilenceOK ==
  ASSUME IInv, TypeOK', sockets' = sockets, Active' = Active,
         \A p \in Active : /\ forwards'[p].fd = forwards[p].fd
                           /\ forwards'[p].local_fd = forwards[p].local_fd
  PROVE  IInv'
BY DEF IInv, OwnSocket, Origin

LEMMA UdpOK ==
  ASSUME IInv, NEW p \in Ports, NEW from \in Sides, NEW resend \in BOOLEAN,
         UdpCallback(p, from, resend)
  PROVE  IInv'
<1> USE DEF IInv
<1> DEFINE f == [forwards[p] EXCEPT !.silent = 0]
<1>1. p \in Active /\ forwards[p] \in Forward
  BY ForwardFields DEF UdpCallback
<1>2. /\ f \in Forward /\ f.fd = forwards[p].fd /\ f.local_fd = forwards[p].local_fd
  BY <1>1, AliveTimeAssumption DEF Forward, MaxAge
<1> HIDE DEF f
<1>3. forwards' = [forwards EXCEPT ![p] = f] /\ sockets' = sockets
  BY DEF UdpCallback, f
<1>4. route' \in [port : Ports, from : Sides, to : Sides \cup {"cache"}]
  <2>1. Destination(forwards[p], from, resend) \in Sides \cup {"cache"}
    BY DEF Destination, Sides
  <2> QED BY <2>1 DEF UdpCallback
<1>5. TypeOK'
  BY <1>2, <1>3, <1>4 DEF TypeOK
<1>6. f # NoForward
  BY <1>2, ForwardIsEntry
<1>7. /\ Active' = Active
      /\ \A q \in Active : /\ forwards'[q].fd = forwards[q].fd
                           /\ forwards'[q].local_fd = forwards[q].local_fd
  BY <1>1, <1>2, <1>3, <1>6 DEF Active, TypeOK
<1> QED BY <1>3, <1>5, <1>7, SilenceOK

LEMMA TickOK == ASSUME IInv, Tick PROVE IInv'
<1> USE DEF IInv
<1>1. ASSUME NEW p \in Active
      PROVE  /\ forwards'[p] \in Forward
             /\ forwards'[p].fd = forwards[p].fd
             /\ forwards'[p].local_fd = forwards[p].local_fd
  <2>1. forwards[p] \in Forward /\ p \in Ports
    BY <1>1, ForwardFields DEF Active
  <2>2. CASE forwards[p].silent < MaxAge
    <3>1. forwards'[p] = [forwards[p] EXCEPT !.silent = @ + 1]
      BY <1>1, <2>1, <2>2 DEF Tick
    <3> QED BY <3>1, <2>1, <2>2, AliveTimeAssumption DEF Forward, MaxAge
  <2>3. CASE ~(forwards[p].silent < MaxAge)
    BY <1>1, <2>1, <2>3 DEF Tick
  <2> QED BY <2>2, <2>3
<1>2. \A p \in Ports \ Active : forwards'[p] = NoForward
  BY DEF Tick, Active
<1>3. Active' = Active
  BY <1>1, <1>2, ForwardIsEntry DEF Active
<1>4. TypeOK'
  <2>1. forwards' = [p \in Ports |-> forwards'[p]]
    BY DEF Tick
  <2>2. \A p \in Ports : forwards'[p] \in Forward \cup {NoForward}
    BY <1>1, <1>2 DEF Active
  <2>3. forwards' \in [Ports -> Forward \cup {NoForward}]
    BY <2>1, <2>2
  <2> QED BY <2>3 DEF TypeOK, Tick
<1> QED BY <1>1, <1>3, <1>4, SilenceOK DEF Tick

LEMMA TimeoutOK == ASSUME IInv, TimeoutCb PROVE IInv'
<1> USE DEF IInv
<1>1. /\ Active' = Active \ Expired
      /\ \A p \in Active' : forwards'[p] = forwards[p] /\ p \in Active
  BY DEF TimeoutCb, Active, Expired
<1>2. \A p \in Active' : sockets'[forwards[p].fd] = sockets[forwards[p].fd]
  <2> SUFFICES ASSUME NEW p \in Active'
               PROVE  sockets'[forwards[p].fd] = sockets[forwards[p].fd]
    OBVIOUS
  <2>1. forwards[p].fd \in Fds
    BY <1>1, ForwardFields
  <2>2. forwards[p].fd \notin ClosedBy(Expired)
    BY <1>1, <2>1, NullAssumption DEF ClosedBy, OwnSocket, Expired
  <2> QED BY <2>1, <2>2 DEF TimeoutCb, TypeOK
<1>3. TypeOK'
  BY DEF TypeOK, TimeoutCb
<1>4. OwnSocket'
  BY <1>1, <1>2 DEF OwnSocket
<1>5. Origin'
  BY <1>1, <1>2 DEF Origin
<1> QED BY <1>3, <1>4, <1>5

LEMMA StepOK == IInv /\ [Next]_vars => IInv'
<1> SUFFICES ASSUME IInv, [Next]_vars PROVE IInv'
  OBVIOUS
<1>1. ASSUME NEW p \in Ports, Start(p) PROVE IInv'
  BY <1>1, OpenOK, StartOK DEF Start, StartForwardUsed
<1>2. CASE RtcpPairIgnored
  BY <1>2, OpenOK DEF RtcpPairIgnored
<1>3. CASE StartForwardNoSocket
  BY <1>3, OpenOK DEF StartForwardNoSocket
<1>4. ASSUME NEW p \in Ports, NEW from \in Sides, NEW resend \in BOOLEAN,
             UdpCallback(p, from, resend)
      PROVE  IInv'
  BY <1>4, UdpOK
<1>5. CASE TimeoutCb
  BY <1>5, TimeoutOK
<1>6. CASE Tick
  BY <1>6, TickOK
<1>7. CASE UNCHANGED vars
  BY <1>7 DEF vars, IInv, TypeOK, OwnSocket, Origin, Active
<1> QED BY <1>1, <1>2, <1>3, <1>4, <1>5, <1>6, <1>7 DEF Next

-------------------------------------------------------------------------------
LEMMA Invariance == Spec => []IInv
BY InitOK, StepOK, PTL DEF Spec

(***************************************************************************)
(* The table of forwards_ and the open sockets have their types, for any   *)
(* number of ports and descriptors.                                        *)
(***************************************************************************)
THEOREM TypeCorrect == Spec => []TypeOK
<1>1. IInv => TypeOK
  BY DEF IInv
<1> QED BY <1>1, Invariance, PTL

(***************************************************************************)
(* For any number of ports and descriptors, no two forwards share a socket *)
(* and no forward works on a closed one: startForward, the reuse of        *)
(* descriptors and the destructor in timeout_cb fit together.              *)
(***************************************************************************)
THEOREM SocketOwnership == Spec => []OwnSocket
<1>1. IInv => OwnSocket
  BY DEF IInv
<1> QED BY <1>1, Invariance, PTL

\* A forward ends in timeout_cb, which found it silent, and nowhere else.
LEMMA EndsInTimeout ==
  ASSUME IInv, [Next]_vars, NEW p \in Active, p \notin Active'
  PROVE  TimeoutCb /\ p \in Expired
<1>1. /\ forwards \in [Ports -> Forward \cup {NoForward}] /\ p \in Ports
      /\ forwards[p] \in Forward /\ forwards[p] # NoForward
  BY ForwardFields DEF IInv, Active, TypeOK
<1>2. CASE TimeoutCb
  BY <1>1, <1>2 DEF TimeoutCb, Active
<1>3. ASSUME NEW q \in Ports, Start(q) PROVE FALSE
  <2>1. ASSUME NEW fd \in Fds, NEW origin \in Origins, StartForwardUsed(q, fd, origin)
        PROVE  FALSE
    BY <2>1 DEF StartForwardUsed, Active
  <2>2. ASSUME NEW fd \in Fds, NEW origin \in Origins, NEW media \in Media,
               NEW samePort \in BOOLEAN, NEW zeroPad \in BOOLEAN,
               StartForward(q, fd, origin, media, samePort, zeroPad)
        PROVE  FALSE
    <3>1. q # p /\ forwards'[p] = forwards[p]
      BY <2>2, <1>1 DEF StartForward, Active
    <3> QED BY <3>1, <1>1 DEF Active
  <2> QED BY <1>3, <2>1, <2>2 DEF Start
<1>4. CASE RtcpPairIgnored \/ StartForwardNoSocket \/ UNCHANGED vars
  BY <1>4 DEF RtcpPairIgnored, StartForwardNoSocket, vars, Active
<1>5. ASSUME \/ Tick
             \/ \E q \in Ports, from \in Sides, resend \in BOOLEAN : UdpCallback(q, from, resend)
      PROVE  FALSE
  <2>1. \/ forwards'[p] = forwards[p]
        \/ forwards'[p] = [forwards[p] EXCEPT !.silent = @ + 1]
        \/ forwards'[p] = [forwards[p] EXCEPT !.silent = 0]
    BY <1>1, <1>5 DEF Tick, UdpCallback, Active
  <2>2. "silent" \in DOMAIN forwards[p] /\ "silent" \notin DOMAIN NoForward
    BY <1>1 DEF Forward, NoForward
  <2> QED BY <1>1, <2>1, <2>2 DEF Active
<1> QED BY <1>2, <1>3, <1>4, <1>5 DEF Next

\* Only timeout_cb closes sockets.
LEMMA ClosesInTimeout ==
  ASSUME IInv, [Next]_vars, NEW fd \in Fds, sockets[fd] # "closed", sockets'[fd] = "closed"
  PROVE  TimeoutCb
<1>1. ASSUME NEW g \in Fds, NEW origin \in Origins, OpenSocket(g, origin) PROVE FALSE
  BY <1>1 DEF OpenSocket, IInv, TypeOK
<1>2. ~ \E p \in Ports : Start(p)
  BY <1>1 DEF Start, StartForwardUsed, StartForward
<1>3. ~ (RtcpPairIgnored \/ StartForwardNoSocket)
  BY <1>1 DEF RtcpPairIgnored, StartForwardNoSocket
<1>4. sockets' # sockets
  OBVIOUS
<1> QED BY <1>2, <1>3, <1>4 DEF Next, UdpCallback, Tick, vars

(***************************************************************************)
(* A socket is given back exactly by the end of the forward that took it   *)
(* over from ICE, for any number of ports and descriptors; all others leak *)
(* with the forward, the pair for RTCP or the early return they belong to. *)
(***************************************************************************)
THEOREM SocketFate == Spec => ClosedWithForward
<1> DEFINE Fate == \A fd \in Fds : sockets[fd] # "closed" =>
                     (sockets'[fd] = "closed" <=>
                        /\ sockets[fd] = "ice"
                        /\ \E p \in Active : p \notin Active' /\ forwards[p].fd = fd)
<1>1. IInv /\ [Next]_vars => [Fate]_vars
  <2> SUFFICES ASSUME IInv, [Next]_vars, NEW fd \in Fds, sockets[fd] # "closed"
               PROVE  sockets'[fd] = "closed" <=>
                        /\ sockets[fd] = "ice"
                        /\ \E p \in Active : p \notin Active' /\ forwards[p].fd = fd
    OBVIOUS
  <2>1. ASSUME sockets[fd] = "ice", NEW p \in Active, p \notin Active', forwards[p].fd = fd
        PROVE  sockets'[fd] = "closed"
    <3>1. TimeoutCb /\ p \in Expired
      BY <2>1, EndsInTimeout
    <3>2. forwards[p].local_fd = fd
      BY <2>1 DEF IInv, Origin
    <3>3. fd \in ClosedBy(Expired)
      BY <3>1, <3>2, NullAssumption DEF ClosedBy
    <3> QED BY <3>1, <3>3 DEF TimeoutCb
  <2>2. ASSUME sockets'[fd] = "closed"
        PROVE  /\ sockets[fd] = "ice"
               /\ \E p \in Active : p \notin Active' /\ forwards[p].fd = fd
    <3>1. TimeoutCb
      BY <2>2, ClosesInTimeout
    <3>2. fd \in ClosedBy(Expired)
      BY <2>2, <3>1 DEF TimeoutCb
    <3>3. PICK p \in Expired : forwards[p].local_fd = fd
      BY <3>2 DEF ClosedBy
    <3>4. p \in Active /\ p \in Ports
      BY DEF Expired, Active
    <3>5. sockets[forwards[p].fd] = "ice" /\ forwards[p].fd = fd
      BY <3>3, <3>4, NullAssumption DEF IInv, Origin
    <3>6. p \notin Active'
      BY <3>1, <3>4 DEF TimeoutCb, Active
    <3> QED BY <3>4, <3>5, <3>6
  <2> QED BY <2>1, <2>2
<1> QED BY <1>1, Invariance, PTL DEF Spec, ClosedWithForward

(***************************************************************************)
(* timeout_cb erases no forward that has seen a packet within AliveTime,   *)
(* and nothing else erases one.                                            *)
(***************************************************************************)
THEOREM SilentOnly == Spec => OnlySilentEnd
<1> DEFINE Silent == \A p \in Active : p \notin Active' => forwards[p].silent > AliveTime
<1>1. IInv /\ [Next]_vars => [Silent]_vars
  BY EndsInTimeout DEF Expired
<1> QED BY <1>1, Invariance, PTL DEF Spec, OnlySilentEnd

(***************************************************************************)
(* isWebrtcAddr tells the two sides apart exactly when their ports differ  *)
(* or the padding of the stored address is clean: a packet is sent back or *)
(* taken for the other side's only in the remaining case, for any number   *)
(* of forwards.                                                            *)
(***************************************************************************)
THEOREM Routing == Spec => RoutedAcross
<1> DEFINE Across == \A p \in Active, from \in Sides, resend \in BOOLEAN :
             UdpCallback(p, from, resend) =>
               (route'.to = from \/ (route'.to = "cache" /\ from = "webrtc")
                  <=> from = "webrtc" /\ Confuses(forwards[p]))
<1>1. Across
  <2> SUFFICES ASSUME NEW p \in Active, NEW from \in Sides, NEW resend \in BOOLEAN,
                      UdpCallback(p, from, resend)
               PROVE  route'.to = from \/ (route'.to = "cache" /\ from = "webrtc")
                        <=> from = "webrtc" /\ Confuses(forwards[p])
    OBVIOUS
  <2>1. route'.to = Destination(forwards[p], from, resend)
    BY DEF UdpCallback
  <2>2. isWebrtcAddr(forwards[p], from) <=> from = "webrtc" /\ ~Confuses(forwards[p])
    BY DEF isWebrtcAddr, Confuses
  <2>3. CASE from = "webrtc"
    BY <2>1, <2>2, <2>3 DEF Destination
  <2>4. CASE from = "xmpp"
    BY <2>1, <2>2, <2>4 DEF Destination
  <2> QED BY <2>3, <2>4 DEF Sides
<1> QED BY <1>1, PTL DEF Spec, RoutedAcross

(***************************************************************************)
(* The comparator of Address, by which std::map finds a forward.  Among    *)
(* the addresses of one local ip it is a strict total order: two addresses *)
(* of which neither is less are equal, so that a port names one entry, as  *)
(* the model has it.                                                       *)
(***************************************************************************)
THEOREM AddressOrder ==
  ASSUME NEW ip \in Nat,
         NEW a \in [ip : {ip}, port : Nat],
         NEW b \in [ip : {ip}, port : Nat],
         NEW c \in [ip : {ip}, port : Nat]
  PROVE  /\ ~ (AddressLess(a, b) /\ AddressLess(b, a))
         /\ AddressLess(a, b) /\ AddressLess(b, c) => AddressLess(a, c)
         /\ ~ AddressLess(a, b) /\ ~ AddressLess(b, a) => a = b
<1>1. /\ AddressLess(a, b) <=> a.port < b.port
      /\ AddressLess(b, a) <=> b.port < a.port
      /\ AddressLess(b, c) <=> b.port < c.port
      /\ AddressLess(a, c) <=> a.port < c.port
  BY DEF AddressLess
<1>2. a.port = b.port => a = b
  OBVIOUS
<1> QED BY <1>1, <1>2

(***************************************************************************)
(* With a second local ip the comparator is no order: the lesser ip with   *)
(* the greater port is less and greater at once, whatever the addresses    *)
(* are.  This is why ForwardService is modelled with one local ip.         *)
(***************************************************************************)
THEOREM AddressOrderNeedsOneIp ==
  ASSUME NEW a \in [ip : Nat, port : Nat], NEW b \in [ip : Nat, port : Nat],
         a.ip < b.ip, b.port < a.port
  PROVE  AddressLess(a, b) /\ AddressLess(b, a)
BY DEF AddressLess
==============================================================================
