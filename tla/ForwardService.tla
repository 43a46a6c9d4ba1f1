--------------------------- MODULE ForwardService ---------------------------
(***************************************************************************)
(* ForwardService (ForwardService.cpp): the table of media forwards and    *)
(* the UDP sockets behind them.                                            *)
(*                                                                         *)
(* RELAY_SESSION starts a forward for a local port.  Its socket is taken   *)
(* over from the ICE endpoint, or, when none matches the port, made by     *)
(* createUdpSocket.  The loop thread forwards what arrives on the socket   *)
(* to the other side, and a timer ends forwards that were silent.          *)
(*                                                                         *)
(* All local addresses share one ip, so that a port names an entry of      *)
(* forwards_: with two, AddressLess is no order and std::map promises      *)
(* nothing.  Of a socket address only what isWebrtcAddr compares is        *)
(* kept: whether both remote sides use the same port, and whether the      *)
(* padding of webrtcAddr, a local variable that RELAY_SESSION does not     *)
(* clear, happens to be zero.                                              *)
(***************************************************************************)
EXTENDS Naturals

CONSTANTS Ports,      \* local ports
          Fds,        \* file descriptors
          NULL,
          AliveTime   \* FORWARD_ALIVE_CHECK_TIME in clock ticks

ASSUME NullAssumption == NULL \notin Fds
ASSUME AliveTimeAssumption == AliveTime \in Nat

VARIABLES
  sockets,   \* per descriptor: "closed", or where the open socket came from
  forwards,  \* forwards_: per port a Forward, or NoForward
  route      \* history: the packet handled last, and where it went

vars == <<sockets, forwards, route>>

Media == {"MEDIA_AUDIO", "MEDIA_VIDEO"}
Sides == {"webrtc", "xmpp"}

\* A silent forward older than this is removed.
MaxAge == AliveTime + 1

Forward == [fd : Fds, local_fd : Fds \cup {NULL}, mediaType : Media, silent : 0 .. MaxAge,
            samePort : BOOLEAN, zeroPad : BOOLEAN]
NoForward == [fd |-> NULL]

\* Address::operator<, by which forwards_ orders its keys and finds them
AddressLess(a, b) == a.ip < b.ip \/ a.port < b.port

Active == {p \in Ports : forwards[p] # NoForward}

Init ==
  /\ sockets = [fd \in Fds |-> "closed"]
  /\ forwards = [p \in Ports |-> NoForward]
  /\ route = <<>>

-------------------------------------------------------------------------------
(* startForward *)

\* eice_get_global_socket gives the stolen socket that is bound to the port of the pair;
\* where there is none, createUdpSocket makes one
Origins == {"ice", "made"}

\* the socket the forward will use
OpenSocket(fd, origin) ==
  /\ sockets[fd] = "closed"
  /\ sockets' = [sockets EXCEPT ![fd] = origin]

\* RELAY_SESSION takes over the sockets of all address pairs, and gives those of
\* the pairs for RTCP to nobody
RtcpPairIgnored ==
  /\ \E fd \in Fds : OpenSocket(fd, "ice")
  /\ UNCHANGED <<forwards, route>>

\* "This local address has already used!": the socket stays open
StartForwardUsed(p, fd, origin) ==
  /\ p \in Active
  /\ OpenSocket(fd, origin)
  /\ UNCHANGED <<forwards, route>>

\* Mutant: iceInfo is not copied, so that ~Forward knows no socket.
NewForwardNoInfo(fd, origin, media, samePort, zeroPad) ==
  [fd |-> fd, local_fd |-> NULL, mediaType |-> media,
   silent |-> 0, samePort |-> samePort, zeroPad |-> zeroPad]

\* the entry of forwards_; iceInfo.local_fd only knows a socket taken over
NewForward(fd, origin, media, samePort, zeroPad) ==
  [fd |-> fd, local_fd |-> IF origin = "ice" THEN fd ELSE NULL, mediaType |-> media,
   silent |-> 0, samePort |-> samePort, zeroPad |-> zeroPad]

\* createUdpSocket fails: bind leaves its socket open, socket makes none
StartForwardNoSocket ==
  /\ \E fd \in Fds : OpenSocket(fd, "made")
  /\ UNCHANGED <<forwards, route>>

StartForward(p, fd, origin, media, samePort, zeroPad) ==
  /\ p \notin Active
  /\ OpenSocket(fd, origin)
  /\ forwards' = [forwards EXCEPT ![p] = NewForward(fd, origin, media, samePort, zeroPad)]
  /\ UNCHANGED route

-------------------------------------------------------------------------------
(* udpCallback *)

\* Mutant: the comparison of ports is the wrong way round.
isWebrtcAddrInverted(f, from) ==
  (from = "webrtc" /\ f.zeroPad) \/ (~f.samePort /\ from # "webrtc")

\* isWebrtcAddr, for a packet that came from either remote side: the kernel
\* zeroes the padding of the address it reports
isWebrtcAddr(f, from) ==
  (from = "webrtc" /\ f.zeroPad) \/ (~f.samePort /\ from = "webrtc")

\* what is believed to come from the xmpp side and asks for a resend is
\* answered from the cache, everything else is forwarded
Destination(f, from, resend) ==
  IF isWebrtcAddr(f, from) THEN "xmpp"
  ELSE IF f.mediaType = "MEDIA_VIDEO" /\ resend THEN "cache" ELSE "webrtc"

UdpCallback(p, from, resend) ==
  /\ p \in Active
  /\ route' = [port |-> p, from |-> from, to |-> Destination(forwards[p], from, resend)]
  /\ forwards' = [forwards EXCEPT ![p].silent = 0]
  /\ UNCHANGED sockets

-------------------------------------------------------------------------------
(* The timer *)

\* Mutant: audio forwards are left alone.
ExpiredVideo ==
  {p \in Active : forwards[p].silent > AliveTime /\ forwards[p].mediaType = "MEDIA_VIDEO"}

\* the forwards timeout_cb finds silent for too long
Expired == {p \in Active : forwards[p].silent > AliveTime}

\* the sockets ~Forward closes
ClosedBy(ps) == {forwards[p].local_fd : p \in ps} \ {NULL}

\* Mutant: the sockets are closed, but the entries stay.
TimeoutCbKeepsEntries ==
  /\ Expired # {}
  /\ sockets' = [fd \in Fds |-> IF fd \in ClosedBy(Expired) THEN "closed" ELSE sockets[fd]]
  /\ UNCHANGED <<forwards, route>>

\* timeout_cb: every forward that was silent too long is erased
TimeoutCb ==
  /\ Expired # {}
  /\ forwards' = [p \in Ports |-> IF p \in Expired THEN NoForward ELSE forwards[p]]
  /\ sockets' = [fd \in Fds |-> IF fd \in ClosedBy(Expired) THEN "closed" ELSE sockets[fd]]
  /\ UNCHANGED route

\* a tick of time(NULL), counted up to MaxAge
Tick ==
  /\ Active # {}
  /\ forwards' = [p \in Ports |->
       IF p \in Active /\ forwards[p].silent < MaxAge
         THEN [forwards[p] EXCEPT !.silent = @ + 1] ELSE forwards[p]]
  /\ UNCHANGED <<sockets, route>>

-------------------------------------------------------------------------------
Start(p) ==
  \E fd \in Fds, origin \in Origins :
    \/ StartForwardUsed(p, fd, origin)
    \/ \E media \in Media, samePort, zeroPad \in BOOLEAN :
         StartForward(p, fd, origin, media, samePort, zeroPad)

Next ==
  \/ \E p \in Ports : Start(p)
  \/ RtcpPairIgnored
  \/ StartForwardNoSocket
  \/ \E p \in Ports, from \in Sides, resend \in BOOLEAN : UdpCallback(p, from, resend)
  \/ TimeoutCb
  \/ Tick

Spec == Init /\ [][Next]_vars

\* Time passes and the loop runs its timer; nobody has to send packets.
FairSpec == Spec /\ WF_vars(TimeoutCb) /\ WF_vars(Tick)

-------------------------------------------------------------------------------
(* Properties *)

TypeOK ==
  /\ sockets \in [Fds -> {"closed"} \cup Origins]
  /\ forwards \in [Ports -> Forward \cup {NoForward}]
  /\ route \in [port : Ports, from : Sides, to : Sides \cup {"cache"}] \cup {<<>>}

(***************************************************************************)
(* A forward has a socket of its own and the socket is open: no other      *)
(* forward uses it, and none that ends closes it, although descriptors are *)
(* given out again as soon as they are closed.                             *)
(***************************************************************************)
OwnSocket ==
  /\ \A p \in Active : sockets[forwards[p].fd] # "closed"
  /\ \A p, q \in Active : p # q =>
       /\ forwards[p].fd # forwards[q].fd
       /\ forwards[p].local_fd # forwards[q].fd

(***************************************************************************)
(* The fate of an open socket: it is closed in the step in which a forward *)
(* ends that took it over from its ICE endpoint, and at no other time.  So *)
(* a socket that createUdpSocket made, one of a pair for RTCP and one that *)
(* a start came too late for stay open for ever.                           *)
(***************************************************************************)
ClosedWithForward ==
  [][\A fd \in Fds : sockets[fd] # "closed" =>
       (sockets'[fd] = "closed" <=>
          /\ sockets[fd] = "ice"
          /\ \E p \in Active : p \notin Active' /\ forwards[p].fd = fd)]_vars

(***************************************************************************)
(* A forward is never ended while packets keep coming more often than      *)
(* every AliveTime.                                                        *)
(***************************************************************************)
OnlySilentEnd ==
  [][\A p \in Active : p \notin Active' => forwards[p].silent > AliveTime]_vars

\* the forward cannot tell its two remote sides apart
Confuses(f) == f.samePort /\ ~f.zeroPad

(***************************************************************************)
(* A packet goes to the other side, and only a packet of the xmpp side is  *)
(* taken for a resend request - unless it comes from the webrtc side, the  *)
(* two sides use the same port and the padding of webrtcAddr, that nobody  *)
(* clears, is dirty.  Then it is sent back or taken for a request.         *)
(***************************************************************************)
RoutedAcross ==
  [][\A p \in Active, from \in Sides, resend \in BOOLEAN :
       UdpCallback(p, from, resend) =>
         (route'.to = from \/ (route'.to = "cache" /\ from = "webrtc")
            <=> from = "webrtc" /\ Confuses(forwards[p]))]_vars

(***************************************************************************)
(* A forward lasts only as long as packets keep arriving.                  *)
(***************************************************************************)
SilentEnds ==
  \A p \in Ports : <>[](p \in Active) => []<>(p \in Active /\ forwards[p].silent = 0)

==============================================================================
