------------------------------ MODULE TcpServer ------------------------------
(***************************************************************************)
(* TcpServer and Connection (TcpServer.cpp, Connection.cpp): the accepted  *)
(* connections of the conference control servers, and how the server       *)
(* learns that one of them is gone.                                        *)
(*                                                                         *)
(* A session keeps a raw pointer to the Connection it came from and asks   *)
(* haveConnection before it reports a result.  A Connection leaves the set *)
(* only through closeConnection, which eventCallback calls through         *)
(* server_, a field that no constructor sets and that setServer, called by *)
(* nobody, would set.  Before it does, it returns for every event that     *)
(* names the operation the end was met in, and libevent always names it.   *)
(***************************************************************************)
CONSTANTS Conns,   \* addresses of Connection objects
          NULL

READING == "BEV_EVENT_READING"
WRITING == "BEV_EVENT_WRITING"
CONNECTED == "BEV_EVENT_CONNECTED"
EOF == "BEV_EVENT_EOF"
ERROR == "BEV_EVENT_ERROR"

VARIABLES
  connections,  \* TcpServer::connections_
  server,       \* Connection::server_: NULL or "wild", what malloc left there
  peer,         \* the other end of the socket
  pending,      \* what the bufferevent is about to report
  fault         \* history: closeConnection was called on a wild server_

tcpVars == <<connections, server, peer, pending, fault>>

TcpInit ==
  /\ connections = {}
  /\ server = [c \in Conns |-> NULL]
  /\ peer = [c \in Conns |-> "none"]
  /\ pending = [c \in Conns |-> {}]
  /\ fault = FALSE

\* TcpServer::haveConnection
haveConnection(c) == c \in connections

\* acceptCallback: new IceConnection(bev) leaves server_ uninitialised
AcceptCallback(c, garbage) ==
  /\ ~haveConnection(c)
  /\ connections' = connections \cup {c}
  /\ server' = [server EXCEPT ![c] = garbage]
  /\ peer' = [peer EXCEPT ![c] = "up"]
  /\ UNCHANGED <<pending, fault>>

\* What libevent reports on an accepted socket whose peer is gone: the
\* condition together with the operation that met it.
EndEvents == {{READING, EOF}, {READING, ERROR}, {WRITING, EOF}, {WRITING, ERROR}}

PeerEnds(c, what) ==
  /\ peer[c] = "up"
  /\ peer' = [peer EXCEPT ![c] = "gone"]
  /\ pending' = [pending EXCEPT ![c] = what]
  /\ UNCHANGED <<connections, server, fault>>

-------------------------------------------------------------------------------
\* the three early returns of eventCallback
ReturnsEarly(what) == what \cap {READING, WRITING, CONNECTED} # {}

\* the call server_->closeConnection(this) is reached
Closes(c) == ~ReturnsEarly(pending[c]) /\ server[c] # NULL

\* eventCallback; what a wild server_ does to the set is not defined
EventCallback(c) ==
  /\ pending[c] # {}
  /\ pending' = [pending EXCEPT ![c] = {}]
  /\ connections' \in {connections} \cup IF Closes(c) THEN {connections \ {c}} ELSE {}
  /\ fault' = (fault \/ Closes(c))
  /\ UNCHANGED <<server, peer>>

-------------------------------------------------------------------------------
TcpNext ==
  \E c \in Conns :
    \/ \E garbage \in {NULL, "wild"} : AcceptCallback(c, garbage)
    \/ \E what \in EndEvents : PeerEnds(c, what)
    \/ EventCallback(c)

TcpSpec == TcpInit /\ [][TcpNext]_tcpVars

-------------------------------------------------------------------------------
(* Properties *)

(***************************************************************************)
(* What TcpServer.h says of haveConnection, "whether this conn is not      *)
(* disconnected", once eventCallback has done what its last line is there  *)
(* for, "tell server to delete this conn": a connection that the server    *)
(* has is up, or its end is about to be reported.  getNegoResult sends a   *)
(* result over a connection for which haveConnection holds.                *)
(***************************************************************************)
HaveConnectionIsUp ==
  \A c \in Conns : haveConnection(c) => peer[c] = "up" \/ pending[c] # {}

(***************************************************************************)
(* What the code does instead: a connection that was accepted stays in the *)
(* set, whatever becomes of its peer, and nobody follows server_.          *)
(***************************************************************************)
StaysKnown == (\A c \in Conns : peer[c] # "none" => haveConnection(c)) /\ ~fault
==============================================================================
