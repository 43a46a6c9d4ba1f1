------------------------------- MODULE ConfIce -------------------------------
(***************************************************************************)
(* confice (eice.cpp): the fall-back of an ICE session over a conference   *)
(* relay server.                                                           *)
(*                                                                         *)
(* Both ends of a call, the controlling caller and the controlled callee,  *)
(* register every media channel with the relay, then negotiate a second,   *)
(* wrapped ICE session through it.  When the direct ICE session of the     *)
(* caller has failed, the caller selects the relay for every channel and   *)
(* the callee acknowledges.  A direct success cancels the relay.           *)
(*                                                                         *)
(* Every handler takes grp_lock, so it is one action.  The network loses,  *)
(* duplicates and reorders: net holds every message ever sent, and any of  *)
(* them may arrive at any time, again, or never.  A message with a wrong   *)
(* check sum, session or status changes nothing and is left out.           *)
(***************************************************************************)
EXTENDS Naturals

CONSTANTS ChannelCount,  \* channelCount: 1, or 2 with a video channel
          MaxTicks       \* timeout_ms in periods of the 200 ms timer

ASSUME ChannelAssumption == ChannelCount \in Nat \ {0}
ASSUME TicksAssumption == MaxTicks \in Nat

Peers == {"caller", "callee"}
Channels == 1 .. ChannelCount

\* confice_op
NONE == 0
REGING == 1
REG_DONE == 2
NEGOING == 3
NEGO_DONE == 4
SELECTING == 5
FINAL == 99
Ops == {NONE, REGING, REG_DONE, NEGOING, NEGO_DONE, SELECTING, FINAL}

VARIABLES
  state,        \* obj->state
  finalResult,  \* obj->final_result
  confDone,     \* confice_done of the eice object
  confStatus,   \* confice_status of the eice object
  kicked,       \* sel_relay_kicked
  isReg,        \* channels with is_reg
  relayDone,    \* channels with is_relay_done
  selDone,      \* sel_relay_done
  wrapped,      \* ice_sess: the wrapped session was created
  heard,        \* the wrapped session got a packet of the other side
  timer,        \* the 200 ms timer is in the timer heap
  ticks,        \* periods since reg_send_time or sel_relay_send_time
  socks,        \* the socket of each channel
  phase,        \* how far eice_start_nego and eice_free are
  direct,       \* the direct ICE session: ice_nego_done and ice_nego_status
  forced,       \* force_relay of each side
  net           \* messages sent so far

outcomeVars == <<state, finalResult, confDone, confStatus>>
relayVars == <<isReg, relayDone, selDone>>
timeVars == <<timer, ticks>>
iceVars == <<wrapped, heard>>
startVars == <<socks, phase, direct, forced>>
vars == <<outcomeVars, kicked, relayVars, iceVars, timeVars, startVars, net>>

\* peer is the sender of a REGISTER and the receiver of everything else
Message == [type : {"REGISTER", "REGISTER_ACK", "ICE_WRAP", "SELECT_RELAY", "SELECT_RELAY_ACK"},
            peer : Peers, ch : Channels]

\* one message for every channel, under the header of _build_msg_header
ForAll(type, p) == {[type |-> type, peer |-> p, ch |-> c] : c \in Channels}

\* _send_reg: a packet of _make_reg_pkt for every channel
SendReg(p) == ForAll("REGISTER", p)

Init ==
  /\ state = [p \in Peers |-> NONE]
  /\ finalResult = [p \in Peers |-> "none"]
  /\ confDone = [p \in Peers |-> FALSE]
  /\ confStatus = [p \in Peers |-> "none"]
  /\ kicked = [p \in Peers |-> FALSE]
  /\ isReg = [p \in Peers |-> {}]
  /\ relayDone = [p \in Peers |-> {}]
  /\ selDone = [p \in Peers |-> FALSE]
  /\ wrapped = [p \in Peers |-> FALSE]
  /\ heard = [p \in Peers |-> FALSE]
  /\ timer = [p \in Peers |-> FALSE]
  /\ ticks = [p \in Peers |-> 0]
  /\ socks = [p \in Peers |-> [c \in Channels |-> "none"]]
  /\ phase = [p \in Peers |-> "none"]
  /\ direct = [p \in Peers |-> "none"]
  /\ forced \in [Peers -> BOOLEAN]
  /\ net = {}

-------------------------------------------------------------------------------
(* Helpers *)

\* the object exists: eice_new made it and eice_free has not freed it
Live(p) == phase[p] \in {"made", "ice", "reg", "started", "failed"}

\* _check_reg_ack: length, check sum, session and status are right
CheckRegAck(p, c) == Live(p) /\ [type |-> "REGISTER_ACK", peer |-> p, ch |-> c] \in net

\* a message for the channel passed the tests of header, session, component and check sum
Received(type, p, c) == Live(p) /\ [type |-> type, peer |-> p, ch |-> c] \in net

\* on_confice_complete: the eice object takes note of the final result
onConficeComplete(p, r) ==
  /\ confDone' = [confDone EXCEPT ![p] = TRUE]
  /\ confStatus' = [confStatus EXCEPT ![p] = r]

\* Mutant: the user is told of every final state, not of the first.
SetFinalAgain(p, r) ==
  /\ state' = [state EXCEPT ![p] = FINAL]
  /\ finalResult' = [finalResult EXCEPT ![p] = IF state[p] < FINAL THEN r ELSE @]
  /\ onConficeComplete(p, r)

\* Mutant: a later outcome replaces the one that was reported.
SetFinalRevises(p, r) ==
  /\ state' = [state EXCEPT ![p] = FINAL]
  /\ finalResult' = [finalResult EXCEPT ![p] = r]
  /\ onConficeComplete(p, r)

\* _set_final over _set_state
SetFinal(p, r) ==
  /\ state' = [state EXCEPT ![p] = FINAL]
  /\ IF state[p] < FINAL
       THEN /\ finalResult' = [finalResult EXCEPT ![p] = r]
            /\ onConficeComplete(p, r)
       ELSE UNCHANGED <<finalResult, confDone, confStatus>>

\* Mutant: the relay is selected as soon as it is negotiated.
MaySelectUnasked(p, st, kick) == st = NEGO_DONE /\ p = "caller"

\* the three tests of _check_for_select_relay
MaySelect(p, st, kick) == st = NEGO_DONE /\ kick /\ p = "caller"

\* _check_for_select_relay, called in state st
CheckForSelectRelay(p, st, kick) ==
  IF MaySelect(p, st, kick)
    THEN /\ state' = [state EXCEPT ![p] = SELECTING]
         /\ ticks' = [ticks EXCEPT ![p] = 0]
         /\ net' = net \cup ForAll("SELECT_RELAY", "callee")
    ELSE /\ state' = [state EXCEPT ![p] = st]
         /\ UNCHANGED <<ticks, net>>

\* confice_kickoff_select_relay
KickoffSelectRelay(p) ==
  IF state[p] >= SELECTING
    THEN UNCHANGED <<state, kicked, ticks, net>>
    ELSE /\ kicked' = [kicked EXCEPT ![p] = TRUE]
         /\ CheckForSelectRelay(p, state[p], TRUE)

\* confice_cancel
Cancel(p) == IF state[p] >= FINAL THEN UNCHANGED outcomeVars ELSE SetFinal(p, "fail")

\* the loop of _check_for_select_relay_done
AllRelayed(done) == done = Channels

\* _check_for_select_relay_done, after the channels in done
CheckForSelectRelayDone(p, done) ==
  IF ~selDone[p] /\ AllRelayed(done)
    THEN selDone' = [selDone EXCEPT ![p] = TRUE] /\ SetFinal(p, "ok")
    ELSE UNCHANGED <<selDone, outcomeVars>>

\* Mutant: only sockets that joined the ioqueue are closed.
ClosedActive(s) == [c \in Channels |-> IF s[c] = "active" THEN "closed" ELSE s[c]]

\* the loop of confice_free over the channels; stolen descriptors stay open
Closed(s) == [c \in Channels |-> IF s[c] \in {"bound", "active"} THEN "closed" ELSE s[c]]

-------------------------------------------------------------------------------
(* eice_start_nego, on the loop thread *)

\* confice_new: a socket in the ioqueue for every channel, and the timer
ConfNew(p) ==
  /\ phase[p] = "none"
  /\ phase' = [phase EXCEPT ![p] = "made"]
  /\ socks' = [socks EXCEPT ![p] = [c \in Channels |-> "active"]]
  /\ timer' = [timer EXCEPT ![p] = TRUE]
  /\ UNCHANGED <<outcomeVars, kicked, relayVars, iceVars, ticks, direct, forced, net>>

\* confice_new fails at channel k, before or after its socket was created
ConfNewFails(p, k, created) ==
  /\ phase[p] = "none"
  /\ phase' = [phase EXCEPT ![p] = "freed"]
  /\ socks' = [socks EXCEPT ![p] = Closed([c \in Channels |->
       CASE c < k -> "active" [] c = k /\ created -> "bound" [] OTHER -> "none"])]
  /\ UNCHANGED <<outcomeVars, kicked, relayVars, iceVars, timeVars, direct, forced, net>>

\* pj_ice_strans_start_ice and the 4 s timer, unless the relay is forced
StartIce(p) ==
  /\ phase[p] = "made"
  /\ phase' = [phase EXCEPT ![p] = "ice"]
  /\ direct' = [direct EXCEPT ![p] = IF forced[p] THEN "skipped" ELSE "running"]
  /\ UNCHANGED <<outcomeVars, kicked, relayVars, iceVars, timeVars, socks, forced, net>>

StartIceFails(p) ==
  /\ phase[p] = "made"
  /\ ~forced[p]
  /\ phase' = [phase EXCEPT ![p] = "failed"]
  /\ UNCHANGED <<outcomeVars, kicked, relayVars, iceVars, timeVars, socks, direct, forced, net>>

\* confice_kickoff_reg, unless a direct success has already cancelled the relay
KickoffReg(p) ==
  /\ phase[p] = "ice"
  /\ phase' = [phase EXCEPT ![p] = "reg"]
  /\ IF state[p] >= REGING
       THEN UNCHANGED <<state, ticks, net>>
       ELSE /\ state' = [state EXCEPT ![p] = REGING]
            /\ ticks' = [ticks EXCEPT ![p] = 0]
            /\ net' = net \cup SendReg(p)
  /\ UNCHANGED <<finalResult, confDone, confStatus, kicked, relayVars, iceVars, timer, socks,
                 direct, forced>>

\* the caller selects the relay at once when either side has forced it
StartNegoReturns(p) ==
  /\ phase[p] = "reg"
  /\ phase' = [phase EXCEPT ![p] = "started"]
  /\ IF p = "caller" /\ \E q \in Peers : forced[q]
       THEN KickoffSelectRelay(p)
       ELSE UNCHANGED <<state, kicked, ticks, net>>
  /\ UNCHANGED <<finalResult, confDone, confStatus, relayVars, iceVars, timer, socks, direct,
                 forced>>

-------------------------------------------------------------------------------
(* The direct ICE session, on the worker thread *)

\* cb_on_ice_complete with PJ_SUCCESS
DirectOk(p) ==
  /\ Live(p) /\ direct[p] = "running"
  /\ direct' = [direct EXCEPT ![p] = "ok"]
  /\ Cancel(p)
  /\ UNCHANGED <<kicked, relayVars, iceVars, timeVars, socks, phase, forced, net>>

\* cb_on_ice_complete with an error, and timer_ice_cb
DirectFailed(p) ==
  /\ Live(p) /\ direct[p] = "running"
  /\ direct' = [direct EXCEPT ![p] = "failed"]
  /\ IF p = "caller" THEN KickoffSelectRelay(p) ELSE UNCHANGED <<state, kicked, ticks, net>>
  /\ UNCHANGED <<finalResult, confDone, confStatus, relayVars, iceVars, timer, socks, phase,
                 forced>>

-------------------------------------------------------------------------------
(* Packets, on the worker thread *)

\* the relay server acknowledges a registration (external)
ServerAck(p, c) ==
  /\ [type |-> "REGISTER", peer |-> p, ch |-> c] \in net
  /\ net' = net \cup {[type |-> "REGISTER_ACK", peer |-> p, ch |-> c]}
  /\ UNCHANGED <<outcomeVars, kicked, relayVars, iceVars, timeVars, startVars>>

\* _start_nego: the wrapped session gets its candidates, and is started unless one step fails
StartNego(p, starts) ==
  \/ /\ starts
     /\ wrapped' = [wrapped EXCEPT ![p] = TRUE]
     /\ state' = [state EXCEPT ![p] = NEGOING]
     /\ UNCHANGED <<finalResult, confDone, confStatus>>
  \/ /\ ~starts
     /\ SetFinal(p, "fail")
     /\ UNCHANGED wrapped

\* a REGISTER packet is an acknowledgement; the last one starts the wrapped negotiation
RecvRegAck(p, c, starts) ==
  /\ CheckRegAck(p, c)
  /\ state[p] = REGING
  /\ isReg' = [isReg EXCEPT ![p] = @ \cup {c}]
  /\ IF isReg[p] \cup {c} = Channels
       THEN StartNego(p, starts)
       ELSE UNCHANGED <<outcomeVars, wrapped>>
  /\ UNCHANGED <<kicked, relayDone, selDone, heard, timeVars, startVars, net>>

\* on_ccc_ice_tx_pkt: the wrapped session talks to the other side
IceTxPkt(p) ==
  /\ Live(p) /\ wrapped[p]
  /\ \E q \in Peers \ {p} : net' = net \cup ForAll("ICE_WRAP", q)
  /\ UNCHANGED <<outcomeVars, kicked, relayVars, iceVars, timeVars, startVars>>

\* ICE_WRAP: dropped before the wrapped session exists
RecvIceWrap(p, c) ==
  /\ Received("ICE_WRAP", p, c)
  /\ wrapped[p]
  /\ heard' = [heard EXCEPT ![p] = TRUE]
  /\ UNCHANGED <<outcomeVars, kicked, relayVars, wrapped, timeVars, startVars, net>>

\* Mutant: completion does not look for a selection that was asked for before.
IceCompleteOkWaits(p) ==
  /\ Live(p) /\ wrapped[p] /\ heard[p]
  /\ state[p] = NEGOING
  /\ state' = [state EXCEPT ![p] = NEGO_DONE]
  /\ UNCHANGED <<finalResult, confDone, confStatus, kicked, relayVars, iceVars, timeVars,
                 startVars, net>>

\* on_ccc_ice_complete with PJ_SUCCESS
IceCompleteOk(p) ==
  /\ Live(p) /\ wrapped[p] /\ heard[p]
  /\ state[p] = NEGOING
  /\ CheckForSelectRelay(p, NEGO_DONE, kicked[p])
  /\ UNCHANGED <<finalResult, confDone, confStatus, kicked, relayVars, iceVars, timer,
                 startVars>>

\* on_ccc_ice_complete with an error
IceCompleteFails(p) ==
  /\ Live(p) /\ wrapped[p]
  /\ state[p] = NEGOING
  /\ SetFinal(p, "fail")
  /\ UNCHANGED <<kicked, relayVars, iceVars, timeVars, startVars, net>>

\* Mutant: a selection is acknowledged in any state, but kept only when expected.
RecvSelectRelayEarly(c) ==
  /\ Received("SELECT_RELAY", "callee", c)
  /\ relayDone' = [relayDone EXCEPT !["callee"] =
                     IF state["callee"] >= NEGO_DONE THEN @ \cup {c} ELSE @]
  /\ net' = net \cup {[type |-> "SELECT_RELAY_ACK", peer |-> "caller", ch |-> c]}
  /\ CheckForSelectRelayDone("callee", relayDone'["callee"])
  /\ UNCHANGED <<kicked, isReg, iceVars, timeVars, startVars>>

\* SELECT_RELAY at the callee, also in its final state
RecvSelectRelay(c) ==
  /\ Received("SELECT_RELAY", "callee", c)
  /\ state["callee"] >= NEGO_DONE
  /\ relayDone' = [relayDone EXCEPT !["callee"] = @ \cup {c}]
  /\ net' = net \cup {[type |-> "SELECT_RELAY_ACK", peer |-> "caller", ch |-> c]}
  /\ CheckForSelectRelayDone("callee", relayDone["callee"] \cup {c})
  /\ UNCHANGED <<kicked, isReg, iceVars, timeVars, startVars>>

\* SELECT_RELAY_ACK at the caller
RecvSelectRelayAck(c) ==
  /\ Received("SELECT_RELAY_ACK", "caller", c)
  /\ state["caller"] = SELECTING
  /\ relayDone' = [relayDone EXCEPT !["caller"] = @ \cup {c}]
  /\ CheckForSelectRelayDone("caller", relayDone["caller"] \cup {c})
  /\ UNCHANGED <<kicked, isReg, iceVars, timeVars, startVars, net>>

-------------------------------------------------------------------------------
(* timer_cb, on the worker thread *)

\* nobody answered yet: send again what is already in net
TimerResends(p) ==
  /\ Live(p) /\ timer[p]
  /\ state[p] \in {REGING, SELECTING}
  /\ ticks[p] < MaxTicks
  /\ ticks' = [ticks EXCEPT ![p] = @ + 1]
  /\ UNCHANGED <<outcomeVars, kicked, relayVars, iceVars, timer, startVars, net>>

\* nobody answered in time
TimerTimesOut(p) ==
  /\ Live(p) /\ timer[p]
  /\ state[p] \in {REGING, SELECTING}
  /\ ticks[p] >= MaxTicks
  /\ SetFinal(p, "fail")
  /\ timer' = [timer EXCEPT ![p] = FALSE]
  /\ UNCHANGED <<kicked, relayVars, iceVars, ticks, startVars, net>>

\* the timer is not scheduled again; in every other state it is
TimerStops(p) ==
  /\ Live(p) /\ timer[p]
  /\ state[p] = FINAL
  /\ timer' = [timer EXCEPT ![p] = FALSE]
  /\ UNCHANGED <<outcomeVars, kicked, relayVars, iceVars, ticks, startVars, net>>

-------------------------------------------------------------------------------
(* The end, on the loop thread *)

\* confice_get_result and confice_steal_fds have something to give
HasResult(p) == state[p] = FINAL /\ finalResult[p] = "ok"

\* confice_steal_fds, after eice_steal_fds found no direct success
StealFds(p) ==
  /\ phase[p] = "started"
  /\ confDone[p] /\ direct[p] \in {"failed", "skipped"}
  /\ HasResult(p)
  /\ socks' = [socks EXCEPT ![p] = [c \in Channels |-> "stolen"]]
  /\ UNCHANGED <<outcomeVars, kicked, relayVars, iceVars, timeVars, phase, direct, forced, net>>

\* confice_free, from eice_free
ConfFree(p) ==
  /\ phase[p] \in {"started", "failed"}
  /\ phase' = [phase EXCEPT ![p] = "freed"]
  /\ timer' = [timer EXCEPT ![p] = FALSE]
  /\ wrapped' = [wrapped EXCEPT ![p] = FALSE]
  /\ socks' = [socks EXCEPT ![p] = Closed(socks[p])]
  /\ UNCHANGED <<outcomeVars, kicked, relayVars, heard, ticks, direct, forced, net>>

-------------------------------------------------------------------------------
Start(p) == StartIce(p) \/ StartIceFails(p) \/ KickoffReg(p) \/ StartNegoReturns(p)
Direct(p) == DirectOk(p) \/ DirectFailed(p)
IceComplete(p) == IceCompleteOk(p) \/ IceCompleteFails(p)
Timer(p) == TimerResends(p) \/ TimerTimesOut(p) \/ TimerStops(p)

Receive(p, c) ==
  \/ ServerAck(p, c)
  \/ \E starts \in BOOLEAN : RecvRegAck(p, c, starts)
  \/ RecvIceWrap(p, c)

Next ==
  \/ \E p \in Peers : ConfNew(p) \/ Start(p) \/ Direct(p) \/ IceTxPkt(p) \/ IceComplete(p)
                        \/ Timer(p) \/ StealFds(p) \/ ConfFree(p)
  \/ \E p \in Peers, k \in Channels, created \in BOOLEAN : ConfNewFails(p, k, created)
  \/ \E p \in Peers, c \in Channels : Receive(p, c)
  \/ \E c \in Channels : RecvSelectRelay(c) \/ RecvSelectRelayAck(c)

Spec == Init /\ [][Next]_vars

(***************************************************************************)
(* The loop thread runs eice_start_nego to its end, the worker polls its   *)
(* timers, the direct session ends at the latest by its 4 s timer, and     *)
(* pjnath ends the wrapped session by its own timeouts.  Nothing is        *)
(* assumed of the network or of the other side.                            *)
(***************************************************************************)
FairSpec ==
  /\ Spec
  /\ \A p \in Peers : /\ WF_vars(Start(p)) /\ WF_vars(Direct(p))
                      /\ WF_vars(IceComplete(p)) /\ WF_vars(Timer(p))

-------------------------------------------------------------------------------
(* Properties *)

\* The relay object and what its user keeps of it.
TypeOK ==
  /\ state \in [Peers -> Ops]
  /\ finalResult \in [Peers -> {"none", "ok", "fail"}]
  /\ confDone \in [Peers -> BOOLEAN]
  /\ confStatus \in [Peers -> {"none", "ok", "fail"}]
  /\ kicked \in [Peers -> BOOLEAN]
  /\ isReg \in [Peers -> SUBSET Channels]
  /\ relayDone \in [Peers -> SUBSET Channels]
  /\ selDone \in [Peers -> BOOLEAN]
  /\ wrapped \in [Peers -> BOOLEAN]
  /\ heard \in [Peers -> BOOLEAN]
  /\ timer \in [Peers -> BOOLEAN]
  /\ ticks \in [Peers -> 0 .. MaxTicks]
  /\ socks \in [Peers -> [Channels -> {"none", "bound", "active", "stolen", "closed"}]]
  /\ phase \in [Peers -> {"none", "made", "ice", "reg", "started", "failed", "freed"}]
  /\ direct \in [Peers -> {"none", "running", "ok", "failed", "skipped"}]
  /\ forced \in [Peers -> BOOLEAN]
  /\ net \subseteq Message

(***************************************************************************)
(* The eice object reports the relay as done exactly when the relay is in  *)
(* its final state, with the result the relay keeps - although a callee    *)
(* goes on answering selections after it was cancelled.                    *)
(***************************************************************************)
ReportedIsFinal ==
  \A p \in Peers : /\ confDone[p] <=> state[p] = FINAL
                   /\ confDone[p] => confStatus[p] = finalResult[p]

(***************************************************************************)
(* A result, once final, is never revised by a late packet, timer,         *)
(* completion or cancellation.                                             *)
(***************************************************************************)
FinalStays ==
  [][\A p \in Peers : state[p] = FINAL =>
       state'[p] = FINAL /\ finalResult'[p] = finalResult[p] /\ confStatus'[p] = confStatus[p]]_vars

(***************************************************************************)
(* When the caller uses the relay, the callee took the selection of every  *)
(* channel, whatever was lost or sent again.                               *)
(***************************************************************************)
CallerOkCalleeTook == finalResult["caller"] = "ok" => relayDone["callee"] = Channels

(***************************************************************************)
(* The callee uses the relay only if the direct session of the caller has  *)
(* failed, or one of them had no direct session.                           *)
(***************************************************************************)
CalleeOkCallerFailed ==
  finalResult["callee"] = "ok" => direct["caller"] = "failed" \/ \E p \in Peers : forced[p]

(***************************************************************************)
(* A relay object that is gone has closed every socket it did not give     *)
(* away, also when its construction failed half-way.                       *)
(***************************************************************************)
NoSocketLeft ==
  \A p \in Peers : phase[p] = "freed" =>
    \A c \in Channels : socks[p][c] \in {"none", "stolen", "closed"}

(***************************************************************************)
(* A caller that started its relay gets a final result, whichever of the   *)
(* direct failure, the registration and the wrapped negotiation comes      *)
(* first.                                                                  *)
(***************************************************************************)
CallerFinishes ==
  phase["caller"] = "started" ~> state["caller"] = FINAL \/ phase["caller"] = "freed"
==============================================================================
