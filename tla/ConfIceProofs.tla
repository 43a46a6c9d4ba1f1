---------------------------- MODULE ConfIceProofs ----------------------------
(***************************************************************************)
(* What holds of the relay client for any number of channels and any       *)
(* timeout, over a network that loses, repeats and reorders.               *)
(*                                                                         *)
(* The invariants of the protocol are about pairs of peers and about       *)
(* messages still in the network, so they are proved with the chain of     *)
(* reasons that leads from one side to the other: an acknowledgement was   *)
(* sent by a callee that took the channel, a selection was sent by a       *)
(* caller that was kicked, and a caller is kicked for one of two reasons.  *)
(***************************************************************************)
EXTENDS ConfIce, TLAPS

Results == {"none", "ok", "fail"}
Select(c) == [type |-> "SELECT_RELAY", peer |-> "callee", ch |-> c]
SelectAck(c) == [type |-> "SELECT_RELAY_ACK", peer |-> "caller", ch |-> c]

-------------------------------------------------------------------------------
(* The helpers *)

\* Messages for all channels are messages.
LEMMA ForAllMessages ==
  ASSUME NEW type \in {"REGISTER", "REGISTER_ACK", "ICE_WRAP", "SELECT_RELAY", "SELECT_RELAY_ACK"},
         NEW p \in Peers
  PROVE  ForAll(type, p) \subseteq Message
BY DEF ForAll, Message

\* What _set_final does: a first result is stored and reported, a later one is dropped.
LEMMA SetFinalEffect ==
  ASSUME TypeOK, NEW p \in Peers, NEW r \in {"ok", "fail"}, SetFinal(p, r)
  PROVE  /\ state' \in [Peers -> Ops]
         /\ finalResult' \in [Peers -> Results]
         /\ confDone' \in [Peers -> BOOLEAN]
         /\ confStatus' \in [Peers -> Results]
         /\ ReportedIsFinal => ReportedIsFinal'
         /\ \A q \in Peers : state[q] = FINAL =>
              /\ state'[q] = FINAL /\ finalResult'[q] = finalResult[q]
              /\ ReportedIsFinal => confStatus'[q] = confStatus[q]
         /\ \A q \in Peers : finalResult'[q] # finalResult[q] => q = p /\ finalResult'[q] = r
PROOF
  <1> USE DEF Ops, NONE, REGING, REG_DONE, NEGOING, NEGO_DONE, SELECTING, FINAL, Results
  <1>1. CASE state[p] < FINAL
    <2>1. /\ state' = [state EXCEPT ![p] = FINAL]
          /\ finalResult' = [finalResult EXCEPT ![p] = r]
          /\ confDone' = [confDone EXCEPT ![p] = TRUE]
          /\ confStatus' = [confStatus EXCEPT ![p] = r]
      BY <1>1 DEF SetFinal, onConficeComplete
    <2>2. /\ state'[p] = FINAL /\ finalResult'[p] = r /\ confDone'[p] = TRUE /\ confStatus'[p] = r
      BY <2>1 DEF TypeOK
    <2>3. \A q \in Peers \ {p} : /\ state'[q] = state[q] /\ finalResult'[q] = finalResult[q]
                                 /\ confDone'[q] = confDone[q] /\ confStatus'[q] = confStatus[q]
      BY <2>1 DEF TypeOK
    <2>4. ASSUME ReportedIsFinal PROVE ReportedIsFinal'
      BY <2>2, <2>3, <2>4, Zenon DEF ReportedIsFinal
    <2>5. /\ state' \in [Peers -> Ops] /\ finalResult' \in [Peers -> Results]
          /\ confDone' \in [Peers -> BOOLEAN] /\ confStatus' \in [Peers -> Results]
      BY <2>1 DEF TypeOK
    <2>6. state[p] # FINAL
      BY <1>1
    <2> HIDE DEF FINAL
    <2> QED BY <2>2, <2>3, <2>4, <2>5, <2>6
  <1>2. CASE ~(state[p] < FINAL)
    <2>1. state[p] = FINAL
      BY <1>2 DEF TypeOK
    <2>2. state' = state /\ UNCHANGED <<finalResult, confDone, confStatus>>
      BY <1>2, <2>1 DEF SetFinal, TypeOK
    <2> QED BY <2>2 DEF TypeOK, ReportedIsFinal
  <1> QED BY <1>1, <1>2

\* confice_cancel stores a failure, or nothing.
LEMMA CancelEffect ==
  ASSUME TypeOK, NEW p \in Peers, Cancel(p)
  PROVE  (state[p] = FINAL /\ UNCHANGED outcomeVars) \/ SetFinal(p, "fail")
BY DEF Cancel, TypeOK, Ops, NONE, REGING, REG_DONE, NEGOING, NEGO_DONE, SELECTING, FINAL

\* _check_for_select_relay sends its messages only for a caller that was kicked.
LEMMA SelectEffect ==
  ASSUME TypeOK, NEW p \in Peers, NEW st \in Ops, NEW kick \in BOOLEAN,
         CheckForSelectRelay(p, st, kick)
  PROVE  /\ state' \in [Peers -> Ops]
         /\ state'[p] = FINAL <=> st = FINAL
         /\ \A q \in Peers \ {p} : state'[q] = state[q]
         /\ ticks' \in [Peers -> 0 .. MaxTicks]
         /\ net' \subseteq Message
         /\ net' = net \/ (kick /\ p = "caller" /\ net' = net \cup ForAll("SELECT_RELAY", "callee"))
PROOF
  <1>1. CASE MaySelect(p, st, kick)
    <2>1. ForAll("SELECT_RELAY", "callee") \subseteq Message
      BY ForAllMessages DEF Peers
    <2> QED
      BY <1>1, <2>1, TicksAssumption
      DEF CheckForSelectRelay, MaySelect, TypeOK, Ops, NONE, REGING, REG_DONE, NEGOING, NEGO_DONE,
          SELECTING, FINAL
  <1>2. CASE ~MaySelect(p, st, kick)
    BY <1>2 DEF CheckForSelectRelay, TypeOK
  <1> QED BY <1>1, <1>2

\* confice_kickoff_select_relay marks the caller before it sends anything.
LEMMA KickEffect ==
  ASSUME TypeOK, NEW p \in Peers, KickoffSelectRelay(p)
  PROVE  /\ state' \in [Peers -> Ops]
         /\ \A q \in Peers : state'[q] = FINAL <=> state[q] = FINAL
         /\ kicked' \in [Peers -> BOOLEAN]
         /\ \A q \in Peers \ {p} : kicked'[q] = kicked[q]
         /\ kicked[p] => kicked'[p]
         /\ ticks' \in [Peers -> 0 .. MaxTicks]
         /\ net' \subseteq Message
         /\ \/ net' = net
            \/ kicked'[p] /\ p = "caller" /\ net' = net \cup ForAll("SELECT_RELAY", "callee")
PROOF
  <1>1. CASE state[p] >= SELECTING
    BY <1>1 DEF KickoffSelectRelay, TypeOK
  <1>2. CASE ~(state[p] >= SELECTING)
    <2>1. kicked' = [kicked EXCEPT ![p] = TRUE] /\ CheckForSelectRelay(p, state[p], TRUE)
      BY <1>2 DEF KickoffSelectRelay
    <2>2. kicked' \in [Peers -> BOOLEAN] /\ kicked'[p] /\ \A q \in Peers \ {p} : kicked'[q] = kicked[q]
      BY <2>1 DEF TypeOK
    <2>3. state[p] \in Ops
      BY DEF TypeOK
    <2> QED BY <2>1, <2>2, <2>3, SelectEffect
  <1> QED BY <1>1, <1>2

\* _check_for_select_relay_done succeeds only when the last channel is done.
LEMMA SelectDoneEffect ==
  ASSUME TypeOK, NEW p \in Peers, NEW done \in SUBSET Channels, CheckForSelectRelayDone(p, done)
  PROVE  /\ selDone' \in [Peers -> BOOLEAN]
         /\ (done = Channels /\ SetFinal(p, "ok")) \/ UNCHANGED outcomeVars
BY DEF CheckForSelectRelayDone, AllRelayed, TypeOK

-------------------------------------------------------------------------------
(* Type correctness *)

\* Every step keeps the types: the 200 ms timer stops counting at its limit, and every message is one.
LEMMA TypeStep == TypeOK /\ [Next]_vars => TypeOK'
PROOF
  <1> SUFFICES ASSUME TypeOK, [Next]_vars PROVE TypeOK'
    OBVIOUS
  <1> USE TicksAssumption DEF outcomeVars, relayVars, timeVars, iceVars, startVars
  <1>1. ASSUME NEW p \in Peers, ConfNew(p) PROVE TypeOK'
    BY <1>1 DEF ConfNew, TypeOK
  <1>2. ASSUME NEW p \in Peers, NEW k \in Channels, NEW created \in BOOLEAN,
               ConfNewFails(p, k, created)
        PROVE  TypeOK'
    BY <1>2 DEF ConfNewFails, Closed, TypeOK
  <1>3. ASSUME NEW p \in Peers, StartIce(p) PROVE TypeOK'
    BY <1>3 DEF StartIce, TypeOK
  <1>4. ASSUME NEW p \in Peers, StartIceFails(p) PROVE TypeOK'
    BY <1>4 DEF StartIceFails, TypeOK
  <1>5. ASSUME NEW p \in Peers, KickoffReg(p) PROVE TypeOK'
    <2>1. SendReg(p) \subseteq Message
      BY ForAllMessages DEF SendReg
    <2>2. CASE state[p] >= REGING
      BY <1>5, <2>2 DEF KickoffReg, TypeOK
    <2>3. CASE ~(state[p] >= REGING)
      <3>1. REGING \in Ops
        BY DEF Ops
      <3>2. /\ state' = [state EXCEPT ![p] = REGING]
            /\ ticks' = [ticks EXCEPT ![p] = 0]
            /\ net' = net \cup SendReg(p)
        BY <1>5, <2>3 DEF KickoffReg
      <3>3. state' \in [Peers -> Ops] /\ ticks' \in [Peers -> 0 .. MaxTicks]
        BY <3>1, <3>2 DEF TypeOK
      <3>4. net' \subseteq Message
        BY <2>1, <3>2 DEF TypeOK
      <3> QED BY <1>5, <3>3, <3>4 DEF KickoffReg, TypeOK
    <2> QED BY <2>2, <2>3
  <1>6. ASSUME NEW p \in Peers, StartNegoReturns(p) PROVE TypeOK'
    <2>1. CASE KickoffSelectRelay(p)
      BY <1>6, <2>1, KickEffect DEF StartNegoReturns, TypeOK
    <2>2. CASE UNCHANGED <<state, kicked, ticks, net>>
      BY <1>6, <2>2 DEF StartNegoReturns, TypeOK
    <2> QED BY <1>6, <2>1, <2>2 DEF StartNegoReturns
  <1>7. ASSUME NEW p \in Peers, DirectOk(p) PROVE TypeOK'
    <2>1. CASE SetFinal(p, "fail")
      BY <1>7, <2>1, SetFinalEffect DEF DirectOk, TypeOK, Results
    <2>2. CASE UNCHANGED outcomeVars
      BY <1>7, <2>2 DEF DirectOk, TypeOK
    <2> QED BY <1>7, <2>1, <2>2, CancelEffect DEF DirectOk
  <1>8. ASSUME NEW p \in Peers, DirectFailed(p) PROVE TypeOK'
    <2>1. CASE KickoffSelectRelay(p)
      BY <1>8, <2>1, KickEffect DEF DirectFailed, TypeOK
    <2>2. CASE UNCHANGED <<state, kicked, ticks, net>>
      BY <1>8, <2>2 DEF DirectFailed, TypeOK
    <2> QED BY <1>8, <2>1, <2>2 DEF DirectFailed
  <1>9. ASSUME NEW p \in Peers, IceTxPkt(p) PROVE TypeOK'
    <2>1. \A q \in Peers : ForAll("ICE_WRAP", q) \subseteq Message
      BY ForAllMessages
    <2> QED BY <1>9, <2>1 DEF IceTxPkt, TypeOK
  <1>10. ASSUME NEW p \in Peers, IceCompleteOk(p) PROVE TypeOK'
    <2>1. NEGO_DONE \in Ops /\ kicked[p] \in BOOLEAN
      BY DEF Ops, TypeOK
    <2> QED BY <1>10, <2>1, SelectEffect DEF IceCompleteOk, TypeOK
  <1>11. ASSUME NEW p \in Peers, IceCompleteFails(p) PROVE TypeOK'
    BY <1>11, SetFinalEffect DEF IceCompleteFails, TypeOK, Results
  <1>12. ASSUME NEW p \in Peers, TimerResends(p) PROVE TypeOK'
    BY <1>12 DEF TimerResends, TypeOK
  <1>13. ASSUME NEW p \in Peers, TimerTimesOut(p) PROVE TypeOK'
    BY <1>13, SetFinalEffect DEF TimerTimesOut, TypeOK, Results
  <1>14. ASSUME NEW p \in Peers, TimerStops(p) PROVE TypeOK'
    BY <1>14 DEF TimerStops, TypeOK
  <1>15. ASSUME NEW p \in Peers, StealFds(p) PROVE TypeOK'
    BY <1>15 DEF StealFds, TypeOK
  <1>16. ASSUME NEW p \in Peers, ConfFree(p) PROVE TypeOK'
    BY <1>16 DEF ConfFree, Closed, TypeOK
  <1>17. ASSUME NEW p \in Peers, NEW c \in Channels, ServerAck(p, c) PROVE TypeOK'
    BY <1>17 DEF ServerAck, Message, TypeOK
  <1>18. ASSUME NEW p \in Peers, NEW c \in Channels, NEW starts \in BOOLEAN,
                RecvRegAck(p, c, starts)
         PROVE  TypeOK'
    <2>1. CASE SetFinal(p, "fail") /\ UNCHANGED wrapped
      BY <1>18, <2>1, SetFinalEffect DEF RecvRegAck, TypeOK, Results
    <2>2. CASE /\ wrapped' = [wrapped EXCEPT ![p] = TRUE]
               /\ state' = [state EXCEPT ![p] = NEGOING]
               /\ UNCHANGED <<finalResult, confDone, confStatus>>
      <3>1. NEGOING \in Ops
        BY DEF Ops
      <3> QED BY <1>18, <2>2, <3>1 DEF RecvRegAck, TypeOK
    <2>3. CASE UNCHANGED <<outcomeVars, wrapped>>
      BY <1>18, <2>3 DEF RecvRegAck, TypeOK
    <2> QED BY <1>18, <2>1, <2>2, <2>3 DEF RecvRegAck, StartNego
  <1>19. ASSUME NEW p \in Peers, NEW c \in Channels, RecvIceWrap(p, c) PROVE TypeOK'
    BY <1>19 DEF RecvIceWrap, TypeOK
  <1>20. ASSUME NEW c \in Channels, RecvSelectRelay(c) PROVE TypeOK'
    <2>1. "callee" \in Peers /\ relayDone["callee"] \cup {c} \in SUBSET Channels
      BY DEF TypeOK, Peers
    <2>2. selDone' \in [Peers -> BOOLEAN] /\ (SetFinal("callee", "ok") \/ UNCHANGED outcomeVars)
      BY <1>20, <2>1, SelectDoneEffect DEF RecvSelectRelay
    <2>3. SelectAck(c) \in Message
      BY DEF SelectAck, Message, Peers
    <2>4. CASE SetFinal("callee", "ok")
      BY <1>20, <2>1, <2>2, <2>3, <2>4, SetFinalEffect DEF RecvSelectRelay, TypeOK, Results, SelectAck
    <2>5. CASE UNCHANGED outcomeVars
      BY <1>20, <2>1, <2>2, <2>3, <2>5 DEF RecvSelectRelay, TypeOK, SelectAck
    <2> QED BY <2>2, <2>4, <2>5
  <1>21. ASSUME NEW c \in Channels, RecvSelectRelayAck(c) PROVE TypeOK'
    <2>1. "caller" \in Peers /\ relayDone["caller"] \cup {c} \in SUBSET Channels
      BY DEF TypeOK, Peers
    <2>2. selDone' \in [Peers -> BOOLEAN] /\ (SetFinal("caller", "ok") \/ UNCHANGED outcomeVars)
      BY <1>21, <2>1, SelectDoneEffect DEF RecvSelectRelayAck
    <2>3. CASE SetFinal("caller", "ok")
      BY <1>21, <2>1, <2>2, <2>3, SetFinalEffect DEF RecvSelectRelayAck, TypeOK, Results
    <2>4. CASE UNCHANGED outcomeVars
      BY <1>21, <2>1, <2>2, <2>4 DEF RecvSelectRelayAck, TypeOK
    <2> QED BY <2>2, <2>3, <2>4
  <1>22. CASE UNCHANGED vars
    BY <1>22 DEF vars, TypeOK
  <1> QED
    BY <1>1, <1>2, <1>3, <1>4, <1>5, <1>6, <1>7, <1>8, <1>9, <1>10, <1>11, <1>12, <1>13,
       <1>14, <1>15, <1>16, <1>17, <1>18, <1>19, <1>20, <1>21, <1>22
    DEF Next, Start, Direct, IceComplete, Timer, Receive
-------------------------------------------------------------------------------
(* The result is final *)

\* A final result is set, a success only with every channel done.
Finishes == \E p \in Peers, r \in {"ok", "fail"} :
              SetFinal(p, r) /\ (r = "ok" => relayDone'[p] = Channels)

\* No result is set or reported, and nobody enters or leaves the final state.
GoesOn == /\ UNCHANGED <<finalResult, confDone, confStatus>>
          /\ \A q \in Peers : state'[q] = FINAL <=> state[q] = FINAL

\* Every step either sets a final result or goes on.
LEMMA OutcomeCases == TypeOK /\ [Next]_vars => Finishes \/ GoesOn
PROOF
  <1> SUFFICES ASSUME TypeOK, [Next]_vars PROVE Finishes \/ GoesOn
    OBVIOUS
  <1> USE DEF outcomeVars, relayVars, timeVars, iceVars, startVars
  <1>1. ASSUME NEW p \in Peers, ConfNew(p) PROVE Finishes \/ GoesOn
    BY <1>1 DEF ConfNew, GoesOn
  <1>2. ASSUME NEW p \in Peers, NEW k \in Channels, NEW created \in BOOLEAN,
               ConfNewFails(p, k, created)
        PROVE  Finishes \/ GoesOn
    BY <1>2 DEF ConfNewFails, GoesOn
  <1>3. ASSUME NEW p \in Peers, StartIce(p) PROVE Finishes \/ GoesOn
    BY <1>3 DEF StartIce, GoesOn
  <1>4. ASSUME NEW p \in Peers, StartIceFails(p) PROVE Finishes \/ GoesOn
    BY <1>4 DEF StartIceFails, GoesOn
  <1>5. ASSUME NEW p \in Peers, IceTxPkt(p) PROVE Finishes \/ GoesOn
    BY <1>5 DEF IceTxPkt, GoesOn
  <1>6. ASSUME NEW p \in Peers, TimerResends(p) PROVE Finishes \/ GoesOn
    BY <1>6 DEF TimerResends, GoesOn
  <1>7. ASSUME NEW p \in Peers, TimerStops(p) PROVE Finishes \/ GoesOn
    BY <1>7 DEF TimerStops, GoesOn
  <1>8. ASSUME NEW p \in Peers, StealFds(p) PROVE Finishes \/ GoesOn
    BY <1>8 DEF StealFds, GoesOn
  <1>9. ASSUME NEW p \in Peers, ConfFree(p) PROVE Finishes \/ GoesOn
    BY <1>9 DEF ConfFree, GoesOn
  <1>10. ASSUME NEW p \in Peers, NEW c \in Channels, ServerAck(p, c) PROVE Finishes \/ GoesOn
    BY <1>10 DEF ServerAck, GoesOn
  <1>11. ASSUME NEW p \in Peers, NEW c \in Channels, RecvIceWrap(p, c) PROVE Finishes \/ GoesOn
    BY <1>11 DEF RecvIceWrap, GoesOn
  <1>12. ASSUME NEW p \in Peers, KickoffReg(p) PROVE Finishes \/ GoesOn
    <2>1. CASE state[p] >= REGING
      BY <1>12, <2>1 DEF KickoffReg, GoesOn
    <2>2. CASE ~(state[p] >= REGING)
      <3>1. state' = [state EXCEPT ![p] = REGING] /\ state[p] # FINAL
        BY <1>12, <2>2 DEF KickoffReg, REGING, FINAL
      <3>2. \A q \in Peers : state'[q] = FINAL <=> state[q] = FINAL
        BY <3>1 DEF TypeOK, REGING, FINAL
      <3> QED BY <1>12, <3>2 DEF KickoffReg, GoesOn
    <2> QED BY <2>1, <2>2
  <1>13. ASSUME NEW p \in Peers, StartNegoReturns(p) PROVE Finishes \/ GoesOn
    <2>1. CASE KickoffSelectRelay(p)
      BY <1>13, <2>1, KickEffect DEF StartNegoReturns, GoesOn
    <2>2. CASE UNCHANGED <<state, kicked, ticks, net>>
      BY <1>13, <2>2 DEF StartNegoReturns, GoesOn
    <2> QED BY <1>13, <2>1, <2>2 DEF StartNegoReturns
  <1>14. ASSUME NEW p \in Peers, DirectFailed(p) PROVE Finishes \/ GoesOn
    <2>1. CASE KickoffSelectRelay(p)
      BY <1>14, <2>1, KickEffect DEF DirectFailed, GoesOn
    <2>2. CASE UNCHANGED <<state, kicked, ticks, net>>
      BY <1>14, <2>2 DEF DirectFailed, GoesOn
    <2> QED BY <1>14, <2>1, <2>2 DEF DirectFailed
  <1>15. ASSUME NEW p \in Peers, DirectOk(p) PROVE Finishes \/ GoesOn
    BY <1>15, CancelEffect DEF DirectOk, Finishes, GoesOn
  <1>16. ASSUME NEW p \in Peers, IceCompleteOk(p) PROVE Finishes \/ GoesOn
    <2>1. NEGO_DONE \in Ops /\ kicked[p] \in BOOLEAN /\ NEGO_DONE # FINAL /\ state[p] # FINAL
      BY <1>16 DEF IceCompleteOk, Ops, TypeOK, NEGOING, NEGO_DONE, FINAL
    <2>2. \A q \in Peers : state'[q] = FINAL <=> state[q] = FINAL
      BY <1>16, <2>1, SelectEffect DEF IceCompleteOk
    <2> QED BY <1>16, <2>2 DEF IceCompleteOk, GoesOn
  <1>17. ASSUME NEW p \in Peers, IceCompleteFails(p) PROVE Finishes \/ GoesOn
    BY <1>17 DEF IceCompleteFails, Finishes
  <1>18. ASSUME NEW p \in Peers, TimerTimesOut(p) PROVE Finishes \/ GoesOn
    BY <1>18 DEF TimerTimesOut, Finishes
  <1>19. ASSUME NEW p \in Peers, NEW c \in Channels, NEW starts \in BOOLEAN,
               RecvRegAck(p, c, starts)
        PROVE  Finishes \/ GoesOn
    <2>1. CASE SetFinal(p, "fail")
      BY <2>1 DEF Finishes
    <2>2. CASE UNCHANGED outcomeVars
      BY <2>2 DEF GoesOn
    <2>3. CASE /\ state' = [state EXCEPT ![p] = NEGOING]
               /\ UNCHANGED <<finalResult, confDone, confStatus>>
      <3>1. state[p] = REGING
        BY <1>19 DEF RecvRegAck
      <3> QED BY <2>3, <3>1 DEF GoesOn, TypeOK, REGING, NEGOING, FINAL
    <2> QED BY <1>19, <2>1, <2>2, <2>3 DEF RecvRegAck, StartNego
  <1>20. ASSUME NEW c \in Channels, RecvSelectRelay(c) PROVE Finishes \/ GoesOn
    <2>1. "callee" \in Peers /\ relayDone["callee"] \cup {c} \in SUBSET Channels
      BY DEF TypeOK, Peers
    <2>2. relayDone'["callee"] = relayDone["callee"] \cup {c}
      BY <1>20, <2>1 DEF RecvSelectRelay, TypeOK
    <2>3. \/ relayDone["callee"] \cup {c} = Channels /\ SetFinal("callee", "ok")
          \/ UNCHANGED outcomeVars
      BY <1>20, <2>1, SelectDoneEffect DEF RecvSelectRelay
    <2> QED BY <2>1, <2>2, <2>3 DEF Finishes, GoesOn
  <1>21. ASSUME NEW c \in Channels, RecvSelectRelayAck(c) PROVE Finishes \/ GoesOn
    <2>1. "caller" \in Peers /\ relayDone["caller"] \cup {c} \in SUBSET Channels
      BY DEF TypeOK, Peers
    <2>2. relayDone'["caller"] = relayDone["caller"] \cup {c}
      BY <1>21, <2>1 DEF RecvSelectRelayAck, TypeOK
    <2>3. \/ relayDone["caller"] \cup {c} = Channels /\ SetFinal("caller", "ok")
          \/ UNCHANGED outcomeVars
      BY <1>21, <2>1, SelectDoneEffect DEF RecvSelectRelayAck
    <2> QED BY <2>1, <2>2, <2>3 DEF Finishes, GoesOn
  <1>22. CASE UNCHANGED vars
    BY <1>22 DEF vars, GoesOn
  <1> QED
    BY <1>1, <1>2, <1>3, <1>4, <1>5, <1>6, <1>7, <1>8, <1>9, <1>10, <1>11, <1>12, <1>13,
       <1>14, <1>15, <1>16, <1>17, <1>18, <1>19, <1>20, <1>21, <1>22
    DEF Next, Start, Direct, IceComplete, Timer, Receive

\* A step keeps the report in agreement with the relay, and a final result as it is.
LEMMA ReportStep ==
  ASSUME TypeOK, ReportedIsFinal, [Next]_vars
  PROVE  /\ ReportedIsFinal'
         /\ \A q \in Peers : state[q] = FINAL =>
              state'[q] = FINAL /\ finalResult'[q] = finalResult[q] /\ confStatus'[q] = confStatus[q]
PROOF
  <1>1. CASE Finishes
    BY <1>1, SetFinalEffect DEF Finishes
  <1>2. CASE GoesOn
    BY <1>2 DEF GoesOn, ReportedIsFinal
  <1> QED BY <1>1, <1>2, OutcomeCases

-------------------------------------------------------------------------------
(* The selection of the relay *)

(***************************************************************************)
(* What a step may do to the selection.  Channels are only ever added, by  *)
(* the message that allows it; an acknowledgement is sent by the callee    *)
(* that adds the channel; a selection is sent by a caller that is kicked,  *)
(* and a caller is kicked when its direct session fails or is not to be    *)
(* waited for.                                                             *)
(***************************************************************************)
SelectionMoves ==
  /\ forced' = forced
  /\ net \subseteq net'
  /\ \A p \in Peers : relayDone[p] \subseteq relayDone'[p]
  /\ \A c \in relayDone'["caller"] \ relayDone["caller"] : SelectAck(c) \in net
  /\ \A c \in relayDone'["callee"] \ relayDone["callee"] : Select(c) \in net
  /\ \A c \in Channels : SelectAck(c) \in net' \ net => c \in relayDone'["callee"]
  /\ \A c \in Channels : Select(c) \in net' \ net => kicked'["caller"]
  /\ kicked["caller"] => kicked'["caller"]
  /\ kicked'["caller"] /\ ~kicked["caller"] =>
       direct'["caller"] = "failed" \/ \E p \in Peers : forced[p]

\* A set of messages of another type holds neither selections nor acknowledgements.
LEMMA OtherType ==
  ASSUME NEW type, type \notin {"SELECT_RELAY", "SELECT_RELAY_ACK"}, NEW p, NEW c
  PROVE  Select(c) \notin ForAll(type, p) /\ SelectAck(c) \notin ForAll(type, p)
BY DEF Select, SelectAck, ForAll

\* A kick for a good reason moves the selection as it should.
LEMMA KickMoves ==
  ASSUME TypeOK, NEW p \in Peers, KickoffSelectRelay(p), UNCHANGED <<relayDone, forced>>,
         p = "caller" => direct'["caller"] = "failed" \/ \E q \in Peers : forced[q]
  PROVE  SelectionMoves
PROOF
  <1>1. \A c \in Channels : SelectAck(c) \notin ForAll("SELECT_RELAY", "callee")
    BY DEF SelectAck, ForAll
  <1>2. \/ net' = net
        \/ kicked'["caller"] /\ net' = net \cup ForAll("SELECT_RELAY", "callee")
    BY KickEffect
  <1>3. /\ kicked["caller"] => kicked'["caller"]
        /\ p # "caller" => kicked'["caller"] = kicked["caller"]
    BY KickEffect DEF Peers
  <1> QED BY <1>1, <1>2, <1>3 DEF SelectionMoves

\* Every step moves the selection so.
LEMMA SelectionCases == TypeOK /\ [Next]_vars => SelectionMoves
PROOF
  <1> SUFFICES ASSUME TypeOK, [Next]_vars PROVE SelectionMoves
    OBVIOUS
  <1> USE DEF outcomeVars, relayVars, timeVars, iceVars, startVars
  <1>1. ASSUME NEW p \in Peers, ConfNew(p) PROVE SelectionMoves
    BY <1>1 DEF ConfNew, SelectionMoves
  <1>2. ASSUME NEW p \in Peers, NEW k \in Channels, NEW created \in BOOLEAN,
               ConfNewFails(p, k, created)
        PROVE  SelectionMoves
    BY <1>2 DEF ConfNewFails, SelectionMoves
  <1>3. ASSUME NEW p \in Peers, StartIce(p) PROVE SelectionMoves
    BY <1>3 DEF StartIce, SelectionMoves
  <1>4. ASSUME NEW p \in Peers, StartIceFails(p) PROVE SelectionMoves
    BY <1>4 DEF StartIceFails, SelectionMoves
  <1>5. ASSUME NEW p \in Peers, DirectOk(p) PROVE SelectionMoves
    BY <1>5 DEF DirectOk, SelectionMoves
  <1>6. ASSUME NEW p \in Peers, IceCompleteFails(p) PROVE SelectionMoves
    BY <1>6 DEF IceCompleteFails, SelectionMoves
  <1>7. ASSUME NEW p \in Peers, TimerResends(p) PROVE SelectionMoves
    BY <1>7 DEF TimerResends, SelectionMoves
  <1>8. ASSUME NEW p \in Peers, TimerTimesOut(p) PROVE SelectionMoves
    BY <1>8 DEF TimerTimesOut, SelectionMoves
  <1>9. ASSUME NEW p \in Peers, TimerStops(p) PROVE SelectionMoves
    BY <1>9 DEF TimerStops, SelectionMoves
  <1>10. ASSUME NEW p \in Peers, StealFds(p) PROVE SelectionMoves
    BY <1>10 DEF StealFds, SelectionMoves
  <1>11. ASSUME NEW p \in Peers, ConfFree(p) PROVE SelectionMoves
    BY <1>11 DEF ConfFree, SelectionMoves
  <1>12. ASSUME NEW p \in Peers, NEW c \in Channels, NEW starts \in BOOLEAN,
               RecvRegAck(p, c, starts)
        PROVE  SelectionMoves
    BY <1>12 DEF RecvRegAck, SelectionMoves
  <1>13. ASSUME NEW p \in Peers, NEW c \in Channels, RecvIceWrap(p, c) PROVE SelectionMoves
    BY <1>13 DEF RecvIceWrap, SelectionMoves
  <1>14. ASSUME NEW p \in Peers, KickoffReg(p) PROVE SelectionMoves
    <2>1. \A c \in Channels : Select(c) \notin SendReg(p) /\ SelectAck(c) \notin SendReg(p)
      BY OtherType DEF SendReg
    <2>2. net' = net \/ net' = net \cup SendReg(p)
      BY <1>14 DEF KickoffReg
    <2> QED BY <1>14, <2>1, <2>2 DEF KickoffReg, SelectionMoves
  <1>15. ASSUME NEW p \in Peers, StartNegoReturns(p) PROVE SelectionMoves
    <2>1. CASE KickoffSelectRelay(p) /\ \E q \in Peers : forced[q]
      BY <1>15, <2>1, KickMoves DEF StartNegoReturns
    <2>2. CASE UNCHANGED <<state, kicked, ticks, net>>
      BY <1>15, <2>2 DEF StartNegoReturns, SelectionMoves
    <2> QED BY <1>15, <2>1, <2>2 DEF StartNegoReturns
  <1>16. ASSUME NEW p \in Peers, DirectFailed(p) PROVE SelectionMoves
    <2>1. CASE p = "caller" /\ KickoffSelectRelay(p)
      <3>1. direct'["caller"] = "failed"
        BY <1>16, <2>1 DEF DirectFailed, TypeOK
      <3> QED BY <1>16, <2>1, <3>1, KickMoves DEF DirectFailed
    <2>2. CASE UNCHANGED <<state, kicked, ticks, net>>
      BY <1>16, <2>2 DEF DirectFailed, SelectionMoves
    <2> QED BY <1>16, <2>1, <2>2 DEF DirectFailed
  <1>17. ASSUME NEW p \in Peers, IceTxPkt(p) PROVE SelectionMoves
    <2>1. PICK q \in Peers : net' = net \cup ForAll("ICE_WRAP", q)
      BY <1>17 DEF IceTxPkt
    <2>2. \A c \in Channels : /\ Select(c) \notin ForAll("ICE_WRAP", q)
                             /\ SelectAck(c) \notin ForAll("ICE_WRAP", q)
      BY OtherType
    <2> QED BY <1>17, <2>1, <2>2 DEF IceTxPkt, SelectionMoves
  <1>18. ASSUME NEW p \in Peers, IceCompleteOk(p) PROVE SelectionMoves
    <2>1. NEGO_DONE \in Ops /\ kicked[p] \in BOOLEAN
      BY DEF Ops, TypeOK
    <2>2. \/ net' = net
          \/ kicked["caller"] /\ net' = net \cup ForAll("SELECT_RELAY", "callee")
      BY <1>18, <2>1, SelectEffect DEF IceCompleteOk
    <2>3. \A c \in Channels : SelectAck(c) \notin ForAll("SELECT_RELAY", "callee")
      BY DEF SelectAck, ForAll
    <2> QED BY <1>18, <2>2, <2>3 DEF IceCompleteOk, SelectionMoves
  <1>19. ASSUME NEW p \in Peers, NEW c \in Channels, ServerAck(p, c) PROVE SelectionMoves
    BY <1>19 DEF ServerAck, SelectionMoves, Select, SelectAck
  <1>20. ASSUME NEW c \in Channels, RecvSelectRelay(c) PROVE SelectionMoves
    <2>1. /\ relayDone'["callee"] = relayDone["callee"] \cup {c}
          /\ relayDone'["caller"] = relayDone["caller"]
      BY <1>20 DEF RecvSelectRelay, TypeOK, Peers
    <2>2. Select(c) \in net /\ net' = net \cup {SelectAck(c)}
      BY <1>20 DEF RecvSelectRelay, Received, Select, SelectAck
    <2>3. \A d \in Channels : Select(d) # SelectAck(c) /\ (SelectAck(d) = SelectAck(c) => d = c)
      BY DEF Select, SelectAck
    <2>4. \A p \in Peers : relayDone[p] \subseteq relayDone'[p]
      BY <2>1 DEF Peers
    <2> QED BY <1>20, <2>1, <2>2, <2>3, <2>4 DEF RecvSelectRelay, SelectionMoves
  <1>21. ASSUME NEW c \in Channels, RecvSelectRelayAck(c) PROVE SelectionMoves
    <2>1. /\ relayDone'["caller"] = relayDone["caller"] \cup {c}
          /\ relayDone'["callee"] = relayDone["callee"]
      BY <1>21 DEF RecvSelectRelayAck, TypeOK, Peers
    <2>2. SelectAck(c) \in net
      BY <1>21 DEF RecvSelectRelayAck, Received, SelectAck
    <2>3. \A p \in Peers : relayDone[p] \subseteq relayDone'[p]
      BY <2>1 DEF Peers
    <2> QED BY <1>21, <2>1, <2>2, <2>3 DEF RecvSelectRelayAck, SelectionMoves
  <1>22. CASE UNCHANGED vars
    BY <1>22 DEF vars, SelectionMoves
  <1> QED
    BY <1>1, <1>2, <1>3, <1>4, <1>5, <1>6, <1>7, <1>8, <1>9, <1>10, <1>11, <1>12, <1>13,
       <1>14, <1>15, <1>16, <1>17, <1>18, <1>19, <1>20, <1>21, <1>22
    DEF Next, Start, Direct, IceComplete, Timer, Receive

\* The direct session is started once: before that it has no outcome.
DirectFresh == \A p \in Peers : phase[p] \in {"none", "made"} => direct[p] = "none"

\* The direct session of the caller, once failed, stays so.
LEMMA DirectStep ==
  ASSUME TypeOK, DirectFresh, [Next]_vars
  PROVE  DirectFresh' /\ (direct["caller"] = "failed" => direct'["caller"] = "failed")
PROOF
  <1> DEFINE Goal == DirectFresh' /\ (direct["caller"] = "failed" => direct'["caller"] = "failed")
  <1> SUFFICES Goal
    OBVIOUS
  <1> USE DEF outcomeVars, relayVars, timeVars, iceVars, startVars, DirectFresh, TypeOK
  <1>1. ASSUME NEW p \in Peers, ConfNew(p) PROVE Goal
    BY <1>1 DEF ConfNew, Live
  <1>2. ASSUME NEW p \in Peers, NEW k \in Channels, NEW created \in BOOLEAN,
               ConfNewFails(p, k, created)
        PROVE  Goal
    BY <1>2 DEF ConfNewFails, Live
  <1>3. ASSUME NEW p \in Peers, StartIce(p) PROVE Goal
    BY <1>3 DEF StartIce, Live
  <1>4. ASSUME NEW p \in Peers, StartIceFails(p) PROVE Goal
    BY <1>4 DEF StartIceFails, Live
  <1>5. ASSUME NEW p \in Peers, KickoffReg(p) PROVE Goal
    BY <1>5 DEF KickoffReg, Live
  <1>6. ASSUME NEW p \in Peers, StartNegoReturns(p) PROVE Goal
    BY <1>6 DEF StartNegoReturns, Live
  <1>7. ASSUME NEW p \in Peers, DirectOk(p) PROVE Goal
    BY <1>7 DEF DirectOk, Live
  <1>8. ASSUME NEW p \in Peers, DirectFailed(p) PROVE Goal
    BY <1>8 DEF DirectFailed, Live
  <1>9. ASSUME NEW p \in Peers, IceTxPkt(p) PROVE Goal
    BY <1>9 DEF IceTxPkt, Live
  <1>10. ASSUME NEW p \in Peers, IceCompleteOk(p) PROVE Goal
    BY <1>10 DEF IceCompleteOk, Live
  <1>11. ASSUME NEW p \in Peers, IceCompleteFails(p) PROVE Goal
    BY <1>11 DEF IceCompleteFails, Live
  <1>12. ASSUME NEW p \in Peers, TimerResends(p) PROVE Goal
    BY <1>12 DEF TimerResends, Live
  <1>13. ASSUME NEW p \in Peers, TimerTimesOut(p) PROVE Goal
    BY <1>13 DEF TimerTimesOut, Live
  <1>14. ASSUME NEW p \in Peers, TimerStops(p) PROVE Goal
    BY <1>14 DEF TimerStops, Live
  <1>15. ASSUME NEW p \in Peers, StealFds(p) PROVE Goal
    BY <1>15 DEF StealFds, Live
  <1>16. ASSUME NEW p \in Peers, ConfFree(p) PROVE Goal
    BY <1>16 DEF ConfFree, Live
  <1>17. ASSUME NEW p \in Peers, NEW c \in Channels, ServerAck(p, c) PROVE Goal
    BY <1>17 DEF ServerAck, Live
  <1>18. ASSUME NEW p \in Peers, NEW c \in Channels, NEW starts \in BOOLEAN,
               RecvRegAck(p, c, starts)
        PROVE  Goal
    BY <1>18 DEF RecvRegAck, Live
  <1>19. ASSUME NEW p \in Peers, NEW c \in Channels, RecvIceWrap(p, c) PROVE Goal
    BY <1>19 DEF RecvIceWrap, Live
  <1>20. ASSUME NEW c \in Channels, RecvSelectRelay(c) PROVE Goal
    BY <1>20 DEF RecvSelectRelay, Live
  <1>21. ASSUME NEW c \in Channels, RecvSelectRelayAck(c) PROVE Goal
    BY <1>21 DEF RecvSelectRelayAck, Live
  <1>22. CASE UNCHANGED vars
    BY <1>22 DEF vars
  <1> QED
    BY <1>1, <1>2, <1>3, <1>4, <1>5, <1>6, <1>7, <1>8, <1>9, <1>10, <1>11, <1>12, <1>13,
       <1>14, <1>15, <1>16, <1>17, <1>18, <1>19, <1>20, <1>21, <1>22
    DEF Next, Start, Direct, IceComplete, Timer, Receive

\* Closing leaves no socket of the relay open.
LEMMA ClosedEffect ==
  ASSUME NEW s \in [Channels -> {"none", "bound", "active", "stolen", "closed"}]
  PROVE  Closed(s) \in [Channels -> {"none", "stolen", "closed"}]
BY DEF Closed

\* Sockets are closed in the step in which the object goes, and none is opened later.
LEMMA SocketStep ==
  ASSUME TypeOK, NoSocketLeft, [Next]_vars
  PROVE  NoSocketLeft'
PROOF
  <1> USE DEF outcomeVars, relayVars, timeVars, iceVars, startVars
  <1>1. ASSUME NEW p \in Peers, ConfNew(p) PROVE NoSocketLeft'
    BY <1>1 DEF ConfNew, NoSocketLeft, TypeOK
  <1>2. ASSUME NEW p \in Peers, StartIce(p) PROVE NoSocketLeft'
    BY <1>2 DEF StartIce, NoSocketLeft, TypeOK
  <1>3. ASSUME NEW p \in Peers, StartIceFails(p) PROVE NoSocketLeft'
    BY <1>3 DEF StartIceFails, NoSocketLeft, TypeOK
  <1>4. ASSUME NEW p \in Peers, KickoffReg(p) PROVE NoSocketLeft'
    BY <1>4 DEF KickoffReg, NoSocketLeft, TypeOK
  <1>5. ASSUME NEW p \in Peers, StartNegoReturns(p) PROVE NoSocketLeft'
    BY <1>5 DEF StartNegoReturns, NoSocketLeft, TypeOK
  <1>6. ASSUME NEW p \in Peers, StealFds(p) PROVE NoSocketLeft'
    BY <1>6 DEF StealFds, NoSocketLeft, TypeOK
  <1>7. ASSUME NEW p \in Peers, NEW k \in Channels, NEW created \in BOOLEAN,
               ConfNewFails(p, k, created)
        PROVE  NoSocketLeft'
    <2> DEFINE s == [d \in Channels |->
                      CASE d < k -> "active" [] d = k /\ created -> "bound" [] OTHER -> "none"]
    <2>1. ASSUME NEW d \in Channels PROVE s[d] \in {"none", "bound", "active", "stolen", "closed"}
      BY <2>1, Zenon
    <2>2. s \in [Channels -> {"none", "bound", "active", "stolen", "closed"}]
      BY <2>1, Zenon
    <2>3. socks' = [socks EXCEPT ![p] = Closed(s)] /\ phase' = [phase EXCEPT ![p] = "freed"]
      BY <1>7, Zenon DEF ConfNewFails
    <2> HIDE DEF s
    <2>4. Closed(s) \in [Channels -> {"none", "stolen", "closed"}]
      BY <2>2, ClosedEffect
    <2> QED BY <2>3, <2>4 DEF NoSocketLeft, TypeOK
  <1>8. ASSUME NEW p \in Peers, ConfFree(p) PROVE NoSocketLeft'
    <2>1. socks[p] \in [Channels -> {"none", "bound", "active", "stolen", "closed"}]
      BY DEF TypeOK
    <2>2. Closed(socks[p]) \in [Channels -> {"none", "stolen", "closed"}]
      BY <2>1, ClosedEffect
    <2> QED BY <1>8, <2>2 DEF ConfFree, NoSocketLeft, TypeOK
  <1>9. ASSUME NEW p \in Peers, DirectOk(p) PROVE NoSocketLeft'
    BY <1>9 DEF DirectOk, NoSocketLeft
  <1>10. ASSUME NEW p \in Peers, DirectFailed(p) PROVE NoSocketLeft'
    BY <1>10 DEF DirectFailed, NoSocketLeft
  <1>11. ASSUME NEW p \in Peers, IceTxPkt(p) PROVE NoSocketLeft'
    BY <1>11 DEF IceTxPkt, NoSocketLeft
  <1>12. ASSUME NEW p \in Peers, IceCompleteOk(p) PROVE NoSocketLeft'
    BY <1>12 DEF IceCompleteOk, NoSocketLeft
  <1>13. ASSUME NEW p \in Peers, IceCompleteFails(p) PROVE NoSocketLeft'
    BY <1>13 DEF IceCompleteFails, NoSocketLeft
  <1>14. ASSUME NEW p \in Peers, TimerResends(p) PROVE NoSocketLeft'
    BY <1>14 DEF TimerResends, NoSocketLeft
  <1>15. ASSUME NEW p \in Peers, TimerTimesOut(p) PROVE NoSocketLeft'
    BY <1>15 DEF TimerTimesOut, NoSocketLeft
  <1>16. ASSUME NEW p \in Peers, TimerStops(p) PROVE NoSocketLeft'
    BY <1>16 DEF TimerStops, NoSocketLeft
  <1>17. ASSUME NEW p \in Peers, NEW c \in Channels, ServerAck(p, c) PROVE NoSocketLeft'
    BY <1>17 DEF ServerAck, NoSocketLeft
  <1>18. ASSUME NEW p \in Peers, NEW c \in Channels, NEW starts \in BOOLEAN,
               RecvRegAck(p, c, starts)
        PROVE  NoSocketLeft'
    BY <1>18 DEF RecvRegAck, NoSocketLeft
  <1>19. ASSUME NEW p \in Peers, NEW c \in Channels, RecvIceWrap(p, c) PROVE NoSocketLeft'
    BY <1>19 DEF RecvIceWrap, NoSocketLeft
  <1>20. ASSUME NEW c \in Channels, RecvSelectRelay(c) PROVE NoSocketLeft'
    BY <1>20 DEF RecvSelectRelay, NoSocketLeft
  <1>21. ASSUME NEW c \in Channels, RecvSelectRelayAck(c) PROVE NoSocketLeft'
    BY <1>21 DEF RecvSelectRelayAck, NoSocketLeft
  <1>22. CASE UNCHANGED vars
    BY <1>22 DEF vars, NoSocketLeft
  <1> QED
    BY <1>1, <1>2, <1>3, <1>4, <1>5, <1>6, <1>7, <1>8, <1>9, <1>10, <1>11, <1>12, <1>13,
       <1>14, <1>15, <1>16, <1>17, <1>18, <1>19, <1>20, <1>21, <1>22
    DEF Next, Start, Direct, IceComplete, Timer, Receive

(***************************************************************************)
(* The inductive invariant.  Took: whoever has done a channel got there *)
(* by a message, and behind the message is the other side.  Asked: behind  *)
(* a selection is a kicked caller, and behind the kick its reason.         *)
(***************************************************************************)
Took ==
  /\ \A c \in Channels : SelectAck(c) \in net => c \in relayDone["callee"]
  /\ relayDone["caller"] \subseteq relayDone["callee"]
  /\ \A p \in Peers : finalResult[p] = "ok" => relayDone[p] = Channels

Asked ==
  /\ \A c \in relayDone["callee"] : Select(c) \in net
  /\ \A c \in Channels : Select(c) \in net => kicked["caller"]
  /\ kicked["caller"] => direct["caller"] = "failed" \/ \E p \in Peers : forced[p]

IInv == TypeOK /\ ReportedIsFinal /\ DirectFresh /\ NoSocketLeft /\ Took /\ Asked

\* The invariant holds of two fresh peers.
LEMMA InitIInv == Init => IInv
PROOF
  <1> SUFFICES ASSUME Init PROVE IInv
    OBVIOUS
  <1>1. TypeOK
    BY TicksAssumption DEF Init, TypeOK, Ops
  <1>2. ReportedIsFinal /\ DirectFresh
    BY DEF Init, ReportedIsFinal, DirectFresh, NONE, FINAL
  <1>3. Took /\ Asked /\ NoSocketLeft
    BY DEF Init, Took, Asked, NoSocketLeft, Peers
  <1> QED BY <1>1, <1>2, <1>3 DEF IInv

\* Every step keeps the invariant.
LEMMA StepIInv == IInv /\ [Next]_vars => IInv'
PROOF
  <1> SUFFICES ASSUME IInv, [Next]_vars PROVE IInv'
    OBVIOUS
  <1>1. TypeOK /\ TypeOK'
    BY TypeStep DEF IInv
  <1>2. ReportedIsFinal' /\ DirectFresh' /\ (direct["caller"] = "failed" => direct'["caller"] = "failed")
    BY ReportStep, DirectStep DEF IInv
  <1>3. SelectionMoves
    BY <1>1, SelectionCases
  <1>4. relayDone' \in [Peers -> SUBSET Channels] /\ relayDone \in [Peers -> SUBSET Channels]
    BY <1>1 DEF TypeOK
  <1>5. Took'
    <2>1. \A c \in Channels : SelectAck(c) \in net' => c \in relayDone'["callee"]
      BY <1>3 DEF SelectionMoves, IInv, Took, Peers
    <2>2. relayDone'["caller"] \subseteq relayDone'["callee"]
      BY <1>3, <1>4 DEF SelectionMoves, IInv, Took, Peers
    <2>3. ASSUME NEW p \in Peers, finalResult'[p] = "ok" PROVE relayDone'[p] = Channels
      <3>1. CASE finalResult[p] = "ok"
        BY <3>1, <1>3, <1>4 DEF SelectionMoves, IInv, Took
      <3>2. CASE finalResult[p] # "ok"
        <4>1. Finishes
          BY <1>1, <2>3, <3>2, OutcomeCases DEF GoesOn
        <4>2. PICK q \in Peers, r \in {"ok", "fail"} :
                SetFinal(q, r) /\ (r = "ok" => relayDone'[q] = Channels)
          BY <4>1 DEF Finishes
        <4>3. p = q /\ r = "ok"
          BY <1>1, <2>3, <3>2, <4>2, SetFinalEffect
        <4> QED BY <4>2, <4>3
      <3> QED BY <3>1, <3>2
    <2> QED BY <2>1, <2>2, <2>3 DEF Took
  <1>6. Asked'
    <2>1. \A c \in relayDone'["callee"] : Select(c) \in net'
      BY <1>3 DEF SelectionMoves, IInv, Asked
    <2>2. \A c \in Channels : Select(c) \in net' => kicked'["caller"]
      BY <1>3 DEF SelectionMoves, IInv, Asked
    <2>3. kicked'["caller"] => direct'["caller"] = "failed" \/ \E p \in Peers : forced'[p]
      BY <1>2, <1>3 DEF SelectionMoves, IInv, Asked
    <2> QED BY <2>1, <2>2, <2>3 DEF Asked
  <1>7. NoSocketLeft'
    BY SocketStep DEF IInv
  <1> QED BY <1>1, <1>2, <1>5, <1>6, <1>7 DEF IInv

\* The invariant holds throughout.
LEMMA IInvAlways == Spec => []IInv
BY InitIInv, StepIInv, PTL DEF Spec

-------------------------------------------------------------------------------
(* The theorems *)

\* The state of the relay clients and the messages have their types; no retransmission goes on past
\* timeout_ms.
THEOREM TypeCorrect == Spec => []TypeOK
PROOF
  <1>1. IInv => TypeOK
    BY DEF IInv
  <1> QED BY <1>1, IInvAlways, PTL

\* What on_confice_complete has told the eice object is the final state of the relay and its result.
THEOREM ReportedIsFinalAlways == Spec => []ReportedIsFinal
PROOF
  <1>1. IInv => ReportedIsFinal
    BY DEF IInv
  <1> QED BY <1>1, IInvAlways, PTL

\* _set_final keeps the first result: no packet, timer, completion or cancellation revises it.
THEOREM FinalStaysAlways == Spec => FinalStays
PROOF
  <1>1. IInv /\ [Next]_vars =>
          [\A p \in Peers : state[p] = FINAL =>
             state'[p] = FINAL /\ finalResult'[p] = finalResult[p] /\ confStatus'[p] = confStatus[p]]_vars
    BY ReportStep DEF IInv
  <1> QED BY <1>1, IInvAlways, PTL DEF Spec, FinalStays

\* A caller that uses the relay does so with a callee that took the selection of every channel.
THEOREM CallerOkAgreed == Spec => []CallerOkCalleeTook
PROOF
  <1>1. IInv => CallerOkCalleeTook
    BY DEF IInv, Took, TypeOK, CallerOkCalleeTook, Peers
  <1> QED BY <1>1, IInvAlways, PTL

\* A callee uses the relay only if the caller had to: its direct session failed or was not to be had.
THEOREM CalleeOkJustified == Spec => []CalleeOkCallerFailed
PROOF
  <1>1. ASSUME IInv PROVE CalleeOkCallerFailed
    <2>1. 1 \in Channels
      BY ChannelAssumption DEF Channels
    <2> QED BY <1>1, <2>1 DEF IInv, Took, Asked, CalleeOkCallerFailed, Peers
  <1> QED BY <1>1, IInvAlways, PTL

\* A relay object that is gone, also one whose construction failed, has closed what it did not give away.
THEOREM NoSocketLeftAlways == Spec => []NoSocketLeft
PROOF
  <1>1. IInv => NoSocketLeft
    BY DEF IInv
  <1> QED BY <1>1, IInvAlways, PTL
===============================================================================
