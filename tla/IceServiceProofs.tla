--------------------------- MODULE IceServiceProofs ---------------------------
(***************************************************************************)
(* Proofs about IceService for any sets of ids, connections and addresses, *)
(* any reaping time and any length of the functor queue.                   *)
(***************************************************************************)
EXTENDS IceService, SequenceTheorems, TLAPS

USE DEF ICE_OP_NON, ICE_OP_PREPARE_SESSION, ICE_OP_LOCAL_INFO, ICE_OP_START_SESSION,
        ICE_OP_JOIN_SESSION, ICE_OP_ICE_RESULT, ICE_OP_RELAY_SESSION, ICE_OP_STOP_SESSION,
        ICE_OP_END

Call == [ep : Eps, fresh : BOOLEAN]

\* Marking the calls of a freed object keeps the queue's length and order, and
\* leaves no fresh call for the object.
LEMMA MarkStaleProperties ==
  ASSUME calls \in Seq(Call), NEW ep \in Eps
  PROVE  /\ MarkStale(ep) \in Seq(Call)
         /\ DOMAIN MarkStale(ep) = DOMAIN calls
         /\ Len(MarkStale(ep)) = Len(calls)
         /\ \A i \in DOMAIN calls : /\ MarkStale(ep)[i].ep = calls[i].ep
                                    /\ MarkStale(ep)[i].fresh => calls[i].fresh /\ calls[i].ep # ep
<1>1. /\ Len(calls) \in Nat
      /\ DOMAIN calls = 1 .. Len(calls)
      /\ \A i \in DOMAIN calls : calls[i] \in Call
  BY LenProperties, ElementOfSeq
<1>2. \A i \in DOMAIN calls : MarkStale(ep)[i] \in Call
  BY <1>1 DEF MarkStale, Call
<1>3. MarkStale(ep) \in [1 .. Len(calls) -> Call]
  BY <1>1, <1>2 DEF MarkStale
<1>4. MarkStale(ep) \in Seq(Call)
  BY <1>1, <1>3, SeqDef
<1>5. Len(MarkStale(ep)) = Len(calls)
  BY <1>1, <1>3, <1>4, LenProperties
<1>6. \A i \in DOMAIN calls : /\ MarkStale(ep)[i].ep = calls[i].ep
                              /\ MarkStale(ep)[i].fresh => calls[i].fresh /\ calls[i].ep # ep
  BY <1>1 DEF MarkStale, Call
<1>7. QED
  BY <1>1, <1>3, <1>4, <1>5, <1>6

\* eice_free keeps the types of everything it touches.
LEMMA EiceFreeType ==
  ASSUME TypeOK, NEW ep \in Eps \cup {NULL}, EiceFree(ep)
  PROVE  /\ nego' \in [Eps -> Negotiation]
         /\ conf' \in [Eps -> Relay]
         /\ calls' \in Seq([ep : Eps, fresh : BOOLEAN])
<1>1. CASE ep = NULL
  BY <1>1 DEF EiceFree, eiceVars, TypeOK
<1>2. CASE ep # NULL
  <2>1. ep \in Eps /\ calls' = MarkStale(ep)
    BY <1>2 DEF EiceFree
  <2>2. calls' \in Seq([ep : Eps, fresh : BOOLEAN])
    BY <2>1, MarkStaleProperties DEF TypeOK, Call
  <2>3. QED
    BY <1>2, <2>2 DEF EiceFree, TypeOK, Negotiation, Relay
<1>3. QED
  BY <1>1, <1>2

\* Erasing a session keeps the types of everything it touches.
LEMMA EraseType ==
  ASSUME TypeOK, NEW id \in Ids, EraseSession(id)
  PROVE  /\ sessions' \subseteq Ids
         /\ endpoint' \in [Ids -> Eps \cup {NULL}]
         /\ request' \in [Ids -> Conns \cup {NULL}]
         /\ curStatus' \in [Ids -> Status]
         /\ age' \in [Ids -> 0 .. MaxAge]
         /\ iceResult' \in [Ids -> Result]
         /\ nego' \in [Eps -> Negotiation]
         /\ conf' \in [Eps -> Relay]
         /\ calls' \in Seq([ep : Eps, fresh : BOOLEAN])
         /\ told' \in [Ids -> SUBSET {ICE_OP_LOCAL_INFO, ICE_OP_ICE_RESULT}]
<1>1. EiceFree(endpoint[id]) /\ endpoint[id] \in Eps \cup {NULL}
  BY DEF EraseSession, TypeOK
<1>2. nego' \in [Eps -> Negotiation] /\ conf' \in [Eps -> Relay]
      /\ calls' \in Seq([ep : Eps, fresh : BOOLEAN])
  BY <1>1, EiceFreeType
<1>3. MaxAge \in Nat
  BY BoundsAssumption DEF MaxAge
<1>4. QED
  BY <1>2, <1>3 DEF EraseSession, TypeOK, Status, Result

-------------------------------------------------------------------------------
(* Type correctness *)

\* Every action keeps the types.
LEMMA TypeStep == TypeOK /\ [Next]_vars => TypeOK'
<1> SUFFICES ASSUME TypeOK, [Next]_vars PROVE TypeOK'
  OBVIOUS
<1>a. MaxAge \in Nat /\ 0 \in 0 .. MaxAge
  BY BoundsAssumption DEF MaxAge
<1>b. \A c \in Conns : Receive(c) => commands' \in 0 .. MaxCommands
  BY BoundsAssumption DEF Receive, TypeOK
<1> USE <1>a, <1>b, BoundsAssumption
    DEF TypeOK, Status, Negotiation, Relay, Result, sessionVars, eiceVars
<1>1. ASSUME NEW c \in Conns, Accept(c) PROVE TypeOK'
  BY <1>1 DEF Accept
<1>2. ASSUME NEW c \in Conns, NEW id \in Ids, PrepareFails(c, id) PROVE TypeOK'
  BY <1>2 DEF PrepareFails, NewSession, setStatus
<1>3. ASSUME NEW c \in Conns, NEW id \in Ids, NEW ep \in Eps, NEW n \in {"idle", "skipped"},
             NEW fits \in BOOLEAN, PrepareSession(c, id, ep, n, fits)
      PROVE TypeOK'
  BY <1>3 DEF PrepareSession, NewSession, sendCommand, setStatus
<1>4. ASSUME NEW c \in Conns, NEW id \in Ids, NEW n \in {"idle", "skipped", "running"},
             NEW r \in {"none", "pending"}, StartSession(c, id, n, r)
      PROVE TypeOK'
  BY <1>4 DEF StartSession, setStatus
<1>5. ASSUME NEW c \in Conns, NEW id \in Ids, JoinFails(c, id) PROVE TypeOK'
  BY <1>5 DEF JoinFails, NewSession, setStatus
<1>6. ASSUME NEW c \in Conns, NEW id \in Ids, NEW ep \in Eps, NEW n \in {"skipped", "running"},
             NEW r \in {"none", "pending"}, NEW fits \in BOOLEAN,
             JoinSession(c, id, ep, n, r, fits)
      PROVE TypeOK'
  BY <1>6 DEF JoinSession, NewSession, setStatus
<1>7. ASSUME NEW c \in Conns, NEW id \in Ids, RelayCrashes(c, id) PROVE TypeOK'
  BY <1>7 DEF RelayCrashes, RelayAccepted
<1>8. ASSUME NEW c \in Conns, NEW id \in Ids, RelayRefused(c, id) PROVE TypeOK'
  BY <1>8, EiceFreeType DEF RelayRefused, RelayAccepted
<1>9. ASSUME NEW c \in Conns, NEW id \in Ids, NEW forwards \in BOOLEAN,
             RelaySession(c, id, forwards)
      PROVE TypeOK'
  BY <1>9, EraseType DEF RelaySession, RelayAccepted
<1>10. ASSUME NEW c \in Conns, NEW id \in Ids, StopSession(c, id) PROVE TypeOK'
  <2>1. CASE EraseSession(id)
    BY <1>10, <2>1, EraseType DEF StopSession
  <2>2. CASE ~EraseSession(id)
    BY <1>10, <2>2 DEF StopSession
  <2>3. QED
    BY <2>1, <2>2
<1>11. ASSUME NEW ep \in Eps, NEW r \in {"ok", "failed"}, NegoComplete(ep, r) PROVE TypeOK'
  <2>1. [ep |-> ep, fresh |-> TRUE] \in [ep : Eps, fresh : BOOLEAN]
    OBVIOUS
  <2>2. QED
    BY <1>11, <2>1 DEF NegoComplete
<1>12. ASSUME NEW ep \in Eps, NegoTimeout(ep) PROVE TypeOK'
  BY <1>12 DEF NegoTimeout
<1>13. ASSUME NEW ep \in Eps, NEW r \in {"ok", "failed"}, ConfComplete(ep, r) PROVE TypeOK'
  BY <1>13 DEF ConfComplete
<1>14. CASE GetNegoResultGone
  BY <1>14 DEF GetNegoResultGone
<1>15. CASE GetNegoResultAborts
  BY <1>15 DEF GetNegoResultAborts
<1>16. ASSUME NEW id \in Ids, NEW fits \in BOOLEAN, GetNegoResult(id, fits) PROVE TypeOK'
  <2>1. NegoResult(Head(calls).ep) \in Result
    BY DEF NegoResult
  <2>2. calls' \in Seq([ep : Eps, fresh : BOOLEAN])
    BY <1>16 DEF GetNegoResult
  <2>3. curStatus' \in [Ids -> Status] /\ age' \in [Ids -> 0 .. MaxAge]
        /\ told' \in [Ids -> SUBSET {ICE_OP_LOCAL_INFO, ICE_OP_ICE_RESULT}]
    <3>1. CASE request[id] \in connections
      <4>1. sendCommand(id, ICE_OP_ICE_RESULT, fits)
        BY <1>16, <3>1 DEF GetNegoResult
      <4>2. QED
        BY <4>1 DEF sendCommand, setStatus
    <3>2. CASE request[id] \notin connections
      BY <1>16, <3>2 DEF GetNegoResult
    <3>3. QED
      BY <3>1, <3>2
  <2>4. QED
    BY <1>16, <2>1, <2>2, <2>3 DEF GetNegoResult
<1>17. CASE TimeoutCb
  BY <1>17, EraseType DEF TimeoutCb
<1>18. CASE Tick
  BY <1>18 DEF Tick
<1>19. ASSUME NEW id \in Ids, ForwardExpires(id) PROVE TypeOK'
  BY <1>19 DEF ForwardExpires
<1>20. CASE UNCHANGED vars
  <2>1. UNCHANGED sessionVars /\ UNCHANGED eiceVars
        /\ UNCHANGED <<connections, forwarding, commands, crashed, told>>
    BY <1>20 DEF vars
  <2>2. QED
    BY <2>1
<1> HIDE DEF TypeOK, Status, Negotiation, Relay, Result, sessionVars, eiceVars
<1>21. QED
  BY <1>1, <1>2, <1>3, <1>4, <1>5, <1>6, <1>7, <1>8, <1>9, <1>10, <1>11, <1>12, <1>13,
     <1>14, <1>15, <1>16, <1>17, <1>18, <1>19, <1>20
  DEF Next, Command, WorkerStep, RunCall

-------------------------------------------------------------------------------
(* The inductive invariant *)

(***************************************************************************)
(* OneOwner is not inductive alone: erasing a session frees its endpoint,  *)
(* which is safe only if no other session has it, and a new session may    *)
(* only be given an address that no entry left behind (Clean) still names. *)
(* AbortHasAReason needs FreshCallHasOutcome, which in turn needs          *)
(* StartsOnce: START_SESSION must not restart a finished negotiation.      *)
(***************************************************************************)
Table == Clean /\ OneOwner /\ StartsOnce /\ ResultBacked
IInv == TypeOK /\ Table /\ FreshCallHasOutcome /\ AbortHasAReason

\* A queued call names an address.
LEMMA QueuedEps == TypeOK => \A i \in DOMAIN calls : calls[i].ep \in Eps
<1>1. ASSUME TypeOK PROVE \A i \in DOMAIN calls : calls[i].ep \in Eps
  <2>1. calls \in Seq(Call)
    BY <1>1 DEF TypeOK, Call
  <2>2. \A i \in DOMAIN calls : calls[i] \in Call
    BY <2>1, LenProperties, ElementOfSeq
  <2>3. QED
    BY <2>2 DEF Call
<1>2. QED
  BY <1>1

\* What eice_free leaves behind.
LEMMA EiceFreeFacts ==
  ASSUME TypeOK, FreshCallHasOutcome, NEW ep \in Eps \cup {NULL}, EiceFree(ep)
  PROVE  /\ FreshCallHasOutcome'
         /\ \A e \in Eps : /\ nego'[e] = IF e = ep THEN "free" ELSE nego[e]
                           /\ conf'[e] = IF e = ep THEN "none" ELSE conf[e]
<1>1. CASE ep = NULL
  BY <1>1, NullAssumption DEF EiceFree, eiceVars, FreshCallHasOutcome
<1>2. CASE ep # NULL
  <2>1. /\ ep \in Eps
        /\ calls' = MarkStale(ep)
        /\ nego' = [nego EXCEPT ![ep] = "free"]
        /\ conf' = [conf EXCEPT ![ep] = "none"]
    BY <1>2 DEF EiceFree
  <2>2. \A e \in Eps : /\ nego'[e] = IF e = ep THEN "free" ELSE nego[e]
                       /\ conf'[e] = IF e = ep THEN "none" ELSE conf[e]
    BY <2>1 DEF TypeOK
  <2>3. /\ DOMAIN calls' = DOMAIN calls
        /\ \A i \in DOMAIN calls : /\ calls'[i].ep = calls[i].ep
                                   /\ calls'[i].fresh => calls[i].fresh /\ calls[i].ep # ep
    BY <2>1, MarkStaleProperties DEF TypeOK, Call
  <2>4. \A i \in DOMAIN calls : calls[i].ep \in Eps
    BY QueuedEps
  <2>5. FreshCallHasOutcome'
    BY <2>2, <2>3, <2>4 DEF FreshCallHasOutcome
  <2>6. QED
    BY <2>2, <2>5
<1>3. QED
  BY <1>1, <1>2

\* Erasing a session, with its endpoint, keeps the table consistent.
LEMMA EraseFacts ==
  ASSUME TypeOK, Table, FreshCallHasOutcome, NEW id \in sessions, EraseSession(id)
  PROVE  Table' /\ FreshCallHasOutcome'
<1> USE DEF TypeOK, Table
<1>1. id \in Ids /\ endpoint[id] \in Eps \cup {NULL} /\ EiceFree(endpoint[id])
  BY DEF EraseSession
<1>2. /\ FreshCallHasOutcome'
      /\ \A e \in Eps : /\ nego'[e] = IF e = endpoint[id] THEN "free" ELSE nego[e]
                        /\ conf'[e] = IF e = endpoint[id] THEN "none" ELSE conf[e]
  BY <1>1, EiceFreeFacts
<1>3. /\ sessions' = sessions \ {id}
      /\ \A j \in Ids : /\ endpoint'[j] = IF j = id THEN NULL ELSE endpoint[j]
                        /\ curStatus'[j] = IF j = id THEN ICE_OP_NON ELSE curStatus[j]
                        /\ iceResult'[j] = IF j = id THEN "none" ELSE iceResult[j]
                        /\ told'[j] = IF j = id THEN {} ELSE told[j]
  BY <1>1 DEF EraseSession
<1>4. \A j \in sessions' : j \in sessions /\ j \in Ids /\ j # id
  BY <1>3
<1>5. \A j \in sessions' : endpoint'[j] = endpoint[j] /\ (endpoint[j] # NULL => endpoint[j] # endpoint[id])
  BY <1>1, <1>3, <1>4 DEF OneOwner
<1>6. Clean'
  BY <1>2, <1>3, <1>4 DEF Clean
<1>7. OneOwner'
  <2>1. ASSUME NEW ep \in Eps PROVE nego'[ep] # "free" <=> \E j \in sessions' : endpoint'[j] = ep
    <3>1. CASE ep = endpoint[id]
      BY <1>2, <1>5, <3>1, NullAssumption
    <3>2. CASE ep # endpoint[id]
      <4>1. nego'[ep] = nego[ep]
        BY <1>2, <3>2
      <4>2. nego[ep] # "free" <=> \E j \in sessions : endpoint[j] = ep
        BY DEF OneOwner
      <4>3. ASSUME NEW j \in sessions, endpoint[j] = ep PROVE j \in sessions' /\ endpoint'[j] = ep
        BY <1>3, <1>5, <3>2, <4>3
      <4>4. ASSUME NEW j \in sessions', endpoint'[j] = ep PROVE j \in sessions /\ endpoint[j] = ep
        BY <1>4, <1>5, <4>4
      <4>5. QED
        BY <4>1, <4>2, <4>3, <4>4
    <3>3. QED
      BY <3>1, <3>2
  <2>2. ASSUME NEW i \in sessions', NEW j \in sessions', endpoint'[i] = endpoint'[j], endpoint'[i] # NULL
        PROVE i = j
    BY <1>4, <1>5, <2>2 DEF OneOwner
  <2>3. QED
    BY <2>1, <2>2 DEF OneOwner
<1>8. StartsOnce'
  BY <1>1, <1>2, <1>3, <1>4, <1>5, NullAssumption DEF StartsOnce
<1>9. ResultBacked'
  BY <1>1, <1>2, <1>3, <1>4, <1>5, NullAssumption DEF ResultBacked, NegoKnown
<1>10. QED
  BY <1>2, <1>6, <1>7, <1>8, <1>9

\* What checkStatus lets through for the two commands that ask it.
LEMMA CheckStatusCases ==
  ASSUME NEW s
  PROVE  /\ checkStatus(s, ICE_OP_START_SESSION) <=> s \in {ICE_OP_PREPARE_SESSION, ICE_OP_LOCAL_INFO}
         /\ checkStatus(s, ICE_OP_RELAY_SESSION) <=> s = ICE_OP_ICE_RESULT
  BY DEF checkStatus

\* The commands of the CCS keep the table consistent and the queue sound.
LEMMA CommandStep ==
  ASSUME IInv, NEW c \in Conns, NEW id \in Ids, Command(c, id)
  PROVE  Table' /\ FreshCallHasOutcome'
<1> DEFINE Goal == Table' /\ FreshCallHasOutcome'
<1>a. TypeOK /\ Table /\ FreshCallHasOutcome
  BY DEF IInv
<1>b. \A i \in DOMAIN calls : calls[i].ep \in Eps
  BY <1>a, QueuedEps
<1>c. curStatus[id] \in Status
  BY <1>a DEF TypeOK
<1>1. CASE PrepareFails(c, id)
  BY <1>1, <1>a, NullAssumption
  DEF PrepareFails, NewSession, setStatus, eiceVars, TypeOK, Table, Clean, OneOwner, StartsOnce,
      ResultBacked, NegoKnown, FreshCallHasOutcome
<1>2. ASSUME NEW ep \in Eps, NEW n \in {"idle", "skipped"}, NEW fits \in BOOLEAN,
             PrepareSession(c, id, ep, n, fits)
      PROVE Goal
  <2> USE <1>2, <1>a, <1>b, NullAssumption DEF PrepareSession, NewSession, sendCommand, setStatus, TypeOK, Table
  <2>1. Clean'
    BY DEF Clean
  <2>2. OneOwner'
    BY DEF OneOwner
  <2>3. StartsOnce'
    BY DEF StartsOnce, Clean, OneOwner
  <2>4. ResultBacked'
    BY DEF ResultBacked, OneOwner, NegoKnown
  <2>5. FreshCallHasOutcome'
    BY DEF FreshCallHasOutcome
  <2>6. QED
    BY <2>1, <2>2, <2>3, <2>4, <2>5
<1>3. ASSUME NEW n \in {"idle", "skipped", "running"}, NEW r \in {"none", "pending"},
             StartSession(c, id, n, r)
      PROVE Goal
  <2>1. /\ id \in sessions
        /\ curStatus[id] = ICE_OP_LOCAL_INFO
    BY <1>3, <1>c, CheckStatusCases DEF StartSession, Status
  <2>2. /\ endpoint[id] \in Eps
        /\ nego[endpoint[id]] \in {"idle", "skipped"}
    BY <2>1, <1>a DEF Table, StartsOnce, TypeOK
  <2> USE <1>3, <1>a, <1>b, <2>1, <2>2, NullAssumption DEF StartSession, setStatus, TypeOK, Table
  <2>3. Clean'
    BY DEF Clean
  <2>4. OneOwner'
    BY DEF OneOwner
  <2>5. StartsOnce'
    BY DEF StartsOnce, OneOwner
  <2>6. ResultBacked'
    BY DEF ResultBacked, OneOwner, NegoKnown
  <2>7. FreshCallHasOutcome'
    BY DEF FreshCallHasOutcome
  <2>8. QED
    BY <2>3, <2>4, <2>5, <2>6, <2>7
<1>4. CASE JoinFails(c, id)
  BY <1>4, <1>a, NullAssumption
  DEF JoinFails, NewSession, setStatus, eiceVars, TypeOK, Table, Clean, OneOwner, StartsOnce,
      ResultBacked, NegoKnown, FreshCallHasOutcome
<1>5. ASSUME NEW ep \in Eps, NEW n \in {"skipped", "running"}, NEW r \in {"none", "pending"},
             NEW fits \in BOOLEAN, JoinSession(c, id, ep, n, r, fits)
      PROVE Goal
  <2> USE <1>5, <1>a, <1>b, NullAssumption DEF JoinSession, NewSession, setStatus, TypeOK, Table
  <2>1. Clean'
    BY DEF Clean
  <2>2. OneOwner'
    BY DEF OneOwner
  <2>3. StartsOnce'
    BY DEF StartsOnce, OneOwner
  <2>4. ResultBacked'
    BY DEF ResultBacked, OneOwner, NegoKnown
  <2>5. FreshCallHasOutcome'
    BY DEF FreshCallHasOutcome
  <2>6. QED
    BY <2>1, <2>2, <2>3, <2>4, <2>5
<1>6. CASE RelayCrashes(c, id)
  BY <1>6, <1>a
  DEF RelayCrashes, sessionVars, eiceVars, Table, Clean, OneOwner, StartsOnce, ResultBacked,
      NegoKnown, FreshCallHasOutcome
<1>7. CASE RelayRefused(c, id)
  <2>1. /\ id \in sessions
        /\ curStatus[id] = ICE_OP_ICE_RESULT
        /\ endpoint[id] \in Eps
        /\ iceResult[id] = "pairs"
        /\ EiceFree(endpoint[id])
    BY <1>7, <1>a, CheckStatusCases DEF RelayRefused, RelayAccepted, TypeOK
  <2>2. /\ FreshCallHasOutcome'
        /\ \A e \in Eps : /\ nego'[e] = IF e = endpoint[id] THEN "free" ELSE nego[e]
                          /\ conf'[e] = IF e = endpoint[id] THEN "none" ELSE conf[e]
    BY <1>a, <2>1, EiceFreeFacts
  <2>3. /\ UNCHANGED <<sessions, curStatus, iceResult, told>>
        /\ \A j \in Ids : endpoint'[j] = IF j = id THEN NULL ELSE endpoint[j]
    BY <1>7, <1>a DEF RelayRefused, TypeOK
  <2> USE <1>a, <2>1, <2>2, <2>3, NullAssumption DEF TypeOK, Table
  <2>4. Clean'
    BY DEF Clean
  <2>a. \A j \in sessions : j # id /\ endpoint[j] # NULL => endpoint[j] # endpoint[id]
    BY DEF OneOwner
  <2>5. OneOwner'
    <3>1. ASSUME NEW ep \in Eps PROVE nego'[ep] # "free" <=> \E j \in sessions' : endpoint'[j] = ep
      <4>1. CASE ep = endpoint[id]
        BY <2>a, <4>1
      <4>2. CASE ep # endpoint[id]
        <5>1. nego'[ep] = nego[ep]
          BY <2>2, <4>2
        <5>2. \A j \in sessions : endpoint'[j] = ep <=> endpoint[j] = ep
          BY <2>3, <4>2
        <5>3. QED
          BY <5>1, <5>2 DEF OneOwner
      <4>3. QED
        BY <4>1, <4>2
    <3>2. ASSUME NEW i \in sessions', NEW j \in sessions', endpoint'[i] = endpoint'[j], endpoint'[i] # NULL
          PROVE i = j
      BY <3>2 DEF OneOwner
    <3>3. QED
      BY <3>1, <3>2 DEF OneOwner
  <2>6. StartsOnce'
    BY <2>a DEF StartsOnce
  <2>7. ResultBacked'
    BY DEF ResultBacked, OneOwner, NegoKnown
  <2>8. QED
    BY <2>2, <2>4, <2>5, <2>6, <2>7
<1>8. ASSUME NEW forwards \in BOOLEAN, RelaySession(c, id, forwards) PROVE Goal
  BY <1>8, <1>a, EraseFacts DEF RelaySession, RelayAccepted
<1>9. CASE StopSession(c, id)
  <2>1. CASE id \notin sessions
    BY <1>9, <1>a, <2>1
    DEF StopSession, sessionVars, eiceVars, Table, Clean, OneOwner, StartsOnce, ResultBacked,
        NegoKnown, FreshCallHasOutcome
  <2>2. CASE id \in sessions /\ curStatus[id] > ICE_OP_ICE_RESULT
    <3>1. curStatus[id] \in Nat
      BY <1>c DEF Status
    <3>2. ~(curStatus[id] <= ICE_OP_ICE_RESULT)
      BY <2>2, <3>1
    <3>3. EraseSession(id)
      BY <1>9, <2>2, <3>2 DEF StopSession
    <3>4. QED
      BY <1>a, <2>2, <3>3, EraseFacts
  <2>3. CASE id \in sessions /\ ~(curStatus[id] > ICE_OP_ICE_RESULT)
    <3>1. /\ curStatus' = [curStatus EXCEPT ![id] = ICE_OP_END]
          /\ UNCHANGED <<sessions, endpoint, request, age, iceResult, eiceVars, told>>
      BY <1>9, <2>3 DEF StopSession
    <3>2. UNCHANGED <<nego, conf, calls>>
      BY <3>1 DEF eiceVars
    <3>3. QED
      BY <1>a, <2>3, <3>1, <3>2
      DEF TypeOK, Table, Clean, OneOwner, StartsOnce, ResultBacked, NegoKnown, FreshCallHasOutcome
  <2>4. QED
    BY <2>1, <2>2, <2>3
<1>10. QED
  BY <1>1, <1>2, <1>3, <1>4, <1>5, <1>6, <1>7, <1>8, <1>9 DEF Command

\* The worker threads keep the table consistent and the queue sound.
LEMMA WorkerStepInv ==
  ASSUME IInv, NEW ep \in Eps, WorkerStep(ep)
  PROVE  Table' /\ FreshCallHasOutcome'
<1>a. TypeOK /\ Table /\ FreshCallHasOutcome
  BY DEF IInv
<1>b. \A i \in DOMAIN calls : calls[i].ep \in Eps
  BY <1>a, QueuedEps
<1>1. ASSUME NEW r \in {"ok", "failed"}, NegoComplete(ep, r)
      PROVE Table' /\ FreshCallHasOutcome'
  <2>1. /\ nego[ep] = "running"
        /\ calls' = Append(calls, [ep |-> ep, fresh |-> TRUE])
        /\ \A e \in Eps : /\ nego'[e] = IF e = ep THEN r ELSE nego[e]
                          /\ conf'[e] = IF e = ep /\ r = "ok" /\ conf[e] = "pending" THEN "failed" ELSE conf[e]
        /\ UNCHANGED <<sessions, endpoint, curStatus, iceResult, told>>
    BY <1>1, <1>a DEF NegoComplete, TypeOK, sessionVars
  <2>2. Clean' /\ OneOwner' /\ StartsOnce'
    <3>1. Clean'
      BY <1>a, <2>1 DEF Table, Clean
    <3>2. OneOwner'
      BY <1>a, <2>1 DEF Table, OneOwner
    <3>3. StartsOnce'
      BY <1>a, <2>1 DEF TypeOK, Table, StartsOnce
    <3>4. QED
      BY <3>1, <3>2, <3>3
  <2>3. ResultBacked'
    BY <1>a, <2>1 DEF TypeOK, Table, ResultBacked, NegoKnown
  <2>4. FreshCallHasOutcome'
    <3>1. /\ DOMAIN calls = 1 .. Len(calls) /\ Len(calls) \in Nat
          /\ DOMAIN calls' = 1 .. Len(calls) + 1
          /\ \A i \in 1 .. Len(calls) : calls'[i] = calls[i]
          /\ calls'[Len(calls) + 1] = [ep |-> ep, fresh |-> TRUE]
      BY <1>a, <2>1 DEF TypeOK
    <3>2. ASSUME NEW i \in DOMAIN calls', calls'[i].fresh
          PROVE \/ nego'[calls'[i].ep] = "ok" /\ conf'[calls'[i].ep] # "pending"
                \/ nego'[calls'[i].ep] = "failed"
      <4>1. CASE i = Len(calls) + 1
        BY <2>1, <3>1, <4>1
      <4>2. CASE i # Len(calls) + 1
        <5>1. i \in DOMAIN calls /\ calls'[i] = calls[i]
          BY <3>1, <4>2
        <5>2. calls[i].ep # ep
          BY <1>a, <2>1, <3>2, <5>1 DEF FreshCallHasOutcome
        <5>3. QED
          BY <1>a, <1>b, <2>1, <3>2, <5>1, <5>2 DEF FreshCallHasOutcome
      <4>3. QED
        BY <4>1, <4>2
    <3>3. QED
      BY <3>2 DEF FreshCallHasOutcome
  <2>5. QED
    BY <2>2, <2>3, <2>4 DEF Table
<1>2. CASE NegoTimeout(ep)
  <2> USE <1>2, <1>a, <1>b DEF NegoTimeout, sessionVars, TypeOK, Table
  <2>1. Clean' /\ OneOwner' /\ StartsOnce'
    BY DEF Clean, OneOwner, StartsOnce
  <2>2. ResultBacked'
    BY DEF ResultBacked, NegoKnown
  <2>3. FreshCallHasOutcome'
    BY DEF FreshCallHasOutcome
  <2>4. QED
    BY <2>1, <2>2, <2>3
<1>3. ASSUME NEW r \in {"ok", "failed"}, ConfComplete(ep, r)
      PROVE Table' /\ FreshCallHasOutcome'
  <2> USE <1>3, <1>a, <1>b DEF ConfComplete, sessionVars, TypeOK, Table
  <2>1. Clean' /\ OneOwner' /\ StartsOnce'
    BY DEF Clean, OneOwner, StartsOnce
  <2>2. ResultBacked'
    BY DEF ResultBacked, NegoKnown
  <2>3. FreshCallHasOutcome'
    BY DEF FreshCallHasOutcome
  <2>4. QED
    BY <2>1, <2>2, <2>3
<1>4. QED
  BY <1>1, <1>2, <1>3 DEF WorkerStep

\* Running a queued call keeps the table consistent and the queue sound.
LEMMA RunCallInv ==
  ASSUME IInv, RunCall
  PROVE  Table' /\ FreshCallHasOutcome'
<1>a. TypeOK /\ Table /\ FreshCallHasOutcome
  BY DEF IInv
<1>b. \A i \in DOMAIN calls : calls[i].ep \in Eps
  BY <1>a, QueuedEps
<1>c. ASSUME calls # <<>>, calls' = Tail(calls), UNCHANGED <<nego, conf>>
      PROVE FreshCallHasOutcome'
  BY <1>c, <1>a DEF TypeOK, FreshCallHasOutcome
<1>1. CASE GetNegoResultGone
  BY <1>1, <1>a, <1>c
  DEF GetNegoResultGone, sessionVars, Table, Clean, OneOwner, StartsOnce, ResultBacked, NegoKnown
<1>2. CASE GetNegoResultAborts
  BY <1>2, <1>a
  DEF GetNegoResultAborts, sessionVars, eiceVars, Table, Clean, OneOwner, StartsOnce,
      ResultBacked, NegoKnown, FreshCallHasOutcome
<1>3. ASSUME NEW id \in Ids, NEW fits \in BOOLEAN, GetNegoResult(id, fits)
      PROVE Table' /\ FreshCallHasOutcome'
  <2>1. /\ id \in sessions
        /\ endpoint[id] = Head(calls).ep
        /\ NegoKnown(endpoint[id])
    BY <1>3 DEF GetNegoResult, Owners
  <2>2. Head(calls).ep \in Eps
    BY <1>3, <1>a, <1>b DEF GetNegoResult, TypeOK
  <2>3. FreshCallHasOutcome'
    BY <1>3, <1>c DEF GetNegoResult
  <2>4. /\ UNCHANGED <<sessions, endpoint, nego, conf>>
        /\ \A j \in Ids \ {id} : /\ curStatus'[j] = curStatus[j]
                                 /\ iceResult'[j] = iceResult[j]
                                 /\ told'[j] = told[j]
        /\ iceResult'[id] = NegoResult(endpoint[id])
    <3>1. CASE request[id] \in connections
      <4>1. sendCommand(id, ICE_OP_ICE_RESULT, fits)
        BY <1>3, <3>1 DEF GetNegoResult
      <4>2. QED
        BY <1>3, <1>a, <2>1, <4>1 DEF GetNegoResult, sendCommand, setStatus, TypeOK
    <3>2. CASE request[id] \notin connections
      BY <1>3, <1>a, <2>1, <3>2 DEF GetNegoResult, TypeOK
    <3>3. QED
      BY <3>1, <3>2
  <2>5. \/ curStatus'[id] = ICE_OP_ICE_RESULT /\ ICE_OP_ICE_RESULT \in told'[id]
        \/ curStatus'[id] = ICE_OP_END
        \/ curStatus'[id] = curStatus[id] /\ told'[id] = told[id]
    <3>1. CASE request[id] \in connections
      <4>1. sendCommand(id, ICE_OP_ICE_RESULT, fits)
        BY <1>3, <3>1 DEF GetNegoResult
      <4>2. QED
        BY <1>a, <4>1 DEF sendCommand, setStatus, TypeOK
    <3>2. CASE request[id] \notin connections
      BY <1>3, <3>2 DEF GetNegoResult
    <3>3. QED
      BY <3>1, <3>2
  <2>6. Clean' /\ OneOwner'
    BY <1>a, <2>1, <2>4 DEF Table, Clean, OneOwner
  <2>7. StartsOnce'
    BY <1>a, <2>1, <2>4, <2>5 DEF TypeOK, Table, StartsOnce
  <2>8. NegoResult(endpoint[id]) # "none" /\ endpoint[id] # NULL
    BY <2>1, <2>2, NullAssumption DEF NegoResult
  <2>9. ResultBacked'
    <3>1. \A j \in Ids : NegoKnown(endpoint[j])' <=> NegoKnown(endpoint[j])
      BY <2>4 DEF NegoKnown
    <3>2. ASSUME NEW j \in sessions', curStatus'[j] = ICE_OP_ICE_RESULT
          PROVE /\ ICE_OP_ICE_RESULT \in told'[j]
                /\ iceResult'[j] # "none"
                /\ endpoint'[j] # NULL => NegoKnown(endpoint[j])'
                /\ endpoint'[j] = NULL => iceResult'[j] = "pairs"
      <4>1. CASE j = id
        BY <1>a, <2>1, <2>4, <2>5, <2>8, <3>1, <3>2, <4>1 DEF Table, ResultBacked, TypeOK
      <4>2. CASE j # id
        BY <1>a, <2>4, <3>1, <3>2, <4>2 DEF Table, ResultBacked, TypeOK
      <4>3. QED
        BY <4>1, <4>2
    <3>3. QED
      BY <3>2 DEF ResultBacked
  <2>10. QED
    BY <2>3, <2>6, <2>7, <2>9 DEF Table
<1>4. QED
  BY <1>1, <1>2, <1>3 DEF RunCall

\* The inductive invariant is preserved by every step.
LEMMA InvStep == IInv /\ [Next]_vars => IInv'
<1> SUFFICES ASSUME IInv, [Next]_vars PROVE IInv'
  OBVIOUS
<1>a. TypeOK /\ Table /\ FreshCallHasOutcome /\ AbortHasAReason
  BY DEF IInv
<1>1. Table' /\ FreshCallHasOutcome'
  <2>1. ASSUME NEW c \in Conns, Accept(c) PROVE Table' /\ FreshCallHasOutcome'
    BY <2>1, <1>a
    DEF Accept, sessionVars, eiceVars, Table, Clean, OneOwner, StartsOnce, ResultBacked,
        NegoKnown, FreshCallHasOutcome
  <2>2. ASSUME NEW c \in Conns, NEW id \in Ids, Command(c, id) PROVE Table' /\ FreshCallHasOutcome'
    BY <2>2, CommandStep
  <2>3. ASSUME NEW ep \in Eps, WorkerStep(ep) PROVE Table' /\ FreshCallHasOutcome'
    BY <2>3, WorkerStepInv
  <2>4. CASE RunCall
    BY <2>4, RunCallInv
  <2>5. CASE TimeoutCb
    BY <2>5, <1>a, EraseFacts DEF TimeoutCb, Expired
  <2>6. CASE Tick
    BY <2>6, <1>a
    DEF Tick, eiceVars, Table, Clean, OneOwner, StartsOnce, ResultBacked, NegoKnown,
        FreshCallHasOutcome
  <2>7. ASSUME NEW id \in Ids, ForwardExpires(id) PROVE Table' /\ FreshCallHasOutcome'
    BY <2>7, <1>a
    DEF ForwardExpires, sessionVars, eiceVars, Table, Clean, OneOwner, StartsOnce, ResultBacked,
        NegoKnown, FreshCallHasOutcome
  <2>8. CASE UNCHANGED vars
    <3>1. UNCHANGED sessionVars /\ UNCHANGED eiceVars /\ UNCHANGED told
      BY <2>8 DEF vars
    <3>2. QED
      BY <3>1, <1>a
      DEF sessionVars, eiceVars, Table, Clean, OneOwner, StartsOnce, ResultBacked, NegoKnown,
          FreshCallHasOutcome
  <2>9. QED
    BY <2>1, <2>2, <2>3, <2>4, <2>5, <2>6, <2>7, <2>8 DEF Next
<1>2. AbortHasAReason'
  <2>1. CASE GetNegoResultAborts
    <3>1. Head(calls) = calls[1] /\ 1 \in DOMAIN calls
      BY <2>1, <1>a DEF GetNegoResultAborts, TypeOK
    <3>2. Head(calls).fresh => conf[Head(calls).ep] = "pending"
      BY <2>1, <1>a, <3>1 DEF GetNegoResultAborts, NegoKnown, FreshCallHasOutcome
    <3>3. QED
      BY <2>1, <3>2 DEF GetNegoResultAborts, eiceVars, AbortHasAReason
  <2>2. CASE crashed = "no" /\ crashed' \in {"no", "null_endpoint"}
    BY <2>2 DEF AbortHasAReason
  <2>3. CASE UNCHANGED vars
    <3>1. UNCHANGED eiceVars /\ UNCHANGED crashed
      BY <2>3 DEF vars
    <3>2. QED
      BY <3>1, <1>a DEF eiceVars, AbortHasAReason
  <2>4. ASSUME NEW c \in Conns, NEW id \in Ids, Command(c, id)
        PROVE crashed = "no" /\ crashed' \in {"no", "null_endpoint"}
    BY <2>4
    DEF Command, PrepareFails, PrepareSession, StartSession, JoinFails, JoinSession, RelayCrashes,
        RelayRefused, RelaySession, RelayAccepted, StopSession, Receive
  <2>5. ASSUME NEW ep \in Eps, WorkerStep(ep) PROVE crashed = "no" /\ crashed' = "no"
    BY <2>5 DEF WorkerStep, NegoComplete, NegoTimeout, ConfComplete
  <2>6. QED
    BY <2>1, <2>2, <2>3, <2>4, <2>5
    DEF Next, Accept, RunCall, GetNegoResultGone, GetNegoResult, TimeoutCb, Tick, ForwardExpires
<1>3. TypeOK'
  BY <1>a, TypeStep
<1>4. QED
  BY <1>1, <1>2, <1>3 DEF IInv

-------------------------------------------------------------------------------
(* Theorems *)

\* The inductive invariant holds in every reachable state.
THEOREM Invariance == Spec => []IInv
<1>1. Init => IInv
  <2> SUFFICES ASSUME Init PROVE IInv
    OBVIOUS
  <2>1. TypeOK
    BY BoundsAssumption DEF Init, TypeOK, Status, Negotiation, Relay, Result, MaxAge
  <2>2. Table
    BY DEF Init, Table, Clean, OneOwner, StartsOnce, ResultBacked
  <2>3. FreshCallHasOutcome /\ AbortHasAReason
    BY DEF Init, FreshCallHasOutcome, AbortHasAReason
  <2>4. QED
    BY <2>1, <2>2, <2>3 DEF IInv
<1>2. QED
  BY <1>1, InvStep, PTL DEF Spec

\* Type correctness of the session table and the functor queue.
THEOREM TypeCorrect == Spec => []TypeOK
<1>1. IInv => TypeOK
  BY DEF IInv
<1>2. QED
  BY <1>1, Invariance, PTL

\* No eice object is leaked, shared, freed twice or used after it was freed,
\* for any number of sessions and any reuse of addresses.
THEOREM Ownership == Spec => []OneOwner
<1>1. IInv => OneOwner
  BY DEF IInv, Table
<1>2. QED
  BY <1>1, Invariance, PTL

\* START_SESSION starts the negotiation of a live endpoint, and only once.
THEOREM StartsOnceAlways == Spec => []StartsOnce
<1>1. IInv => StartsOnce
  BY DEF IInv, Table
<1>2. QED
  BY <1>1, Invariance, PTL

\* ICE_RESULT is always backed by a stored result of a finished negotiation.
THEOREM ResultBackedAlways == Spec => []ResultBacked
<1>1. IInv => ResultBacked
  BY DEF IInv, Table
<1>2. QED
  BY <1>1, Invariance, PTL

\* The assertion of getNegoResult fails for no other reason than a reused
\* address or an unfinished conference relay.
THEOREM AbortReason == Spec => []AbortHasAReason
<1>1. IInv => AbortHasAReason
  BY DEF IInv
<1>2. QED
  BY <1>1, Invariance, PTL

\* A queued getNegoResult whose object is still the one that queued it finds the
\* outcome stored.
THEOREM FreshCalls == Spec => []FreshCallHasOutcome
<1>1. IInv => FreshCallHasOutcome
  BY DEF IInv
<1>2. QED
  BY <1>1, Invariance, PTL

-------------------------------------------------------------------------------
(* Results and what they start *)

(***************************************************************************)
(* The two action properties need two more facts about the table: a stored *)
(* "pairs" is that of the session's own endpoint, which succeeded and was  *)
(* not started again; and the connection a session came in on is still     *)
(* known, so that the report of its outcome is not withheld.               *)
(***************************************************************************)
PairsBacked ==
  \A id \in sessions : iceResult[id] = "pairs" /\ endpoint[id] # NULL => nego[endpoint[id]] = "ok"
RequestKnown == \A id \in sessions : request[id] \in connections
Backed == PairsBacked /\ RequestKnown

\* Erasing a session keeps the results of the others.
LEMMA EraseBacked ==
  ASSUME TypeOK, Table, Backed, NEW id \in sessions, EraseSession(id), UNCHANGED connections
  PROVE  Backed'
<1>1. id \in Ids /\ sessions \subseteq Ids /\ endpoint[id] \in Eps \cup {NULL}
  BY DEF TypeOK
<1>2. /\ sessions' = sessions \ {id}
      /\ \A j \in Ids \ {id} : /\ endpoint'[j] = endpoint[j]
                               /\ iceResult'[j] = iceResult[j]
                               /\ request'[j] = request[j]
  BY <1>1 DEF EraseSession, TypeOK
<1>3. \A e \in Eps \ {endpoint[id]} : nego'[e] = nego[e]
  BY <1>1 DEF EraseSession, EiceFree, eiceVars, TypeOK
<1>4. \A j \in sessions' : endpoint[j] # NULL => endpoint[j] \in Eps \ {endpoint[id]}
  BY <1>1, <1>2 DEF Table, OneOwner, TypeOK
<1>5. PairsBacked'
  BY <1>1, <1>2, <1>3, <1>4 DEF Backed, PairsBacked
<1>6. RequestKnown'
  BY <1>1, <1>2 DEF Backed, RequestKnown
<1>7. QED
  BY <1>5, <1>6 DEF Backed

\* The commands of the CCS keep the results backed.
LEMMA CommandBacked ==
  ASSUME IInv, Backed, NEW c \in Conns, NEW id \in Ids, Command(c, id)
  PROVE  Backed'
<1>a. TypeOK /\ Table /\ Clean /\ OneOwner /\ StartsOnce
  BY DEF IInv, Table
<1>b. curStatus[id] \in Status
  BY <1>a DEF TypeOK
<1> USE <1>a, NullAssumption DEF TypeOK, Backed
<1>1. CASE PrepareFails(c, id)
  BY <1>1 DEF PrepareFails, Receive, NewSession, eiceVars, PairsBacked, RequestKnown, Clean
<1>2. ASSUME NEW ep \in Eps, NEW n \in {"idle", "skipped"}, NEW fits \in BOOLEAN,
             PrepareSession(c, id, ep, n, fits)
      PROVE Backed'
  <2>1. PairsBacked'
    BY <1>2 DEF PrepareSession, NewSession, PairsBacked, Clean, OneOwner
  <2>2. RequestKnown'
    BY <1>2 DEF PrepareSession, Receive, NewSession, RequestKnown
  <2>3. QED
    BY <2>1, <2>2
<1>3. ASSUME NEW n \in {"idle", "skipped", "running"}, NEW r \in {"none", "pending"},
             StartSession(c, id, n, r)
      PROVE Backed'
  <2>1. id \in sessions /\ curStatus[id] = ICE_OP_LOCAL_INFO
    BY <1>3, <1>b, CheckStatusCases DEF StartSession, Status
  <2>2. endpoint[id] \in Eps /\ nego[endpoint[id]] # "ok"
    BY <2>1 DEF StartsOnce
  <2>3. PairsBacked'
    BY <1>3, <2>1, <2>2 DEF StartSession, PairsBacked
  <2>4. RequestKnown'
    BY <1>3 DEF StartSession, RequestKnown
  <2>5. QED
    BY <2>3, <2>4
<1>4. CASE JoinFails(c, id)
  BY <1>4 DEF JoinFails, Receive, NewSession, eiceVars, PairsBacked, RequestKnown, Clean
<1>5. ASSUME NEW ep \in Eps, NEW n \in {"skipped", "running"}, NEW r \in {"none", "pending"},
             NEW fits \in BOOLEAN, JoinSession(c, id, ep, n, r, fits)
      PROVE Backed'
  <2>1. PairsBacked'
    BY <1>5 DEF JoinSession, NewSession, PairsBacked, Clean, OneOwner
  <2>2. RequestKnown'
    BY <1>5 DEF JoinSession, Receive, NewSession, RequestKnown
  <2>3. QED
    BY <2>1, <2>2
<1>6. CASE RelayCrashes(c, id)
  BY <1>6 DEF RelayCrashes, sessionVars, eiceVars, PairsBacked, RequestKnown
<1>7. CASE RelayRefused(c, id)
  <2>1. id \in sessions /\ endpoint[id] \in Eps
    BY <1>7 DEF RelayRefused, RelayAccepted
  <2>2. /\ UNCHANGED <<sessions, connections, request, iceResult>>
        /\ \A j \in Ids : endpoint'[j] = IF j = id THEN NULL ELSE endpoint[j]
        /\ \A e \in Eps \ {endpoint[id]} : nego'[e] = nego[e]
    BY <1>7, <2>1 DEF RelayRefused, EiceFree
  <2>3. \A j \in sessions \ {id} : endpoint[j] # NULL => endpoint[j] \in Eps \ {endpoint[id]}
    BY <2>1 DEF OneOwner
  <2>4. QED
    BY <2>2, <2>3 DEF PairsBacked, RequestKnown
<1>8. ASSUME NEW forwards \in BOOLEAN, RelaySession(c, id, forwards) PROVE Backed'
  BY <1>8, EraseBacked DEF RelaySession, RelayAccepted
<1>9. CASE StopSession(c, id)
  <2>1. CASE id \in sessions /\ EraseSession(id)
    BY <1>9, <2>1, EraseBacked DEF StopSession
  <2>2. CASE ~(id \in sessions /\ EraseSession(id))
    BY <1>9, <2>2 DEF StopSession, sessionVars, eiceVars, PairsBacked, RequestKnown
  <2>3. QED
    BY <2>1, <2>2
<1>10. QED
  BY <1>1, <1>2, <1>3, <1>4, <1>5, <1>6, <1>7, <1>8, <1>9 DEF Command

\* Every step keeps the results backed.
LEMMA BackedStep == IInv /\ Backed /\ [Next]_vars => Backed'
<1> SUFFICES ASSUME IInv, Backed, [Next]_vars PROVE Backed'
  OBVIOUS
<1>a. TypeOK /\ Table /\ OneOwner
  BY DEF IInv, Table
<1>1. ASSUME NEW c \in Conns, Accept(c) PROVE Backed'
  BY <1>1 DEF Accept, sessionVars, eiceVars, Backed, PairsBacked, RequestKnown
<1>2. ASSUME NEW c \in Conns, NEW id \in Ids, Command(c, id) PROVE Backed'
  BY <1>2, CommandBacked
<1>3. ASSUME NEW ep \in Eps, WorkerStep(ep) PROVE Backed'
  <2>1. /\ \A e \in Eps : nego[e] = "ok" => nego'[e] = "ok"
        /\ UNCHANGED <<connections, sessionVars>>
    BY <1>3, <1>a DEF WorkerStep, NegoComplete, NegoTimeout, ConfComplete, TypeOK
  <2>2. QED
    BY <1>a, <2>1 DEF sessionVars, Backed, PairsBacked, RequestKnown, TypeOK
<1>4. CASE RunCall
  <2>1. CASE GetNegoResultGone \/ GetNegoResultAborts
    BY <2>1 DEF GetNegoResultGone, GetNegoResultAborts, sessionVars, eiceVars, Backed, PairsBacked,
                RequestKnown
  <2>2. ASSUME NEW id \in Ids, NEW fits \in BOOLEAN, GetNegoResult(id, fits) PROVE Backed'
    <3>1. /\ UNCHANGED <<connections, sessions, endpoint, request, nego>>
          /\ endpoint[id] = Head(calls).ep
          /\ iceResult' = [iceResult EXCEPT ![id] = NegoResult(endpoint[id])]
      BY <2>2 DEF GetNegoResult, Owners
    <3>2. NegoResult(endpoint[id]) = "pairs" => nego[endpoint[id]] = "ok"
      BY DEF NegoResult
    <3>3. QED
      BY <1>a, <3>1, <3>2 DEF Backed, PairsBacked, RequestKnown, TypeOK
  <2>3. QED
    BY <1>4, <2>1, <2>2 DEF RunCall
<1>5. CASE TimeoutCb
  BY <1>5, <1>a, EraseBacked DEF TimeoutCb, Expired
<1>6. CASE Tick
  BY <1>6 DEF Tick, eiceVars, Backed, PairsBacked, RequestKnown
<1>7. ASSUME NEW id \in Ids, ForwardExpires(id) PROVE Backed'
  BY <1>7 DEF ForwardExpires, sessionVars, eiceVars, Backed, PairsBacked, RequestKnown
<1>8. CASE UNCHANGED vars
  BY <1>8 DEF vars, sessionVars, eiceVars, Backed, PairsBacked, RequestKnown
<1>9. QED
  BY <1>1, <1>2, <1>3, <1>4, <1>5, <1>6, <1>7, <1>8 DEF Next

\* Stored results stay backed, and sessions keep a known connection.
THEOREM BackedAlways == Spec => [](IInv /\ Backed)
<1>1. Init => Backed
  BY DEF Init, Backed, PairsBacked, RequestKnown
<1>2. QED
  BY <1>1, InvStep, BackedStep, Invariance, PTL DEF Spec

\* RELAY_SESSION starts forwarding only for a session whose own endpoint
\* succeeded and whose CCS was sent ICE_RESULT, for any number of sessions.
THEOREM ForwardSound == Spec => ForwardNeedsOutcome
<1>1. ASSUME IInv, Backed, [Next]_vars
      PROVE  [\A id \in forwarding' \ forwarding :
                /\ id \in sessions /\ endpoint[id] # NULL
                /\ nego[endpoint[id]] = "ok"
                /\ ICE_OP_ICE_RESULT \in told[id]]_vars
  <2>1. \/ forwarding' \subseteq forwarding
        \/ \E c \in Conns, id \in Ids, forwards \in BOOLEAN : RelaySession(c, id, forwards)
    <3>1. ASSUME NEW c \in Conns, NEW id \in Ids, Command(c, id)
          PROVE  \/ UNCHANGED forwarding
                 \/ \E forwards \in BOOLEAN : RelaySession(c, id, forwards)
      BY <3>1
      DEF Command, PrepareFails, PrepareSession, StartSession, JoinFails, JoinSession,
          RelayCrashes, RelayRefused, StopSession
    <3>2. ASSUME NEW ep \in Eps, WorkerStep(ep) PROVE UNCHANGED forwarding
      BY <3>2 DEF WorkerStep, NegoComplete, NegoTimeout, ConfComplete
    <3>3. CASE RunCall
      BY <3>3 DEF RunCall, GetNegoResultGone, GetNegoResultAborts, GetNegoResult
    <3>4. QED
      BY <1>1, <3>1, <3>2, <3>3 DEF Next, Accept, TimeoutCb, Tick, ForwardExpires, vars
  <2>2. ASSUME NEW c \in Conns, NEW id \in Ids, NEW forwards \in BOOLEAN,
               RelaySession(c, id, forwards)
        PROVE  /\ forwarding' \ forwarding \subseteq {id}
               /\ id \in sessions /\ endpoint[id] # NULL
               /\ nego[endpoint[id]] = "ok"
               /\ ICE_OP_ICE_RESULT \in told[id]
    <3>1. /\ id \in sessions /\ endpoint[id] # NULL /\ iceResult[id] = "pairs"
          /\ curStatus[id] = ICE_OP_ICE_RESULT
          /\ forwarding' \ forwarding \subseteq {id}
      BY <2>2, CheckStatusCases DEF RelaySession, RelayAccepted
    <3>2. QED
      BY <1>1, <3>1 DEF IInv, Table, ResultBacked, Backed, PairsBacked
  <2>3. QED
    BY <2>1, <2>2
<1>2. QED
  BY <1>1, BackedAlways, PTL DEF Spec, ForwardNeedsOutcome

\* A fresh call for a session's endpoint survives whatever keeps the fresh
\* calls of that endpoint in the queue.
CallKept(ep) ==
  (\E i \in DOMAIN calls : calls[i].fresh /\ calls[i].ep = ep) =>
    \E i \in DOMAIN calls' : calls'[i].fresh /\ calls'[i].ep = ep

\* eice_free of another object keeps the fresh calls of an endpoint.
LEMMA FreeKeepsCalls ==
  ASSUME TypeOK, NEW ep \in Eps, NEW freed \in Eps \cup {NULL}, freed # ep, EiceFree(freed)
  PROVE  CallKept(ep)
<1>1. CASE freed = NULL
  BY <1>1 DEF EiceFree, eiceVars, CallKept
<1>2. CASE freed # NULL
  <2>1. calls' = MarkStale(freed) /\ freed \in Eps
    BY <1>2 DEF EiceFree
  <2>2. DOMAIN calls' = DOMAIN calls
    BY <2>1, MarkStaleProperties DEF TypeOK, Call
  <2>3. \A i \in DOMAIN calls : calls[i].ep = ep => calls'[i] = calls[i]
    BY <2>1 DEF MarkStale
  <2>4. QED
    BY <2>2, <2>3 DEF CallKept
<1>3. QED
  BY <1>1, <1>2

\* Appending a call keeps the fresh calls of every endpoint.
LEMMA AppendKeepsCalls ==
  ASSUME TypeOK, NEW ep \in Eps, NEW call \in Call, calls' = Append(calls, call)
  PROVE  CallKept(ep)
<1>1. /\ DOMAIN calls = 1 .. Len(calls) /\ Len(calls) \in Nat
      /\ DOMAIN calls' = 1 .. Len(calls) + 1
      /\ \A i \in 1 .. Len(calls) : calls'[i] = calls[i]
  BY DEF TypeOK, Call
<1>2. QED
  BY <1>1 DEF CallKept

\* Running the first call keeps the fresh calls of the endpoints it is not for.
LEMMA TailKeepsCalls ==
  ASSUME TypeOK, NEW ep \in Eps, calls # <<>>, Head(calls).ep # ep, calls' = Tail(calls)
  PROVE  CallKept(ep)
<1>1. /\ DOMAIN calls = 1 .. Len(calls) /\ Len(calls) \in Nat
      /\ DOMAIN calls' = 1 .. Len(calls) - 1
      /\ \A i \in 1 .. Len(calls) - 1 : calls'[i] = calls[i + 1]
      /\ Head(calls) = calls[1]
  BY DEF TypeOK
<1>2. ASSUME NEW i \in DOMAIN calls, calls[i].fresh, calls[i].ep = ep
      PROVE  \E k \in DOMAIN calls' : calls'[k].fresh /\ calls'[k].ep = ep
  <2>1. i # 1
    BY <1>1, <1>2
  <2>2. i - 1 \in DOMAIN calls' /\ calls'[i - 1] = calls[i]
    BY <1>1, <2>1
  <2>3. QED
    BY <1>2, <2>2
<1>3. QED
  BY <1>2 DEF CallKept

\* The fate of session id, whose outcome is queued, in one step.
Kept(id) ==
  /\ id \in sessions' /\ endpoint'[id] = endpoint[id] /\ curStatus'[id] = curStatus[id]
  /\ CallKept(endpoint[id])
Settled(id) == ICE_OP_ICE_RESULT \in told'[id] \/ curStatus'[id] \in {ICE_OP_NON, ICE_OP_END}

\* Erasing a session settles it and keeps every other one.
LEMMA EraseKeeps ==
  ASSUME TypeOK, OneOwner, NEW id \in sessions, endpoint[id] \in Eps, NEW j \in sessions,
         EraseSession(j)
  PROVE  Kept(id) \/ Settled(id)
<1>1. id \in Ids /\ j \in Ids
  BY DEF TypeOK
<1>2. CASE id = j
  BY <1>1, <1>2 DEF EraseSession, Settled, TypeOK
<1>3. CASE id # j
  <2>1. endpoint[j] # endpoint[id] /\ endpoint[j] \in Eps \cup {NULL}
    BY <1>1, <1>3, NullAssumption DEF OneOwner, TypeOK
  <2>2. CallKept(endpoint[id])
    BY <2>1, FreeKeepsCalls DEF EraseSession
  <2>3. QED
    BY <1>1, <1>3, <2>2 DEF EraseSession, Kept, TypeOK
<1>4. QED
  BY <1>2, <1>3

\* A command settles the session it names or leaves it waiting, and leaves
\* every other session waiting.
LEMMA CommandKeeps ==
  ASSUME IInv, NEW id \in Ids, OutcomeQueued(id), endpoint[id] \in Eps,
         NEW c \in Conns, NEW j \in Ids, Command(c, j)
  PROVE  Kept(id) \/ Settled(id)
<1>a. /\ TypeOK /\ OneOwner
      /\ id \in sessions /\ curStatus[id] \in {ICE_OP_START_SESSION, ICE_OP_JOIN_SESSION}
  BY DEF IInv, Table, OutcomeQueued
<1>b. calls' = calls => CallKept(endpoint[id])
  BY DEF CallKept
<1> USE <1>a
<1>1. CASE PrepareFails(c, j) \/ JoinFails(c, j)
  BY <1>1, <1>b DEF PrepareFails, JoinFails, NewSession, setStatus, eiceVars, Kept, TypeOK
<1>2. ASSUME NEW ep \in Eps, NEW n \in {"idle", "skipped"}, NEW fits \in BOOLEAN,
             PrepareSession(c, j, ep, n, fits)
      PROVE  Kept(id)
  BY <1>2, <1>b DEF PrepareSession, NewSession, sendCommand, setStatus, Kept, TypeOK
<1>3. ASSUME NEW n \in {"idle", "skipped", "running"}, NEW r \in {"none", "pending"},
             StartSession(c, j, n, r)
      PROVE  Kept(id)
  <2>1. j # id
    BY <1>3, CheckStatusCases DEF StartSession
  <2>2. QED
    BY <1>3, <1>b, <2>1 DEF StartSession, setStatus, Kept, TypeOK
<1>4. ASSUME NEW ep \in Eps, NEW n \in {"skipped", "running"}, NEW r \in {"none", "pending"},
             NEW fits \in BOOLEAN, JoinSession(c, j, ep, n, r, fits)
      PROVE  Kept(id)
  BY <1>4, <1>b DEF JoinSession, NewSession, setStatus, Kept, TypeOK
<1>5. CASE RelayCrashes(c, j)
  BY <1>5, <1>b DEF RelayCrashes, sessionVars, eiceVars, Kept
<1>6. CASE RelayRefused(c, j)
  <2>1. j \in sessions /\ j # id /\ endpoint[j] # NULL
    BY <1>6, CheckStatusCases DEF RelayRefused, RelayAccepted
  <2>2. endpoint[j] # endpoint[id] /\ endpoint[j] \in Eps \cup {NULL}
    BY <2>1 DEF OneOwner, TypeOK
  <2>3. CallKept(endpoint[id])
    BY <1>6, <2>2, FreeKeepsCalls DEF RelayRefused
  <2>4. QED
    BY <1>6, <2>1, <2>3 DEF RelayRefused, Kept, TypeOK
<1>7. ASSUME NEW forwards \in BOOLEAN, RelaySession(c, j, forwards)
      PROVE  Kept(id) \/ Settled(id)
  BY <1>7, EraseKeeps DEF RelaySession, RelayAccepted
<1>8. CASE StopSession(c, j)
  <2>1. CASE j \in sessions /\ EraseSession(j)
    BY <2>1, EraseKeeps
  <2>2. CASE j \notin sessions
    BY <1>8, <1>b, <2>2 DEF StopSession, sessionVars, eiceVars, Kept
  <2>3. CASE j \in sessions /\ ~EraseSession(j)
    <3>1. /\ curStatus' = [curStatus EXCEPT ![j] = ICE_OP_END]
          /\ UNCHANGED <<sessions, endpoint, calls>>
      BY <1>8, <2>3 DEF StopSession, eiceVars
    <3>2. QED
      BY <1>b, <3>1 DEF Kept, Settled, TypeOK
  <2>4. QED
    BY <2>1, <2>2, <2>3
<1>9. QED
  BY <1>1, <1>2, <1>3, <1>4, <1>5, <1>6, <1>7, <1>8 DEF Command

\* Running a call reports the outcome it is about and keeps the others.
LEMMA RunCallKeeps ==
  ASSUME IInv, Backed, NEW id \in Ids, OutcomeQueued(id), endpoint[id] \in Eps, RunCall
  PROVE  Kept(id) \/ Settled(id)
<1>a. TypeOK /\ OneOwner /\ id \in sessions
  BY DEF IInv, Table, OutcomeQueued
<1>1. CASE GetNegoResultGone
  <2>1. Head(calls).ep # endpoint[id]
    BY <1>1, <1>a DEF GetNegoResultGone, Owners
  <2>2. QED
    BY <1>1, <1>a, <2>1, TailKeepsCalls DEF GetNegoResultGone, sessionVars, Kept
<1>2. CASE GetNegoResultAborts
  BY <1>2, <1>a DEF GetNegoResultAborts, sessionVars, eiceVars, Kept, CallKept
<1>3. ASSUME NEW j \in Ids, NEW fits \in BOOLEAN, GetNegoResult(j, fits)
      PROVE  Kept(id) \/ Settled(id)
  <2>1. j \in sessions /\ endpoint[j] = Head(calls).ep
    BY <1>3 DEF GetNegoResult, Owners
  <2>2. sendCommand(j, ICE_OP_ICE_RESULT, fits)
    BY <1>3, <2>1 DEF GetNegoResult, Backed, RequestKnown
  <2>3. CASE j = id
    BY <1>a, <2>2, <2>3 DEF sendCommand, setStatus, Settled, TypeOK
  <2>4. CASE j # id
    <3>1. Head(calls).ep # endpoint[id]
      BY <1>a, <2>1, <2>4, NullAssumption DEF OneOwner
    <3>2. CallKept(endpoint[id])
      BY <1>3, <1>a, <3>1, TailKeepsCalls DEF GetNegoResult
    <3>3. QED
      BY <1>3, <1>a, <2>2, <2>4, <3>2 DEF GetNegoResult, sendCommand, setStatus, Kept, TypeOK
  <2>5. QED
    BY <2>3, <2>4
<1>4. QED
  BY <1>1, <1>2, <1>3 DEF RunCall

\* The outcome queued for a waiting session is never dropped silently: it
\* leaves the queue by ICE_RESULT, or the session ended or went away, for any
\* number of sessions, connections and queued calls.
THEOREM NotDropped == Spec => OutcomeNotDropped
<1>1. ASSUME IInv, Backed, [Next]_vars
      PROVE  [\A id \in Ids : OutcomeQueued(id) /\ ~OutcomeQueued(id)' =>
                \/ ICE_OP_ICE_RESULT \in told'[id]
                \/ curStatus'[id] \in {ICE_OP_NON, ICE_OP_END}]_vars
  <2>1. ASSUME NEW id \in Ids, OutcomeQueued(id), UNCHANGED vars PROVE OutcomeQueued(id)'
    BY <2>1 DEF vars, sessionVars, eiceVars, OutcomeQueued
  <2>2. ASSUME NEW id \in Ids, OutcomeQueued(id), Next PROVE Kept(id) \/ Settled(id)
    <3>a. TypeOK /\ OneOwner /\ id \in sessions
      BY <1>1, <2>2 DEF IInv, Table, OutcomeQueued
    <3>b. endpoint[id] \in Eps
      BY <2>2, <3>a, QueuedEps DEF OutcomeQueued
    <3>c. calls' = calls => CallKept(endpoint[id])
      BY DEF CallKept
    <3>1. ASSUME NEW c \in Conns, Accept(c) PROVE Kept(id)
      BY <3>1, <3>a, <3>c DEF Accept, sessionVars, eiceVars, Kept
    <3>2. ASSUME NEW c \in Conns, NEW j \in Ids, Command(c, j) PROVE Kept(id) \/ Settled(id)
      BY <1>1, <2>2, <3>2, <3>b, CommandKeeps
    <3>3. ASSUME NEW ep \in Eps, WorkerStep(ep) PROVE Kept(id)
      <4>1. UNCHANGED sessionVars
        BY <3>3 DEF WorkerStep, NegoComplete, NegoTimeout, ConfComplete
      <4>2. calls' = calls \/ calls' = Append(calls, [ep |-> ep, fresh |-> TRUE])
        BY <3>3 DEF WorkerStep, NegoComplete, NegoTimeout, ConfComplete
      <4>3. [ep |-> ep, fresh |-> TRUE] \in Call
        BY DEF Call
      <4>4. CallKept(endpoint[id])
        BY <3>a, <3>b, <3>c, <4>2, <4>3, AppendKeepsCalls
      <4>5. QED
        BY <3>a, <4>1, <4>4 DEF sessionVars, Kept
    <3>4. CASE RunCall
      BY <1>1, <2>2, <3>4, <3>b, RunCallKeeps
    <3>5. CASE TimeoutCb
      BY <3>5, <3>a, <3>b, EraseKeeps DEF TimeoutCb, Expired
    <3>6. CASE Tick
      BY <3>6, <3>a, <3>c DEF Tick, eiceVars, Kept
    <3>7. ASSUME NEW j \in Ids, ForwardExpires(j) PROVE Kept(id)
      BY <3>7, <3>a, <3>c DEF ForwardExpires, sessionVars, eiceVars, Kept
    <3>8. QED
      BY <2>2, <3>1, <3>2, <3>3, <3>4, <3>5, <3>6, <3>7 DEF Next
  <2>3. ASSUME NEW id \in Ids, OutcomeQueued(id), Kept(id) PROVE OutcomeQueued(id)'
    BY <2>3 DEF OutcomeQueued, Kept, CallKept
  <2>4. QED
    BY <1>1, <2>1, <2>2, <2>3 DEF Settled
<1>2. QED
  BY <1>1, BackedAlways, PTL DEF Spec, OutcomeNotDropped
-------------------------------------------------------------------------------
(***************************************************************************)
(* The life of an eice object as Endpoint describes it, at one address: it *)
(* is made, started when nothing was under way, ends its negotiation once  *)
(* and its relay once, and is freed.                                       *)
(***************************************************************************)
LifeStep(ep) ==
  \/ nego'[ep] = nego[ep] /\ conf'[ep] = conf[ep]
  \/ /\ nego[ep] = "free" /\ conf[ep] = "none"
     /\ nego'[ep] \in {"idle", "skipped", "running"} /\ conf'[ep] \in {"none", "pending"}
  \/ /\ nego[ep] \in {"idle", "skipped"} /\ conf[ep] = "none"
     /\ nego'[ep] \in StartOutcomes(nego[ep]) /\ conf'[ep] \in {"none", "pending"}
  \/ /\ nego[ep] = "running" /\ nego'[ep] \in {"ok", "failed"}
     /\ \/ conf'[ep] = conf[ep]
        \/ nego'[ep] = "ok" /\ conf[ep] = "pending" /\ conf'[ep] = "failed"
  \/ nego'[ep] = nego[ep] /\ conf[ep] = "pending" /\ conf'[ep] \in {"ok", "failed"}
  \/ nego[ep] # "free" /\ nego'[ep] = "free" /\ conf'[ep] = "none"

\* eice_free of the object of a session is the end of its life, and of no other's.
LEMMA FreeLife ==
  ASSUME IInv, NEW id \in sessions, EiceFree(endpoint[id]), NEW ep \in Eps
  PROVE  LifeStep(ep)
<1>1. TypeOK /\ OneOwner /\ FreshCallHasOutcome /\ endpoint[id] \in Eps \cup {NULL}
  BY DEF IInv, Table, TypeOK
<1>2. /\ nego'[ep] = IF ep = endpoint[id] THEN "free" ELSE nego[ep]
      /\ conf'[ep] = IF ep = endpoint[id] THEN "none" ELSE conf[ep]
  BY <1>1, EiceFreeFacts
<1>3. ep = endpoint[id] => nego[ep] # "free"
  BY <1>1 DEF OneOwner
<1>4. QED
  BY <1>2, <1>3 DEF LifeStep

\* The commands of the CCS use every object in the order of its life.
LEMMA CommandLife ==
  ASSUME IInv, NEW c \in Conns, NEW id \in Ids, Command(c, id), NEW ep \in Eps
  PROVE  LifeStep(ep)
<1>a. /\ nego \in [Eps -> Negotiation] /\ conf \in [Eps -> Relay]
      /\ nego[ep] = "free" => conf[ep] = "none"
  BY DEF IInv, Table, TypeOK, Clean
<1>b. UNCHANGED <<nego, conf>> => LifeStep(ep)
  BY DEF LifeStep
<1>1. CASE PrepareFails(c, id) \/ JoinFails(c, id) \/ RelayCrashes(c, id)
  BY <1>1, <1>b DEF PrepareFails, JoinFails, RelayCrashes, eiceVars
<1>2. ASSUME NEW e \in Eps, NEW n \in {"idle", "skipped"}, NEW fits \in BOOLEAN,
             PrepareSession(c, id, e, n, fits)
      PROVE  LifeStep(ep)
  <2>1. nego[e] = "free" /\ nego' = [nego EXCEPT ![e] = n] /\ conf' = conf
    BY <1>2 DEF PrepareSession
  <2>2. QED
    BY <1>a, <2>1 DEF LifeStep
<1>3. ASSUME NEW n \in {"idle", "skipped", "running"}, NEW r \in {"none", "pending"},
             StartSession(c, id, n, r)
      PROVE  LifeStep(ep)
  <2>1. /\ id \in sessions
        /\ checkStatus(curStatus[id], ICE_OP_START_SESSION)
        /\ n \in StartOutcomes(nego[endpoint[id]])
        /\ nego' = [nego EXCEPT ![endpoint[id]] = n]
        /\ conf' = [conf EXCEPT ![endpoint[id]] = r]
    BY <1>3 DEF StartSession
  <2>2. curStatus[id] \in {ICE_OP_PREPARE_SESSION, ICE_OP_LOCAL_INFO} /\ curStatus[id] \in Status
    BY <2>1, CheckStatusCases DEF IInv, TypeOK
  <2>3. curStatus[id] = ICE_OP_LOCAL_INFO
    BY <2>2 DEF Status, ICE_OP_PREPARE_SESSION, ICE_OP_LOCAL_INFO, ICE_OP_NON, ICE_OP_START_SESSION,
                ICE_OP_JOIN_SESSION, ICE_OP_ICE_RESULT, ICE_OP_END
  <2>4. nego[endpoint[id]] \in {"idle", "skipped"} /\ conf[endpoint[id]] = "none"
    BY <2>1, <2>3 DEF IInv, Table, StartsOnce
  <2>5. CASE ep = endpoint[id]
    BY <1>a, <2>1, <2>4, <2>5 DEF LifeStep
  <2>6. CASE ep # endpoint[id]
    BY <1>a, <2>1, <2>6 DEF LifeStep
  <2>7. QED
    BY <2>5, <2>6
<1>4. ASSUME NEW e \in Eps, NEW n \in {"skipped", "running"}, NEW r \in {"none", "pending"},
             NEW fits \in BOOLEAN, JoinSession(c, id, e, n, r, fits)
      PROVE  LifeStep(ep)
  <2>1. nego[e] = "free" /\ nego' = [nego EXCEPT ![e] = n] /\ conf' = [conf EXCEPT ![e] = r]
    BY <1>4 DEF JoinSession
  <2>2. QED
    BY <1>a, <2>1 DEF LifeStep
<1>5. CASE RelayRefused(c, id)
  BY <1>5, FreeLife DEF RelayRefused, RelayAccepted
<1>6. ASSUME NEW forwards \in BOOLEAN, RelaySession(c, id, forwards) PROVE LifeStep(ep)
  BY <1>6, FreeLife DEF RelaySession, RelayAccepted, EraseSession
<1>7. CASE StopSession(c, id)
  BY <1>7, <1>b, FreeLife DEF StopSession, EraseSession, eiceVars
<1>8. QED
  BY <1>1, <1>2, <1>3, <1>4, <1>5, <1>6, <1>7 DEF Command

(***************************************************************************)
(* At every address the service, the workers and the reaping timer treat   *)
(* the eice object as Endpoint describes it: nothing is started after it   *)
(* was started, an outcome of the negotiation or of the relay is final     *)
(* until eice_free, and nothing happens at a free address, whichever       *)
(* session, stale call or reused address is involved.                      *)
(***************************************************************************)
THEOREM EndpointLife == Spec => [][\A ep \in Eps : LifeStep(ep)]_vars
<1>1. ASSUME IInv, [Next]_vars PROVE [\A ep \in Eps : LifeStep(ep)]_vars
  <2> SUFFICES ASSUME Next, NEW ep \in Eps PROVE LifeStep(ep)
    BY <1>1
  <2>a. nego \in [Eps -> Negotiation] /\ conf \in [Eps -> Relay]
    BY <1>1 DEF IInv, TypeOK
  <2>b. UNCHANGED <<nego, conf>> => LifeStep(ep)
    BY DEF LifeStep
  <2>1. ASSUME NEW c \in Conns, Accept(c) PROVE LifeStep(ep)
    BY <2>1, <2>b DEF Accept, eiceVars
  <2>2. ASSUME NEW c \in Conns, NEW id \in Ids, Command(c, id) PROVE LifeStep(ep)
    BY <1>1, <2>2, CommandLife
  <2>3. ASSUME NEW e \in Eps, WorkerStep(e) PROVE LifeStep(ep)
    <3>1. ASSUME NEW r \in {"ok", "failed"}, NegoComplete(e, r) PROVE LifeStep(ep)
      BY <3>1, <2>a DEF NegoComplete, LifeStep
    <3>2. CASE NegoTimeout(e)
      BY <3>2, <2>a DEF NegoTimeout, LifeStep
    <3>3. ASSUME NEW r \in {"ok", "failed"}, ConfComplete(e, r) PROVE LifeStep(ep)
      BY <3>3, <2>a DEF ConfComplete, LifeStep
    <3>4. QED
      BY <2>3, <3>1, <3>2, <3>3 DEF WorkerStep
  <2>4. CASE RunCall
    BY <2>4, <2>b DEF RunCall, GetNegoResultGone, GetNegoResultAborts, GetNegoResult, eiceVars
  <2>5. CASE TimeoutCb
    BY <1>1, <2>5, FreeLife DEF TimeoutCb, Expired, EraseSession
  <2>6. CASE Tick
    BY <2>6, <2>b DEF Tick, eiceVars
  <2>7. ASSUME NEW id \in Ids, ForwardExpires(id) PROVE LifeStep(ep)
    BY <2>7, <2>b DEF ForwardExpires, eiceVars
  <2>8. QED
    BY <2>1, <2>2, <2>3, <2>4, <2>5, <2>6, <2>7 DEF Next
<1>2. QED
  BY <1>1, Invariance, PTL DEF Spec
==============================================================================
