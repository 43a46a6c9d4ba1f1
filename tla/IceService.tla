------------------------------ MODULE IceService ------------------------------
(***************************************************************************)
(* IceService (IceService.cpp): the session table of the bridge server.    *)
(*                                                                         *)
(* The loop thread handles the commands of the conference control servers  *)
(* (CCS), the 60 s reaping timer and the functors queued by the ICE worker *)
(* threads; every handler is one action.  The worker threads finish a      *)
(* negotiation, or run into its 4 s timer, between any two handlers; the   *)
(* call they queue is the functor getNegoResult(obj), which names its      *)
(* endpoint by the address of the eice object.  Freed addresses are handed *)
(* out again by malloc.                                                    *)
(*                                                                         *)
(* The queue of functors is the one CallQueue specifies and                *)
(* EventThreadCall implements.  An eice object is seen here through the    *)
(* two facts the service reads: how far its negotiation (nego) and its     *)
(* conference relay (conf) are.                                            *)
(***************************************************************************)
EXTENDS Naturals, Sequences, FiniteSets

CONSTANTS
  Ids,          \* session ids chosen by the CCS, ordered as in std::map
  Conns,        \* Connection objects
  Eps,          \* addresses of eice objects
  NULL,
  AliveTime,    \* SESSION_ALIVE_CHECK_TIME in clock ticks
  MaxPending,   \* bound of the model: functors waiting in the queue
  MaxCommands   \* bound of the model: commands received from the CCS

ASSUME IdsAssumption == Ids \subseteq Nat
ASSUME NullAssumption == NULL \notin Eps /\ NULL \notin Conns
ASSUME BoundsAssumption == /\ AliveTime \in Nat \ {0}
                           /\ MaxPending \in Nat
                           /\ MaxCommands \in Nat

ICE_OP_NON == 0
ICE_OP_PREPARE_SESSION == 1
ICE_OP_LOCAL_INFO == 2
ICE_OP_START_SESSION == 3
ICE_OP_JOIN_SESSION == 4
ICE_OP_ICE_RESULT == 5
ICE_OP_RELAY_SESSION == 6
ICE_OP_STOP_SESSION == 7
ICE_OP_END == 50

VARIABLES
  connections,  \* TcpServer::connections_
  sessions,     \* the keys of sessions_
  endpoint,     \* IceSession::endpoint
  request,      \* IceSession::request
  curStatus,    \* IceSession::curStatus
  age,          \* ticks since IceSession::curTime, counted up to MaxAge
  iceResult,    \* what IceSession::iceResult holds
  nego,         \* per address: "free", or how far the ICE negotiation is
  conf,         \* per address: how far the conference relay is
  calls,        \* the queued getNegoResult functors
  forwarding,   \* ids whose media the ForwardService forwards
  commands,     \* commands received so far
  crashed,      \* how the process died
  told          \* history: operations sent to the CCS for a session

sessionVars == <<sessions, endpoint, request, curStatus, age, iceResult>>
eiceVars == <<nego, conf, calls>>
vars == <<connections, sessionVars, eiceVars, forwarding, commands, crashed, told>>

Status == {ICE_OP_NON, ICE_OP_LOCAL_INFO, ICE_OP_START_SESSION, ICE_OP_JOIN_SESSION,
           ICE_OP_ICE_RESULT, ICE_OP_END}
\* "skipped": ICE is switched off (force_relay), which counts as done
Negotiation == {"free", "idle", "skipped", "running", "ok", "failed"}
Relay == {"none", "pending", "ok", "failed"}
Result == {"none", "pairs", "relay_pairs", "failure"}

\* A session older than this is reaped whatever its status.
MaxAge == 2 * AliveTime + 1

Init ==
  /\ connections = {}
  /\ sessions = {}
  /\ endpoint = [id \in Ids |-> NULL]
  /\ request = [id \in Ids |-> NULL]
  /\ curStatus = [id \in Ids |-> ICE_OP_NON]
  /\ age = [id \in Ids |-> 0]
  /\ iceResult = [id \in Ids |-> "none"]
  /\ nego = [ep \in Eps |-> "free"]
  /\ conf = [ep \in Eps |-> "none"]
  /\ calls = <<>>
  /\ forwarding = {}
  /\ commands = 0
  /\ crashed = "no"
  /\ told = [id \in Ids |-> {}]

-------------------------------------------------------------------------------
(* Helpers *)

\* Mutant: a status that RELAY_SESSION does not test.
checkStatusRelayAlways(cur, new) ==
  CASE new = ICE_OP_NON -> FALSE
    [] new \in {ICE_OP_PREPARE_SESSION, ICE_OP_JOIN_SESSION} -> cur = ICE_OP_NON
    [] new = ICE_OP_LOCAL_INFO -> cur \in {ICE_OP_JOIN_SESSION, ICE_OP_PREPARE_SESSION}
    [] new = ICE_OP_START_SESSION -> cur \in {ICE_OP_PREPARE_SESSION, ICE_OP_LOCAL_INFO}
    [] OTHER -> TRUE

\* checkStatus: may new be committed after cur?
checkStatus(cur, new) ==
  CASE new = ICE_OP_NON -> FALSE
    [] new \in {ICE_OP_PREPARE_SESSION, ICE_OP_JOIN_SESSION} -> cur = ICE_OP_NON
    [] new = ICE_OP_LOCAL_INFO -> cur \in {ICE_OP_JOIN_SESSION, ICE_OP_PREPARE_SESSION}
    [] new = ICE_OP_START_SESSION -> cur \in {ICE_OP_PREPARE_SESSION, ICE_OP_LOCAL_INFO}
    [] new = ICE_OP_RELAY_SESSION -> cur = ICE_OP_ICE_RESULT
    [] OTHER -> TRUE

\* IceSession::setStatus
setStatus(id, status) ==
  /\ curStatus' = [curStatus EXCEPT ![id] = status]
  /\ age' = [age EXCEPT ![id] = 0]

\* Mutant: the status does not tell whether the data fitted.
sendCommandSetsStatusFirst(id, op, fits) ==
  /\ setStatus(id, op)
  /\ told' = [told EXCEPT ![id] = IF fits THEN @ \cup {op} ELSE @]

\* sendCommand: the status follows the operation, or ends the session when the
\* data does not fit the command buffer; a failed send is only logged.
sendCommand(id, op, fits) ==
  /\ setStatus(id, IF fits THEN op ELSE ICE_OP_END)
  /\ told' = [told EXCEPT ![id] = IF fits THEN @ \cup {op} ELSE @]

\* Queued calls keep naming the address of a freed object.
MarkStale(ep) ==
  [i \in DOMAIN calls |->
     IF calls[i].ep = ep THEN [calls[i] EXCEPT !.fresh = FALSE] ELSE calls[i]]

\* Mutant: the session forgets its endpoint instead of freeing it.
EiceFreeForgotten(ep) == UNCHANGED eiceVars

\* eice_free: the worker is joined first, and what it queued stays queued.
EiceFree(ep) ==
  IF ep = NULL
    THEN UNCHANGED eiceVars
    ELSE /\ nego' = [nego EXCEPT ![ep] = "free"]
         /\ conf' = [conf EXCEPT ![ep] = "none"]
         /\ calls' = MarkStale(ep)

\* sessions_.erase(it); ~IceSession frees the endpoint.
EraseSession(id) ==
  /\ sessions' = sessions \ {id}
  /\ endpoint' = [endpoint EXCEPT ![id] = NULL]
  /\ request' = [request EXCEPT ![id] = NULL]
  /\ curStatus' = [curStatus EXCEPT ![id] = ICE_OP_NON]
  /\ age' = [age EXCEPT ![id] = 0]
  /\ iceResult' = [iceResult EXCEPT ![id] = "none"]
  /\ told' = [told EXCEPT ![id] = {}]
  /\ EiceFree(endpoint[id])

\* sessions_[id]: a new entry that remembers where it came from.
NewSession(c, id) ==
  /\ sessions' = sessions \cup {id}
  /\ request' = [request EXCEPT ![id] = c]

\* A CCS connection hands one command to handleIceCommand.
Receive(c) ==
  /\ crashed = "no"
  /\ c \in connections
  /\ commands < MaxCommands
  /\ commands' = commands + 1

-------------------------------------------------------------------------------
(* Connections: an accepted connection stays in connections_ (see TcpServer). *)

Accept(c) ==
  /\ crashed = "no"
  /\ c \notin connections
  /\ connections' = connections \cup {c}
  /\ UNCHANGED <<sessionVars, eiceVars, forwarding, commands, crashed, told>>

-------------------------------------------------------------------------------
(* Commands of the CCS *)

\* PREPARE_SESSION, and eice_new_caller fails
PrepareFails(c, id) ==
  /\ Receive(c)
  /\ id \notin sessions
  /\ NewSession(c, id)
  /\ setStatus(id, ICE_OP_END)
  /\ UNCHANGED <<connections, endpoint, iceResult, eiceVars, forwarding, crashed, told>>

\* PREPARE_SESSION: a new endpoint gathers candidates, LOCAL_INFO answers
PrepareSession(c, id, ep, n, fits) ==
  /\ Receive(c)
  /\ id \notin sessions
  /\ nego[ep] = "free"
  /\ NewSession(c, id)
  /\ endpoint' = [endpoint EXCEPT ![id] = ep]
  /\ nego' = [nego EXCEPT ![ep] = n]
  /\ sendCommand(id, ICE_OP_LOCAL_INFO, fits)
  /\ UNCHANGED <<connections, iceResult, conf, calls, forwarding, crashed>>

\* eice_start_nego on an endpoint in state n: it starts, fails, or skips ICE
StartOutcomes(n) == IF n = "skipped" THEN {"skipped"} ELSE {"idle", "running"}

\* START_SESSION: eice_caller_nego; an error return is only logged
StartSession(c, id, n, r) ==
  /\ Receive(c)
  /\ id \in sessions
  /\ checkStatus(curStatus[id], ICE_OP_START_SESSION)
  /\ n \in StartOutcomes(nego[endpoint[id]])
  /\ nego' = [nego EXCEPT ![endpoint[id]] = n]
  /\ conf' = [conf EXCEPT ![endpoint[id]] = r]
  /\ setStatus(id, ICE_OP_START_SESSION)
  /\ UNCHANGED <<connections, sessions, endpoint, request, iceResult, calls, forwarding,
                 crashed, told>>

\* JOIN_SESSION, and eice_new_callee fails: the entry stays in JOIN_SESSION
JoinFails(c, id) ==
  /\ Receive(c)
  /\ id \notin sessions
  /\ NewSession(c, id)
  /\ setStatus(id, ICE_OP_JOIN_SESSION)
  /\ UNCHANGED <<connections, endpoint, iceResult, eiceVars, forwarding, crashed, told>>

\* Mutant: the status is left at LOCAL_INFO.
JoinSessionKeepsLocalInfo(c, id, ep, n, r, fits) ==
  /\ Receive(c)
  /\ id \notin sessions
  /\ nego[ep] = "free"
  /\ NewSession(c, id)
  /\ endpoint' = [endpoint EXCEPT ![id] = ep]
  /\ nego' = [nego EXCEPT ![ep] = n]
  /\ conf' = [conf EXCEPT ![ep] = r]
  /\ sendCommand(id, ICE_OP_LOCAL_INFO, fits)
  /\ UNCHANGED <<connections, iceResult, calls, forwarding, crashed>>

\* JOIN_SESSION: the callee negotiates at once; the status ends up as
\* JOIN_SESSION even when LOCAL_INFO did not fit and was not sent
JoinSession(c, id, ep, n, r, fits) ==
  /\ Receive(c)
  /\ id \notin sessions
  /\ nego[ep] = "free"
  /\ NewSession(c, id)
  /\ endpoint' = [endpoint EXCEPT ![id] = ep]
  /\ nego' = [nego EXCEPT ![ep] = n]
  /\ conf' = [conf EXCEPT ![ep] = r]
  /\ setStatus(id, ICE_OP_JOIN_SESSION)
  /\ told' = [told EXCEPT ![id] = IF fits THEN @ \cup {ICE_OP_LOCAL_INFO} ELSE @]
  /\ UNCHANGED <<connections, iceResult, calls, forwarding, crashed>>

\* What RELAY_SESSION tests before it does anything
RelayAccepted(c, id) ==
  /\ Receive(c)
  /\ id \in sessions
  /\ checkStatus(curStatus[id], ICE_OP_RELAY_SESSION)

\* update_steal_sockets(NULL): the session lost its endpoint to an earlier RELAY
RelayCrashes(c, id) ==
  /\ RelayAccepted(c, id)
  /\ endpoint[id] = NULL
  /\ crashed' = "null_endpoint"
  /\ UNCHANGED <<connections, sessionVars, eiceVars, forwarding, told>>

\* the answer does not parse or its result is not 0: the endpoint is freed and
\* the session stays
RelayRefused(c, id) ==
  /\ RelayAccepted(c, id)
  /\ endpoint[id] # NULL
  /\ iceResult[id] = "pairs"
  /\ endpoint' = [endpoint EXCEPT ![id] = NULL]
  /\ EiceFree(endpoint[id])
  /\ UNCHANGED <<connections, sessions, request, curStatus, age, iceResult, forwarding,
                 crashed, told>>

\* forwarding starts and the session is erased, also when a member of the wrong
\* type throws on the way: forwards says whether the first stream was started
\* before that
RelaySession(c, id, forwards) ==
  /\ RelayAccepted(c, id)
  /\ endpoint[id] # NULL
  /\ iceResult[id] = "pairs"
  /\ EraseSession(id)
  /\ forwarding' = IF forwards THEN forwarding \cup {id} ELSE forwarding
  /\ UNCHANGED <<connections, crashed>>

\* STOP_SESSION: an ended session is erased, any other only marked as ended,
\* without touching its time
StopSession(c, id) ==
  /\ Receive(c)
  /\ \/ /\ id \notin sessions
        /\ UNCHANGED <<sessionVars, eiceVars, told>>
     \/ /\ id \in sessions
        /\ curStatus[id] > ICE_OP_ICE_RESULT
        /\ EraseSession(id)
     \/ /\ id \in sessions
        /\ curStatus[id] <= ICE_OP_ICE_RESULT
        /\ curStatus' = [curStatus EXCEPT ![id] = ICE_OP_END]
        /\ UNCHANGED <<sessions, endpoint, request, age, iceResult, eiceVars, told>>
  /\ UNCHANGED <<connections, forwarding, crashed>>

-------------------------------------------------------------------------------
(* The reaping timer *)

Expired(id) ==
  /\ id \in sessions
  /\ \/ curStatus[id] = ICE_OP_END /\ age[id] > AliveTime
     \/ age[id] > 2 * AliveTime

\* Mutant: only sessions that ended are reaped.
TimeoutCbEndedOnly ==
  /\ crashed = "no"
  /\ \E id \in Ids :
       /\ Expired(id) /\ curStatus[id] = ICE_OP_END
       /\ EraseSession(id)
  /\ UNCHANGED <<connections, forwarding, commands, crashed>>

\* timeout_cb: the first expired session in map order, and no other, is erased
TimeoutCb ==
  /\ crashed = "no"
  /\ \E id \in Ids :
       /\ Expired(id)
       /\ \A other \in Ids : other < id => ~Expired(other)
       /\ EraseSession(id)
  /\ UNCHANGED <<connections, forwarding, commands, crashed>>

\* time(NULL) advances by a tick, a fraction 1/AliveTime of 60 s: no negotiation
\* lasts that long, because its worker's timer ends it after 4 s
Tick ==
  /\ crashed = "no"
  /\ \A ep \in Eps : nego[ep] # "running"
  /\ age' = [id \in Ids |-> IF id \in sessions /\ age[id] < MaxAge THEN age[id] + 1 ELSE age[id]]
  /\ UNCHANGED <<connections, sessions, endpoint, request, curStatus, iceResult, eiceVars,
                 forwarding, commands, crashed, told>>

\* ForwardService::timeout_cb drops a forward that has been silent
ForwardExpires(id) ==
  /\ crashed = "no"
  /\ id \in forwarding
  /\ forwarding' = forwarding \ {id}
  /\ UNCHANGED <<connections, sessionVars, eiceVars, commands, crashed, told>>

-------------------------------------------------------------------------------
(* The worker thread of an endpoint *)

\* Mutant: the application is called before ice_nego_done is set.
NegoCompletePostsFirst(ep, r) ==
  /\ crashed = "no"
  /\ nego[ep] = "running"
  /\ Len(calls) < MaxPending
  /\ calls' = Append(calls, [ep |-> ep, fresh |-> TRUE])
  /\ UNCHANGED <<connections, sessionVars, nego, conf, forwarding, commands, crashed, told>>

\* cb_on_ice_complete: the outcome is stored, the relay cancelled on success,
\* and the application called - also when the relay is still at work
NegoComplete(ep, r) ==
  /\ crashed = "no"
  /\ nego[ep] = "running"
  /\ Len(calls) < MaxPending
  /\ nego' = [nego EXCEPT ![ep] = r]
  /\ conf' = [conf EXCEPT ![ep] = IF r = "ok" /\ @ = "pending" THEN "failed" ELSE @]
  /\ calls' = Append(calls, [ep |-> ep, fresh |-> TRUE])
  /\ UNCHANGED <<connections, sessionVars, forwarding, commands, crashed, told>>

\* timer_ice_cb: 4 s without an outcome count as failure; nobody is called
NegoTimeout(ep) ==
  /\ crashed = "no"
  /\ nego[ep] = "running"
  /\ nego' = [nego EXCEPT ![ep] = "failed"]
  /\ UNCHANGED <<connections, sessionVars, conf, calls, forwarding, commands, crashed, told>>

\* on_confice_complete: the relay reached its final state; nobody is called
ConfComplete(ep, r) ==
  /\ crashed = "no"
  /\ conf[ep] = "pending"
  /\ conf' = [conf EXCEPT ![ep] = r]
  /\ UNCHANGED <<connections, sessionVars, nego, calls, forwarding, commands, crashed, told>>

-------------------------------------------------------------------------------
(* getNegoResult, on the loop thread *)

\* findSesssionByEp
Owners(ep) == {id \in sessions : endpoint[id] = ep}

\* eice_get_nego_result returns 0
NegoKnown(ep) == nego[ep] \in {"skipped", "ok", "failed"} /\ conf[ep] # "pending"

\* the JSON eice_get_nego_result writes
NegoResult(ep) ==
  IF nego[ep] = "ok" THEN "pairs"
  ELSE IF conf[ep] = "ok" THEN "relay_pairs" ELSE "failure"

\* no session has this endpoint any more: the call is dropped
GetNegoResultGone ==
  /\ crashed = "no"
  /\ calls # <<>>
  /\ Owners(Head(calls).ep) = {}
  /\ calls' = Tail(calls)
  /\ UNCHANGED <<connections, sessionVars, nego, conf, forwarding, commands, crashed, told>>

\* assert(ret == 0 && session->iceResultLen > 0) fails
GetNegoResultAborts ==
  /\ crashed = "no"
  /\ calls # <<>>
  /\ Owners(Head(calls).ep) # {}
  /\ ~NegoKnown(Head(calls).ep)
  /\ crashed' = "nego_assert"
  /\ UNCHANGED <<connections, sessionVars, eiceVars, forwarding, commands, told>>

\* Mutant: the test of haveConnection is inverted.
GetNegoResultToTheGone(id, fits) ==
  /\ crashed = "no"
  /\ calls # <<>>
  /\ id \in Owners(Head(calls).ep)
  /\ NegoKnown(Head(calls).ep)
  /\ iceResult' = [iceResult EXCEPT ![id] = NegoResult(Head(calls).ep)]
  /\ IF request[id] \notin connections
       THEN sendCommand(id, ICE_OP_ICE_RESULT, fits)
       ELSE UNCHANGED <<curStatus, age, told>>
  /\ calls' = Tail(calls)
  /\ UNCHANGED <<connections, sessions, endpoint, request, nego, conf, forwarding, commands,
                 crashed>>

\* the result is stored and sent as ICE_RESULT, whatever the status was
GetNegoResult(id, fits) ==
  /\ crashed = "no"
  /\ calls # <<>>
  /\ id \in Owners(Head(calls).ep)
  /\ NegoKnown(Head(calls).ep)
  /\ iceResult' = [iceResult EXCEPT ![id] = NegoResult(Head(calls).ep)]
  /\ IF request[id] \in connections
       THEN sendCommand(id, ICE_OP_ICE_RESULT, fits)
       ELSE UNCHANGED <<curStatus, age, told>>
  /\ calls' = Tail(calls)
  /\ UNCHANGED <<connections, sessions, endpoint, request, nego, conf, forwarding, commands,
                 crashed>>

-------------------------------------------------------------------------------
Command(c, id) ==
  \/ PrepareFails(c, id)
  \/ \E ep \in Eps, n \in {"idle", "skipped"}, fits \in BOOLEAN : PrepareSession(c, id, ep, n, fits)
  \/ \E n \in {"idle", "skipped", "running"}, r \in {"none", "pending"} : StartSession(c, id, n, r)
  \/ JoinFails(c, id)
  \/ \E ep \in Eps, n \in {"skipped", "running"}, r \in {"none", "pending"}, fits \in BOOLEAN :
       JoinSession(c, id, ep, n, r, fits)
  \/ RelayCrashes(c, id)
  \/ RelayRefused(c, id)
  \/ \E forwards \in BOOLEAN : RelaySession(c, id, forwards)
  \/ StopSession(c, id)

WorkerStep(ep) ==
  \/ \E r \in {"ok", "failed"} : NegoComplete(ep, r)
  \/ NegoTimeout(ep)
  \/ \E r \in {"ok", "failed"} : ConfComplete(ep, r)

RunCall ==
  \/ GetNegoResultGone
  \/ GetNegoResultAborts
  \/ \E id \in Ids, fits \in BOOLEAN : GetNegoResult(id, fits)

Next ==
  \/ \E c \in Conns : Accept(c) \/ \E id \in Ids : Command(c, id)
  \/ \E ep \in Eps : WorkerStep(ep)
  \/ RunCall
  \/ TimeoutCb
  \/ Tick
  \/ \E id \in Ids : ForwardExpires(id)

Spec == Init /\ [][Next]_vars

(***************************************************************************)
(* The loop runs queued functors and its timer; time passes; a worker's    *)
(* 4 s timer ends a negotiation that nothing else ends.  The CCS is under  *)
(* no obligation.                                                          *)
(***************************************************************************)
Fairness ==
  /\ WF_vars(RunCall)
  /\ WF_vars(TimeoutCb)
  /\ WF_vars(Tick)
  /\ \A ep \in Eps : WF_vars(WorkerStep(ep))

FairSpec == Spec /\ Fairness

-------------------------------------------------------------------------------
(* Properties *)

TypeOK ==
  /\ connections \subseteq Conns
  /\ sessions \subseteq Ids
  /\ endpoint \in [Ids -> Eps \cup {NULL}]
  /\ request \in [Ids -> Conns \cup {NULL}]
  /\ curStatus \in [Ids -> Status]
  /\ age \in [Ids -> 0 .. MaxAge]
  /\ iceResult \in [Ids -> Result]
  /\ nego \in [Eps -> Negotiation]
  /\ conf \in [Eps -> Relay]
  /\ calls \in Seq([ep : Eps, fresh : BOOLEAN])
  /\ forwarding \subseteq Ids
  /\ commands \in 0 .. MaxCommands
  /\ crashed \in {"no", "nego_assert", "null_endpoint"}
  /\ told \in [Ids -> SUBSET {ICE_OP_LOCAL_INFO, ICE_OP_ICE_RESULT}]

\* An id without a session has no trace of an earlier session, and a free
\* address no trace of an earlier object.
Clean ==
  /\ \A id \in Ids \ sessions :
       /\ endpoint[id] = NULL /\ curStatus[id] = ICE_OP_NON
       /\ iceResult[id] = "none" /\ told[id] = {}
  /\ \A ep \in Eps : nego[ep] = "free" => conf[ep] = "none"

(***************************************************************************)
(* Endpoint ownership: the eice objects alive are exactly those that one   *)
(* session, and only one, points to.  None is leaked, none is freed twice  *)
(* and none is used after it was freed, in whatever order commands, the    *)
(* reaping timer and results arrive.                                       *)
(***************************************************************************)
OneOwner ==
  /\ \A ep \in Eps : nego[ep] # "free" <=> \E id \in sessions : endpoint[id] = ep
  /\ \A id1, id2 \in sessions :
       endpoint[id1] = endpoint[id2] /\ endpoint[id1] # NULL => id1 = id2

(***************************************************************************)
(* A session waiting for START_SESSION has an endpoint whose negotiation   *)
(* was never started: eice_caller_nego gets no NULL and starts ICE once.   *)
(***************************************************************************)
StartsOnce ==
  \A id \in sessions :
    curStatus[id] = ICE_OP_LOCAL_INFO =>
      /\ endpoint[id] # NULL
      /\ nego[endpoint[id]] \in {"idle", "skipped"}
      /\ conf[endpoint[id]] = "none"

(***************************************************************************)
(* A queued getNegoResult whose object was not freed meanwhile finds the   *)
(* outcome of the negotiation stored, and the relay cancelled if it was a  *)
(* success: the worker stores before it calls the application.             *)
(***************************************************************************)
FreshCallHasOutcome ==
  \A i \in DOMAIN calls : calls[i].fresh =>
    \/ nego[calls[i].ep] = "ok" /\ conf[calls[i].ep] # "pending"
    \/ nego[calls[i].ep] = "failed"

(***************************************************************************)
(* The assertion of getNegoResult can only fail for one of two reasons:    *)
(* the call outlived its object and the address belongs to a new session,  *)
(* or the object also has a conference relay that is not finished.         *)
(***************************************************************************)
AbortHasAReason ==
  crashed = "nego_assert" => ~Head(calls).fresh \/ conf[Head(calls).ep] = "pending"

(***************************************************************************)
(* What the CCS was told is backed by what the session holds: ICE_RESULT   *)
(* was sent, its text is stored, and the endpoint - unless RELAY_SESSION   *)
(* took it - has finished.                                                 *)
(***************************************************************************)
ResultBacked ==
  \A id \in sessions : curStatus[id] = ICE_OP_ICE_RESULT =>
    /\ ICE_OP_ICE_RESULT \in told[id]
    /\ iceResult[id] # "none"
    /\ endpoint[id] # NULL => NegoKnown(endpoint[id])
    /\ endpoint[id] = NULL => iceResult[id] = "pairs"

(***************************************************************************)
(* Media is forwarded only for a session whose own negotiation succeeded   *)
(* and whose CCS knows: a result stored earlier, or obtained through a     *)
(* call meant for another session, never stands in for it.                 *)
(***************************************************************************)
ForwardNeedsOutcome ==
  [][\A id \in forwarding' \ forwarding :
       /\ id \in sessions /\ endpoint[id] # NULL
       /\ nego[endpoint[id]] = "ok"
       /\ ICE_OP_ICE_RESULT \in told[id]]_vars

(***************************************************************************)
(* Once the CCS falls silent, the reaping timer erases every session,      *)
(* whatever state it was left in, although it erases one per tick.         *)
(***************************************************************************)
SessionsDrain == <>(crashed # "no") \/ <>[](sessions = {})

\* The outcome of a session that waits for it is queued.
OutcomeQueued(id) ==
  /\ id \in sessions
  /\ curStatus[id] \in {ICE_OP_START_SESSION, ICE_OP_JOIN_SESSION}
  /\ \E i \in DOMAIN calls : calls[i].fresh /\ calls[i].ep = endpoint[id]

(***************************************************************************)
(* The outcome a worker queued for a waiting session leaves the queue only *)
(* by being reported to the CCS - unless the session ends or goes away     *)
(* meanwhile, or the report does not fit.                                  *)
(***************************************************************************)
OutcomeNotDropped ==
  [][\A id \in Ids : OutcomeQueued(id) /\ ~OutcomeQueued(id)' =>
       \/ ICE_OP_ICE_RESULT \in told'[id]
       \/ curStatus'[id] \in {ICE_OP_NON, ICE_OP_END}]_vars

\* It does not stay in the queue either, so it is reported.
ResultReported ==
  /\ \A id \in Ids : OutcomeQueued(id) ~> ~OutcomeQueued(id) \/ crashed # "no"
  /\ OutcomeNotDropped

-------------------------------------------------------------------------------
(* A statement of the source that the code does not keep *)

\* IceService.cpp, getNegoResult: assert(ret == 0 && session->iceResultLen > 0)
NegoResultAsserted == crashed # "nego_assert"
==============================================================================
