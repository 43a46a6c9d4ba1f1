-------------------------------- MODULE Eice ---------------------------------
(***************************************************************************)
(* eice.cpp: one ICE endpoint, shared by the loop thread, which starts it, *)
(* asks for its outcome and frees it, and by its worker, which polls the   *)
(* timers and the sockets (handle_events) and runs their callbacks.        *)
(*                                                                         *)
(* Two locks protect it: obj->lock of the endpoint (olock) and grp_lock of *)
(* its relay object (glock).  timer_ice_cb takes the second inside the     *)
(* first, on_confice_complete the first inside the second.  A callback is  *)
(* therefore cut where it takes or gives back a lock; a section in which   *)
(* only one lock is taken is one action.  The relay protocol is ConfIce's, *)
(* here a relay just reaches a result.                                     *)
(***************************************************************************)

VARIABLES
  role,        \* caller (controlling) or callee
  forced,      \* force_relay
  lpc,         \* where the loop thread is
  wpc,         \* where the worker is
  job,         \* what the callback of the worker is about
  olock,       \* holder of obj->lock between two actions
  glock,       \* holder of grp_lock between two actions
  sess,        \* the ICE session: none, running, ended (with its pairs) or stopped
  nego,        \* ice_nego_done and ice_nego_status
  iceTimer,    \* the 4 s timer is in the heap
  late,        \* it was put there after the session had ended
  relay,       \* the relay object: none, running or final
  mem,         \* its memory: live, dying (being freed) or freed
  conf,        \* confice_done and confice_status
  confTimer,   \* the 200 ms timer of the relay is in the heap
  called,      \* g_nego_result_func was called
  stopReq,     \* ioq_stop_req
  ioqStopped,  \* ioq_stopped
  quit,        \* thread_quit_flag
  clean        \* confice_free began with an outcome known and the worker not in the relay

cfgVars == <<role, forced>>
lockVars == <<olock, glock>>
iceVars == <<sess, nego, iceTimer, late>>
relayVars == <<relay, mem, conf, confTimer>>
flagVars == <<stopReq, ioqStopped, quit>>
vars == <<cfgVars, lpc, wpc, job, lockVars, iceVars, relayVars, called, flagVars, clean>>

\* from: polled from the timers or from the sockets; act: what is left to do
NoJob == [from |-> "none", act |-> "none"]

\* steps of the worker that touch the relay object
RelayPcs == {"K1", "K2", "C1", "T2"}

\* obj->confice is not null
HasRelay == relay # "none" /\ mem # "freed"

Init ==
  /\ role \in {"caller", "callee"}
  /\ forced \in BOOLEAN
  /\ lpc = "new" /\ wpc = "poll" /\ job = NoJob
  /\ olock = "none" /\ glock = "none"
  /\ sess = "none" /\ nego = "none" /\ iceTimer = FALSE /\ late = FALSE
  /\ \/ relay = "running" /\ conf = "pending" /\ confTimer = TRUE
     \/ relay = "none" /\ conf = "none" /\ confTimer = FALSE
  /\ mem = "live" /\ called = FALSE
  /\ stopReq = FALSE /\ ioqStopped = FALSE /\ quit = FALSE /\ clean = FALSE

-------------------------------------------------------------------------------
(* The loop thread: eice_start_nego *)

\* pj_ice_strans_start_ice, unless the relay is forced
StartIce ==
  /\ lpc = "new"
  /\ IF forced
       THEN nego' = "skipped" /\ lpc' = "reg" /\ UNCHANGED sess
       ELSE nego' = "running" /\ lpc' = "sched" /\ sess' = "running"
  /\ UNCHANGED <<cfgVars, wpc, job, lockVars, iceTimer, late, relayVars, called, flagVars, clean>>

\* the 4 s timer, scheduled with no lock held and whatever has happened meanwhile
ScheduleTimer ==
  /\ lpc = "sched"
  /\ lpc' = "reg"
  /\ iceTimer' = TRUE
  /\ late' = (sess # "running")
  /\ UNCHANGED <<cfgVars, wpc, job, lockVars, sess, nego, relayVars, called, flagVars, clean>>

\* confice_kickoff_reg and, by the caller, confice_kickoff_select_relay
KickoffRelay ==
  /\ lpc = "reg"
  /\ relay # "none" => glock = "none"
  /\ lpc' = "started"
  /\ UNCHANGED <<cfgVars, wpc, job, lockVars, iceVars, relayVars, called, flagVars, clean>>

(* The loop thread: eice_get_nego_result and eice_steal_fds *)

\* both paths have ended, read under obj->lock; before that the answer is -1
Ask ==
  /\ lpc = "started" /\ olock = "none"
  /\ nego \in {"skipped", "ok", "failed"} /\ conf # "pending"
  /\ lpc' = "asked"
  /\ UNCHANGED <<cfgVars, wpc, job, lockVars, iceVars, relayVars, called, flagVars, clean>>

\* the pairs of ICE, or those of the relay, or neither, read without a lock
AskReturns ==
  /\ lpc = "asked"
  /\ lpc' = "started"
  /\ UNCHANGED <<cfgVars, wpc, job, lockVars, iceVars, relayVars, called, flagVars, clean>>

(* The loop thread: eice_free *)

\* Mutant: the lock of the endpoint is held while the worker is waited for.
FreeBeginLocked ==
  /\ lpc \in {"new", "started"} /\ olock = "none"
  /\ lpc' = "freeIoq"
  /\ stopReq' = TRUE
  /\ olock' = "loop"
  /\ UNCHANGED <<cfgVars, wpc, job, glock, iceVars, relayVars, called, ioqStopped, quit, clean>>

\* ioq_stop_req, with no lock held
FreeBegin ==
  /\ lpc \in {"new", "started"}
  /\ lpc' = "freeIoq"
  /\ stopReq' = TRUE
  /\ UNCHANGED <<cfgVars, wpc, job, lockVars, iceVars, relayVars, called, ioqStopped, quit, clean>>

\* ioq_stopped is seen; the 4 s timer is cancelled
FreeTimer ==
  /\ lpc = "freeIoq" /\ ioqStopped
  /\ lpc' = "freeRelay"
  /\ iceTimer' = FALSE
  /\ UNCHANGED <<cfgVars, wpc, job, lockVars, sess, nego, late, relayVars, called, flagVars, clean>>

\* Mutant: the timer of the relay is left in the heap.
TimerOfFreed == confTimer

\* pj_timer_heap_cancel_if_active in confice_free
CancelledTimer == FALSE

\* confice_free up to its lock: the timer, the wrapped session, sockets and channels go
FreeRelay ==
  /\ lpc = "freeRelay" /\ relay # "none"
  /\ lpc' = "freeLock"
  /\ mem' = "dying"
  /\ confTimer' = CancelledTimer
  /\ clean' = (nego # "running" /\ wpc \notin RelayPcs)
  /\ UNCHANGED <<cfgVars, wpc, job, lockVars, iceVars, relay, conf, called, flagVars>>

\* the rest of confice_free; obj->confice is cleared
FreeRelayLock ==
  /\ lpc = "freeLock" /\ glock = "none"
  /\ lpc' = "freeIce"
  /\ mem' = "freed"
  /\ UNCHANGED <<cfgVars, wpc, job, lockVars, iceVars, relay, conf, confTimer, called, flagVars,
                 clean>>

\* pj_ice_strans_stop_ice and pj_ice_strans_destroy, then thread_quit_flag
FreeIce ==
  /\ lpc = "freeIce" \/ (lpc = "freeRelay" /\ relay = "none")
  /\ lpc' = "freeThread"
  /\ sess' = "stopped"
  /\ quit' = TRUE
  /\ UNCHANGED <<cfgVars, wpc, job, lockVars, nego, iceTimer, late, relayVars, called, stopReq,
                 ioqStopped, clean>>

\* the worker has exited and is joined; the rest of the object is released
FreeEnd ==
  /\ lpc = "freeThread" /\ wpc = "exited"
  /\ lpc' = "freed"
  /\ UNCHANGED <<cfgVars, wpc, job, lockVars, iceVars, relayVars, called, flagVars, clean>>

FreeSteps == FreeTimer \/ FreeRelay \/ FreeRelayLock \/ FreeIce \/ FreeEnd

-------------------------------------------------------------------------------
(* The worker: handle_events *)

\* where a callback returns to: to the next timer that is due, or after the one network event
ReturnPc(from) == IF from = "timer" THEN "poll" ELSE "end"

\* after pj_timer_heap_poll
NoTimerDue ==
  /\ wpc = "poll"
  /\ wpc' = "check"
  /\ UNCHANGED <<cfgVars, lpc, job, lockVars, iceVars, relayVars, called, flagVars, clean>>

\* the test of ioq_stop_req
CheckStop ==
  /\ ioqStopped' = (ioqStopped \/ stopReq)
  /\ wpc' = IF stopReq THEN "end" ELSE "io"

TimersDone ==
  /\ wpc = "check"
  /\ CheckStop
  /\ UNCHANGED <<cfgVars, lpc, job, lockVars, iceVars, relayVars, called, stopReq, quit, clean>>

NoNetEvent ==
  /\ wpc = "io"
  /\ wpc' = "end"
  /\ UNCHANGED <<cfgVars, lpc, job, lockVars, iceVars, relayVars, called, flagVars, clean>>

\* the loop of eice_worker_thread
RoundDone ==
  /\ wpc = "end"
  /\ wpc' = IF quit THEN "exited" ELSE "poll"
  /\ job' = NoJob
  /\ UNCHANGED <<cfgVars, lpc, lockVars, iceVars, relayVars, called, flagVars, clean>>

-------------------------------------------------------------------------------
(* The worker: cb_on_ice_complete *)

\* Mutant: the timer of a negotiation that has ended stays in the heap.
TimerOfEnded == iceTimer

\* pj_timer_heap_cancel_if_active in cb_on_ice_complete, with no lock held
TimerAfterEnd == FALSE

\* pjnath ends the session, from one of its timers or from a packet, and calls back
IceEnds(r) ==
  /\ wpc \in {"poll", "io"} /\ sess = "running"
  /\ sess' = "ended"
  /\ iceTimer' = TimerAfterEnd
  /\ job' = [from |-> IF wpc = "poll" THEN "timer" ELSE "io", act |-> r]
  /\ wpc' = "I1"
  /\ UNCHANGED <<cfgVars, lpc, lockVars, nego, late, relayVars, called, flagVars, clean>>

\* what is left to do for the relay once the outcome r is stored
RelayAct(r) == CASE r = "ok" -> "cancel" [] r # "ok" /\ role = "caller" -> "kick" [] OTHER -> "none"

\* the outcome is stored under obj->lock, if there is none yet
IceStores ==
  /\ wpc = "I1" /\ olock = "none"
  /\ IF nego = "running"
       THEN /\ nego' = job.act
            /\ IF HasRelay /\ RelayAct(job.act) # "none"
                 THEN wpc' = "K1" /\ job' = [job EXCEPT !.act = RelayAct(job.act)]
                 ELSE wpc' = "tell" /\ UNCHANGED job
       ELSE wpc' = "tell" /\ UNCHANGED <<nego, job>>
  /\ UNCHANGED <<cfgVars, lpc, lockVars, sess, iceTimer, late, relayVars, called, flagVars, clean>>

\* confice_cancel or confice_kickoff_select_relay takes grp_lock
RelayTakesLock ==
  /\ wpc = "K1" /\ glock = "none" /\ mem # "freed"
  /\ IF job.act = "cancel" /\ relay = "running"
       THEN /\ glock' = "worker" /\ relay' = "final"
            /\ wpc' = "K2" /\ UNCHANGED job
       ELSE /\ wpc' = "tell" /\ UNCHANGED <<glock, relay, job>>
  /\ UNCHANGED <<cfgVars, lpc, olock, iceVars, mem, conf, confTimer, called, flagVars, clean>>

\* on_confice_complete takes obj->lock inside grp_lock, then both are given back
RelayTells ==
  /\ wpc = "K2" /\ olock = "none" /\ mem # "freed"
  /\ conf' = IF job.act = "ok" THEN "ok" ELSE "failed"
  /\ glock' = "none"
  /\ wpc' = IF job.act = "cancel" THEN "tell" ELSE ReturnPc(job.from)
  /\ UNCHANGED <<cfgVars, lpc, job, olock, iceVars, relay, mem, confTimer, called, flagVars, clean>>

\* g_nego_result_func
TellUser ==
  /\ wpc = "tell"
  /\ called' = TRUE
  /\ wpc' = ReturnPc(job.from)
  /\ UNCHANGED <<cfgVars, lpc, job, lockVars, iceVars, relayVars, flagVars, clean>>

-------------------------------------------------------------------------------
(* The worker: timer_ice_cb *)

IceTimerDue ==
  /\ wpc = "poll" /\ iceTimer
  /\ iceTimer' = FALSE
  /\ job' = [from |-> "timer", act |-> "kick"]
  /\ wpc' = "T1"
  /\ UNCHANGED <<cfgVars, lpc, lockVars, sess, nego, late, relayVars, called, flagVars, clean>>

\* Mutant: a timeout counts also after another outcome.
TimedOutAlways == "failed"

\* the outcome after a timeout
TimedOut == IF nego = "running" THEN "failed" ELSE nego

\* the session is stopped in any case; obj->lock is kept where the relay is kicked
IceTimesOut ==
  /\ wpc = "T1" /\ olock = "none"
  /\ sess' = "stopped"
  /\ nego' = TimedOut
  /\ IF nego = "running" /\ HasRelay /\ role = "caller"
       THEN wpc' = "T2" /\ olock' = "worker"
       ELSE wpc' = ReturnPc("timer") /\ UNCHANGED olock
  /\ UNCHANGED <<cfgVars, lpc, job, glock, iceTimer, late, relayVars, called, flagVars, clean>>

\* confice_kickoff_select_relay inside obj->lock
TimeoutKicks ==
  /\ wpc = "T2" /\ glock = "none" /\ mem # "freed"
  /\ olock' = "none"
  /\ wpc' = ReturnPc("timer")
  /\ UNCHANGED <<cfgVars, lpc, job, glock, iceVars, relayVars, called, flagVars, clean>>

-------------------------------------------------------------------------------
(* The worker: timer_cb and on_data_recvfrom of the relay *)

RelayTimerDue ==
  /\ wpc = "poll" /\ confTimer
  /\ confTimer' = FALSE
  /\ job' = [from |-> "timer", act |-> "none"]
  /\ wpc' = "C1"
  /\ UNCHANGED <<cfgVars, lpc, lockVars, iceVars, relay, mem, conf, called, flagVars, clean>>

RelayPacket ==
  /\ wpc = "io" /\ HasRelay
  /\ job' = [from |-> "io", act |-> "none"]
  /\ wpc' = "C1"
  /\ UNCHANGED <<cfgVars, lpc, lockVars, iceVars, relayVars, called, flagVars, clean>>

\* the relay reaches its final state
RelayFinal(r) ==
  /\ wpc = "C1" /\ glock = "none" /\ relay = "running" /\ mem # "freed"
  /\ glock' = "worker" /\ relay' = "final"
  /\ job' = [job EXCEPT !.act = r]
  /\ wpc' = "K2"
  /\ UNCHANGED <<cfgVars, lpc, olock, iceVars, mem, conf, confTimer, called, flagVars, clean>>

\* or it does not; the timer is scheduled again before the final state
RelayGoesOn ==
  /\ wpc = "C1" /\ glock = "none" /\ mem # "freed"
  /\ confTimer' = (confTimer \/ (job.from = "timer" /\ relay # "final"))
  /\ wpc' = ReturnPc(job.from)
  /\ UNCHANGED <<cfgVars, lpc, job, lockVars, iceVars, relay, mem, conf, called, flagVars, clean>>

\* a callback that was already running meets an object that is freed under it
UsesFreed ==
  /\ wpc \in RelayPcs /\ mem \in {"dying", "freed"}
  /\ lpc' = "crashed" /\ wpc' = "exited"
  /\ UNCHANGED <<cfgVars, job, lockVars, iceVars, relayVars, called, flagVars, clean>>

-------------------------------------------------------------------------------
Loop == StartIce \/ ScheduleTimer \/ KickoffRelay \/ Ask \/ AskReturns \/ FreeBegin \/ FreeSteps

Worker ==
  /\ lpc # "crashed"
  /\ \/ NoTimerDue \/ TimersDone \/ NoNetEvent \/ RoundDone
     \/ (\E r \in {"ok", "failed"} : IceEnds(r)) \/ IceStores \/ RelayTakesLock \/ RelayTells
     \/ TellUser
     \/ IceTimerDue \/ IceTimesOut \/ TimeoutKicks
     \/ RelayTimerDue \/ RelayPacket \/ (\E r \in {"ok", "failed"} : RelayFinal(r))
     \/ RelayGoesOn \/ UsesFreed

Next == Loop \/ Worker

Spec == Init /\ [][Next]_vars

(***************************************************************************)
(* The worker runs, and a poll of the timers ends: a timer that its        *)
(* callback has scheduled again is not due before 200 ms.  The loop thread *)
(* goes on with what it has begun; it need not ask for the outcome or free *)
(* the object.                                                             *)
(***************************************************************************)
FairSpec ==
  /\ Spec
  /\ WF_vars(Worker) /\ SF_vars(lpc # "crashed" /\ NoTimerDue)
  /\ WF_vars(ScheduleTimer \/ KickoffRelay \/ AskReturns \/ FreeSteps)

-------------------------------------------------------------------------------
(* Properties *)

\* The program counters, the flags and the states of both paths.
TypeOK ==
  /\ role \in {"caller", "callee"} /\ forced \in BOOLEAN
  /\ lpc \in {"new", "sched", "reg", "started", "asked", "freeIoq", "freeRelay", "freeLock",
              "freeIce", "freeThread", "freed", "crashed"}
  /\ wpc \in {"poll", "check", "io", "end", "exited", "I1", "tell", "T1"} \cup RelayPcs
  /\ job \in [from : {"none", "timer", "io"}, act : {"none", "ok", "failed", "cancel", "kick"}]
  /\ olock \in {"none", "loop", "worker"} /\ glock \in {"none", "worker"}
  /\ sess \in {"none", "running", "ended", "stopped"}
  /\ nego \in {"none", "skipped", "running", "ok", "failed"}
  /\ iceTimer \in BOOLEAN /\ late \in BOOLEAN
  /\ relay \in {"none", "running", "final"} /\ mem \in {"live", "dying", "freed"}
  /\ conf \in {"none", "pending", "ok", "failed"}
  /\ confTimer \in BOOLEAN /\ called \in BOOLEAN
  /\ stopReq \in BOOLEAN /\ ioqStopped \in BOOLEAN /\ quit \in BOOLEAN /\ clean \in BOOLEAN

(***************************************************************************)
(* The fate of a direct success until the object is freed: the session     *)
(* keeps the pairs it found if the 4 s timer was scheduled before its end. *)
(* If the timer came after it (late), nobody cancels it: it is due, it is  *)
(* running, or it has stopped the session whose pairs are asked for later. *)
(***************************************************************************)
PairsKept ==
  nego = "ok" /\ lpc \in {"sched", "reg", "started", "asked"} =>
    IF late THEN iceTimer \/ wpc = "T1" \/ sess = "stopped" ELSE sess = "ended"

(***************************************************************************)
(* The application is called for a direct success only after the relay was *)
(* cancelled, so that the outcome it then asks for is complete, unless the *)
(* endpoint is already being freed.                                        *)
(***************************************************************************)
CalledWhenComplete == called /\ nego = "ok" => conf # "pending" \/ mem = "freed"

(***************************************************************************)
(* While eice_free takes the relay and the ICE session apart, the worker   *)
(* is in no callback of a socket.                                          *)
(***************************************************************************)
SocketsQuietInFree ==
  lpc \in {"freeRelay", "freeLock", "freeIce", "freeThread", "freed"} =>
    /\ wpc # "io"
    /\ wpc \in RelayPcs \cup {"I1", "T1", "tell"} => job.from = "timer"

(***************************************************************************)
(* An endpoint freed with its outcome known, and while the worker is not   *)
(* in the relay, is freed safely: no timer brings the worker back to the   *)
(* relay object.  (Freed earlier, or under a callback of the relay - whose *)
(* timer_cb may put its timer back into the heap after confice_free has    *)
(* cancelled it - the relay object is used after it is gone: UsesFreed.)   *)
(***************************************************************************)
CleanFreeIsSafe == clean => wpc \notin RelayPcs /\ lpc # "crashed"

(***************************************************************************)
(* eice_free returns: the two locks are never waited for in a circle, and  *)
(* the worker answers both flags - unless the process has crashed.         *)
(***************************************************************************)
FreeReturns == lpc = "freeIoq" ~> lpc \in {"freed", "crashed"}

(***************************************************************************)
(* The endpoint implements what IceService relies on.  A direct success    *)
(* counts as the end of the relay from the moment it is stored.            *)
(***************************************************************************)
View == INSTANCE Endpoint WITH
  nego <- nego,
  conf <- IF conf = "pending" /\ nego = "ok" THEN "failed" ELSE conf,
  called <- called,
  alive <- lpc \notin {"freed", "crashed"}

ImplementsEndpoint == View!Spec
==============================================================================
