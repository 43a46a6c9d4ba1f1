----------------------------- MODULE EiceProofs ------------------------------
(***************************************************************************)
(* Proofs about Eice: the endpoint implements Endpoint, and its safety     *)
(* properties.  The inductive invariant follows the one worker through its *)
(* callbacks: what it is doing tells how far the ICE session, the relay    *)
(* and the application have got, whatever the loop thread does meanwhile.  *)
(* The last part is about EiceSetup, which configures the endpoints of the *)
(* two sides before they negotiate.                                        *)
(***************************************************************************)
EXTENDS Eice, EiceSetup, TLAPS

Freeing == {"freeRelay", "freeLock", "freeIce", "freeThread", "freed"}

\* The direct path: the session and its outcome.
IceInv ==
  /\ lpc = "new" => nego = "none" /\ sess = "none" /\ ~called
  /\ sess = "running" => nego = "running" /\ ~called
  /\ nego \in {"none", "skipped"} => sess \in {"none", "stopped"}
  /\ wpc = "I1" => /\ nego = "running" /\ ~called /\ job.act \in {"ok", "failed"}
                   /\ sess = "ended" \/ (sess = "stopped" /\ lpc \in Freeing)
  /\ wpc = "K1" => job.act \in {"cancel", "kick"} /\ nego \in {"ok", "failed"}
  /\ wpc \in {"K1", "K2"} /\ job.act = "cancel" => nego = "ok" /\ ~called
  /\ wpc = "tell" => nego \in {"ok", "failed"}

\* The 4 s timer.
TimerInv ==
  /\ lpc \in {"new", "sched"} => ~iceTimer /\ ~late /\ wpc # "T1"
  /\ lpc \in Freeing => ~iceTimer
  /\ iceTimer => sess = "running" \/ late
  /\ wpc = "T1" => ~iceTimer /\ (sess = "running" \/ late \/ lpc \in Freeing)
  /\ late /\ lpc \in {"reg", "started", "asked"} =>
       sess # "running" /\ (iceTimer \/ wpc = "T1" \/ sess = "stopped")

\* The relay: it tells its result once, and not after a direct success.
RelayInv ==
  /\ relay = "none" <=> conf = "none"
  /\ relay = "running" => conf = "pending"
  /\ relay = "final" /\ conf = "pending" => wpc = "K2" \/ lpc = "crashed"
  /\ wpc = "K2" => conf = "pending" /\ relay = "final" /\ job.act \in {"ok", "failed", "cancel"}
  /\ wpc = "K2" /\ job.act # "cancel" => nego # "ok"
  /\ nego = "ok" /\ relay = "running" =>
       mem = "freed" \/ (wpc = "K1" /\ job.act = "cancel") \/ lpc = "crashed"
  /\ lpc \notin {"freeLock", "freeIce", "freeThread", "freed", "crashed"} => mem = "live"

\* The worker, and the flags eice_free waits for.
WorkerInv ==
  /\ lpc \in {"freed", "crashed"} => wpc = "exited"
  /\ lpc \in Freeing => ioqStopped
  /\ ioqStopped => /\ stopReq /\ wpc # "io"
                   /\ wpc \in RelayPcs \cup {"I1", "T1", "tell"} => job.from = "timer"

\* A relay freed cleanly is left alone.
CleanInv ==
  clean => /\ nego # "running" /\ ~confTimer /\ lpc \in Freeing
           /\ wpc \notin RelayPcs

IInv ==
  /\ TypeOK /\ IceInv /\ TimerInv /\ RelayInv /\ WorkerInv /\ CleanInv
  /\ PairsKept /\ CalledWhenComplete

-------------------------------------------------------------------------------
(* The steps *)

LEMMA InitOK == Init => IInv
<1> SUFFICES ASSUME Init PROVE IInv
  OBVIOUS
<1>1. confTimer \in BOOLEAN
  BY DEF Init
<1>2. TypeOK
  BY <1>1 DEF Init, TypeOK, NoJob, RelayPcs
<1>3. IceInv /\ TimerInv /\ RelayInv /\ WorkerInv /\ CleanInv /\ PairsKept /\ CalledWhenComplete
  BY DEF Init, IceInv, TimerInv, RelayInv, WorkerInv, CleanInv, PairsKept, CalledWhenComplete,
         Freeing, RelayPcs
<1> QED BY <1>2, <1>3 DEF IInv

\* The steps of the loop thread.
LEMMA LoopOK == ASSUME IInv, Loop PROVE IInv'
<1> USE DEF IInv, TypeOK, IceInv, TimerInv, RelayInv, WorkerInv, CleanInv, PairsKept,
            CalledWhenComplete, Freeing, RelayPcs, cfgVars, lockVars, iceVars,
            relayVars, flagVars, NoJob
<1>1. CASE StartIce
  BY <1>1 DEF StartIce
<1>2. CASE ScheduleTimer
  <2>1. iceTimer' \in BOOLEAN /\ late' \in BOOLEAN
    BY <1>2 DEF ScheduleTimer
  <2>2. TypeOK'
    BY <1>2, <2>1 DEF ScheduleTimer
  <2>3. TimerInv'
    BY <1>2 DEF ScheduleTimer
  <2>4. IceInv' /\ RelayInv' /\ WorkerInv' /\ CleanInv'
    BY <1>2 DEF ScheduleTimer
  <2>5. PairsKept' /\ CalledWhenComplete'
    BY <1>2 DEF ScheduleTimer
  <2> QED BY <2>2, <2>3, <2>4, <2>5
<1>3. CASE KickoffRelay
  BY <1>3 DEF KickoffRelay
<1>4. CASE Ask
  BY <1>4 DEF Ask
<1>5. CASE AskReturns
  BY <1>5 DEF AskReturns
<1>6. CASE FreeBegin
  BY <1>6 DEF FreeBegin
<1>7. CASE FreeTimer
  <2>1. iceTimer' \in BOOLEAN
    BY <1>7 DEF FreeTimer
  <2>2. TypeOK'
    BY <1>7, <2>1 DEF FreeTimer
  <2>3. IceInv' /\ TimerInv' /\ RelayInv' /\ WorkerInv'
    BY <1>7 DEF FreeTimer
  <2>4. CleanInv' /\ PairsKept' /\ CalledWhenComplete'
    BY <1>7 DEF FreeTimer
  <2> QED BY <2>2, <2>3, <2>4
<1>8. CASE FreeRelay
  <2>1. confTimer' \in BOOLEAN /\ clean' \in BOOLEAN
    BY <1>8 DEF FreeRelay, CancelledTimer
  <2>2. TypeOK'
    BY <1>8, <2>1 DEF FreeRelay, CancelledTimer
  <2>3. IceInv' /\ TimerInv' /\ RelayInv' /\ WorkerInv'
    BY <1>8 DEF FreeRelay, CancelledTimer
  <2>4. CleanInv' /\ PairsKept' /\ CalledWhenComplete'
    BY <1>8 DEF FreeRelay, CancelledTimer
  <2> QED BY <2>2, <2>3, <2>4
<1>9. CASE FreeRelayLock
  BY <1>9 DEF FreeRelayLock
<1>10. CASE FreeIce
  BY <1>10 DEF FreeIce
<1>11. CASE FreeEnd
  BY <1>11 DEF FreeEnd
<1> QED
  BY <1>1, <1>2, <1>3, <1>4, <1>5, <1>6, <1>7, <1>8, <1>9, <1>10, <1>11
  DEF Loop, FreeSteps

\* The steps of the worker.
LEMMA WorkerOK == ASSUME IInv, Worker PROVE IInv'
<1> USE DEF IInv, TypeOK, IceInv, TimerInv, RelayInv, WorkerInv, CleanInv, PairsKept,
            CalledWhenComplete, Freeing, RelayPcs, cfgVars, lockVars, iceVars,
            relayVars, flagVars, NoJob
<1>1. CASE NoTimerDue
  BY <1>1 DEF NoTimerDue
<1>2. CASE TimersDone
  BY <1>2 DEF TimersDone, CheckStop
<1>3. CASE NoNetEvent
  BY <1>3 DEF NoNetEvent
<1>4. CASE RoundDone
  BY <1>4 DEF RoundDone
<1>5. ASSUME NEW r \in {"ok", "failed"}, IceEnds(r) PROVE IInv'
  <2>1. iceTimer' \in BOOLEAN
    BY <1>5 DEF IceEnds, TimerAfterEnd
  <2>2. TypeOK'
    BY <1>5, <2>1 DEF IceEnds, TimerAfterEnd
  <2>3. IceInv' /\ TimerInv' /\ RelayInv' /\ WorkerInv'
    BY <1>5 DEF IceEnds, TimerAfterEnd
  <2>4. CleanInv' /\ PairsKept' /\ CalledWhenComplete'
    BY <1>5 DEF IceEnds, TimerAfterEnd
  <2> QED BY <2>2, <2>3, <2>4
<1>6. CASE IceStores
  BY <1>6 DEF IceStores, RelayAct, HasRelay
<1>7. CASE RelayTakesLock
  BY <1>7 DEF RelayTakesLock
<1>8. CASE RelayTells
  BY <1>8 DEF RelayTells, ReturnPc
<1>9. CASE TellUser
  BY <1>9 DEF TellUser, ReturnPc
<1>10. CASE IceTimerDue
  <2>1. iceTimer' \in BOOLEAN
    BY <1>10 DEF IceTimerDue
  <2>2. TypeOK'
    BY <1>10, <2>1 DEF IceTimerDue
  <2>3. IceInv' /\ TimerInv' /\ RelayInv' /\ WorkerInv'
    BY <1>10 DEF IceTimerDue
  <2>4. CleanInv' /\ PairsKept' /\ CalledWhenComplete'
    BY <1>10 DEF IceTimerDue
  <2> QED BY <2>2, <2>3, <2>4
<1>11. CASE IceTimesOut
  BY <1>11 DEF IceTimesOut, TimedOut, HasRelay, ReturnPc
<1>12. CASE TimeoutKicks
  BY <1>12 DEF TimeoutKicks, ReturnPc
<1>13. CASE RelayTimerDue
  <2>1. confTimer' \in BOOLEAN
    BY <1>13 DEF RelayTimerDue
  <2>2. TypeOK'
    BY <1>13, <2>1 DEF RelayTimerDue
  <2>3. IceInv' /\ TimerInv' /\ RelayInv' /\ WorkerInv'
    BY <1>13 DEF RelayTimerDue
  <2>4. CleanInv' /\ PairsKept' /\ CalledWhenComplete'
    BY <1>13 DEF RelayTimerDue
  <2> QED BY <2>2, <2>3, <2>4
<1>14. CASE RelayPacket
  BY <1>14 DEF RelayPacket, HasRelay
<1>15. ASSUME NEW r \in {"ok", "failed"}, RelayFinal(r) PROVE IInv'
  BY <1>15 DEF RelayFinal
<1>16. CASE RelayGoesOn
  BY <1>16 DEF RelayGoesOn, ReturnPc
<1>17. CASE UsesFreed
  BY <1>17 DEF UsesFreed
<1> QED
  BY <1>1, <1>2, <1>3, <1>4, <1>5, <1>6, <1>7, <1>8, <1>9,
     <1>10, <1>11, <1>12, <1>13, <1>14, <1>15, <1>16, <1>17
  DEF Worker

LEMMA NextOK == IInv /\ [Next]_vars => IInv'
<1> SUFFICES ASSUME IInv, [Next]_vars PROVE IInv'
  OBVIOUS
<1>1. CASE Next
  BY <1>1, LoopOK, WorkerOK DEF Next
<1>2. CASE UNCHANGED vars
  BY <1>2 DEF vars, IInv, TypeOK, IceInv, TimerInv, RelayInv, WorkerInv, CleanInv, PairsKept,
              CalledWhenComplete, cfgVars, lockVars, iceVars, relayVars, flagVars
<1> QED BY <1>1, <1>2

LEMMA IInvAlways == Spec => []IInv
BY InitOK, NextOK, PTL DEF Spec

-------------------------------------------------------------------------------
(* Refinement *)

\* What Endpoint sees of a step that changes neither an outcome nor the object.
LEMMA ViewStutters ==
  ASSUME UNCHANGED <<nego, conf, called>>,
         (lpc' \in {"freed", "crashed"}) <=> (lpc \in {"freed", "crashed"})
  PROVE  UNCHANGED View!vars
BY DEF View!vars

LEMMA InitRefines == Init => View!Init
BY DEF Init, View!Init

LEMMA LoopRefines == ASSUME IInv, Loop PROVE [View!Next]_(View!vars)
<1> USE DEF cfgVars, lockVars, iceVars, relayVars, flagVars
<1>1. CASE StartIce
  <2>1. lpc = "new" /\ nego = "none" /\ nego' \in {"running", "skipped"}
    BY <1>1 DEF StartIce, IInv, IceInv
  <2>2. lpc' \in {"sched", "reg"} /\ UNCHANGED <<conf, called>>
    BY <1>1 DEF StartIce
  <2>3. View!Start
    BY <2>1, <2>2 DEF View!Start
  <2> QED BY <2>3 DEF View!Next
<1>2. CASE FreeEnd
  <2>1. View!Free
    BY <1>2 DEF FreeEnd, View!Free
  <2> QED BY <2>1 DEF View!Next
<1>3. CASE Ask \/ AskReturns \/ FreeBegin \/ ScheduleTimer \/ KickoffRelay
  BY <1>3, ViewStutters DEF Ask, AskReturns, FreeBegin, ScheduleTimer, KickoffRelay
<1>4. CASE FreeTimer \/ FreeRelay \/ FreeRelayLock \/ FreeIce
  BY <1>4, ViewStutters DEF FreeTimer, FreeRelay, FreeRelayLock, FreeIce
<1> QED BY <1>1, <1>2, <1>3, <1>4 DEF Loop, FreeSteps

LEMMA WorkerRefines == ASSUME IInv, Worker PROVE [View!Next]_(View!vars)
<1> USE DEF cfgVars, lockVars, iceVars, relayVars, flagVars
<1>0. lpc # "crashed" /\ (wpc # "exited" => lpc # "freed")
  BY DEF Worker, IInv, WorkerInv
<1>1. CASE IceStores
  <2>1. /\ nego = "running" /\ nego' = job.act /\ job.act \in {"ok", "failed"}
        /\ lpc' = lpc /\ lpc \notin {"freed", "crashed"} /\ UNCHANGED <<conf, called>>
    BY <1>0, <1>1 DEF IceStores, IInv, IceInv
  <2>2. View!NegoComplete(job.act)
    BY <2>1 DEF View!NegoComplete
  <2> QED BY <2>1, <2>2 DEF View!Next
<1>2. CASE RelayTells
  <2>1. /\ conf = "pending" /\ conf' = IF job.act = "ok" THEN "ok" ELSE "failed"
        /\ lpc' = lpc /\ lpc \notin {"freed", "crashed"} /\ UNCHANGED <<nego, called>>
    BY <1>0, <1>2 DEF RelayTells, IInv, RelayInv
  <2>2. CASE nego = "ok"
    <3>1. conf' = "failed"
      BY <2>1, <2>2, <1>2 DEF RelayTells, IInv, RelayInv
    <3> QED BY <2>1, <2>2, <3>1 DEF View!vars
  <2>3. CASE nego # "ok"
    <3>1. conf' \in {"ok", "failed"}
      BY <2>1
    <3>2. View!ConfComplete(conf')
      BY <2>1, <2>3, <3>1 DEF View!ConfComplete
    <3> QED BY <3>1, <3>2 DEF View!Next
  <2> QED BY <2>2, <2>3
<1>3. CASE TellUser
  <2>1. /\ nego \in {"ok", "failed"} /\ called' = TRUE
        /\ lpc' = lpc /\ lpc \notin {"freed", "crashed"} /\ UNCHANGED <<nego, conf>>
    BY <1>0, <1>3 DEF TellUser, IInv, IceInv
  <2>2. CASE called
    <3>1. called' = called
      BY <2>1, <2>2, Zenon DEF IInv, TypeOK
    <3> QED BY <2>1, <3>1, ViewStutters
  <2>3. CASE ~called
    <3>1. View!Call
      BY <2>1, <2>3 DEF View!Call
    <3> QED BY <3>1 DEF View!Next
  <2> QED BY <2>2, <2>3
<1>4. CASE IceTimesOut
  <2>1. /\ lpc' = lpc /\ lpc \notin {"freed", "crashed"} /\ UNCHANGED <<conf, called>>
        /\ nego' = IF nego = "running" THEN "failed" ELSE nego
    BY <1>0, <1>4 DEF IceTimesOut, TimedOut
  <2>2. CASE nego = "running"
    <3>1. View!NegoTimeout
      BY <2>1, <2>2 DEF View!NegoTimeout
    <3> QED BY <3>1 DEF View!Next
  <2>3. CASE nego # "running"
    BY <2>1, <2>3, ViewStutters
  <2> QED BY <2>2, <2>3
<1>5. CASE UsesFreed
  <2>1. View!Free
    BY <1>0, <1>5 DEF UsesFreed, RelayPcs, View!Free
  <2> QED BY <2>1 DEF View!Next
<1>6. CASE \/ NoTimerDue \/ TimersDone \/ NoNetEvent \/ RoundDone \/ IceTimerDue \/ TimeoutKicks
           \/ RelayTimerDue \/ RelayPacket \/ RelayGoesOn \/ RelayTakesLock
  BY <1>6, ViewStutters DEF NoTimerDue, TimersDone, NoNetEvent, RoundDone, IceTimerDue,
       TimeoutKicks, RelayTimerDue, RelayPacket, RelayGoesOn, RelayTakesLock
<1>7. CASE \E r \in {"ok", "failed"} : IceEnds(r) \/ RelayFinal(r)
  BY <1>7, ViewStutters DEF IceEnds, RelayFinal
<1> QED BY <1>1, <1>2, <1>3, <1>4, <1>5, <1>6, <1>7 DEF Worker

-------------------------------------------------------------------------------
(* Theorems *)

(***************************************************************************)
(* The program counters of both threads, the flags and the outcomes of     *)
(* eice.cpp stay in their types.                                           *)
(***************************************************************************)
THEOREM TypeCorrect == Spec => []TypeOK
<1>1. IInv => TypeOK
  BY DEF IInv
<1> QED BY <1>1, IInvAlways, PTL

(***************************************************************************)
(* Each step of the loop thread and of the worker in eice.cpp is a step of *)
(* Endpoint or is invisible there: IceService may rely on Endpoint.        *)
(***************************************************************************)
THEOREM Refinement == Spec => ImplementsEndpoint
<1>1. IInv /\ [Next]_vars => [View!Next]_(View!vars)
  <2> SUFFICES ASSUME IInv, [Next]_vars PROVE [View!Next]_(View!vars)
    OBVIOUS
  <2>1. CASE UNCHANGED vars
    BY <2>1, ViewStutters DEF vars, iceVars, relayVars
  <2> QED BY <2>1, LoopRefines, WorkerRefines DEF Next
<1> QED BY <1>1, InitRefines, IInvAlways, PTL DEF Spec, ImplementsEndpoint, View!Spec

(***************************************************************************)
(* cb_on_ice_complete calls the application for a direct success only when *)
(* the relay has been cancelled or the object is being freed.              *)
(***************************************************************************)
THEOREM CalledComplete == Spec => []CalledWhenComplete
<1>1. IInv => CalledWhenComplete
  BY DEF IInv
<1> QED BY <1>1, IInvAlways, PTL

(***************************************************************************)
(* eice_get_nego_result finds the pairs of a direct success, unless the    *)
(* 4 s timer was scheduled after it.                                       *)
(***************************************************************************)
THEOREM PairsAreKept == Spec => []PairsKept
<1>1. IInv => PairsKept
  BY DEF IInv
<1> QED BY <1>1, IInvAlways, PTL

(***************************************************************************)
(* The handshake of ioq_stop_req and ioq_stopped keeps the callbacks of    *)
(* the sockets away from eice_free.                                        *)
(***************************************************************************)
THEOREM SocketsAreQuiet == Spec => []SocketsQuietInFree
<1>1. IInv => SocketsQuietInFree
  BY DEF IInv, WorkerInv, Freeing, SocketsQuietInFree
<1> QED BY <1>1, IInvAlways, PTL

(***************************************************************************)
(* confice_free is safe when the outcome is known and the worker is in no  *)
(* callback: neither the 4 s timer nor that of the relay brings the worker *)
(* back to the freed object.                                               *)
(***************************************************************************)
THEOREM CleanFreeSafe == Spec => []CleanFreeIsSafe
<1>1. IInv => CleanFreeIsSafe
  BY DEF IInv, CleanInv, Freeing, CleanFreeIsSafe
<1> QED BY <1>1, IInvAlways, PTL

-------------------------------------------------------------------------------
(* The two locks *)

(***************************************************************************)
(* timer_ice_cb takes grp_lock inside obj->lock, on_confice_complete       *)
(* obj->lock inside grp_lock.  Both run on the one worker, and the loop    *)
(* thread keeps no lock while it waits: a lock is kept only by the worker, *)
(* in one of these two places.                                             *)
(***************************************************************************)
LocksKept ==
  lpc # "crashed" =>
    /\ olock = IF wpc = "T2" THEN "worker" ELSE "none"
    /\ glock = IF wpc = "K2" THEN "worker" ELSE "none"

\* Whoever keeps a lock finds the other lock, if it needs it, free: nobody waits
\* in a circle, and the loop thread waits only for a worker that goes on.
HolderGoesOn ==
  lpc # "crashed" /\ (olock # "none" \/ glock # "none") =>
    \/ wpc = "T2" /\ glock = "none"
    \/ wpc = "K2" /\ olock = "none"

\* Every step keeps the locks where they belong.
LEMMA LocksStep == LocksKept /\ [Next]_vars => LocksKept'
<1> SUFFICES ASSUME LocksKept, [Next]_vars PROVE LocksKept'
  OBVIOUS
<1>1. CASE Loop
  <2>1. UNCHANGED <<wpc, olock, glock>> /\ lpc # "crashed"
    BY <1>1
    DEF Loop, StartIce, ScheduleTimer, KickoffRelay, Ask, AskReturns, FreeBegin, FreeSteps,
        FreeTimer, FreeRelay, FreeRelayLock, FreeIce, FreeEnd, lockVars
  <2> QED BY <2>1 DEF LocksKept
<1>2. CASE Worker
  <2>a. /\ lpc # "crashed"
        /\ olock = IF wpc = "T2" THEN "worker" ELSE "none"
        /\ glock = IF wpc = "K2" THEN "worker" ELSE "none"
    BY <1>2 DEF Worker, LocksKept
  <2>b. \A from : ReturnPc(from) \notin {"T2", "K2"}
    BY DEF ReturnPc
  <2>1. CASE NoTimerDue \/ NoNetEvent \/ RoundDone \/ TimersDone
    BY <2>1, <2>a DEF NoTimerDue, NoNetEvent, RoundDone, TimersDone, CheckStop, lockVars, LocksKept
  <2>2. ASSUME NEW r \in {"ok", "failed"}, IceEnds(r) PROVE LocksKept'
    BY <2>2, <2>a DEF IceEnds, lockVars, LocksKept
  <2>3. CASE IceStores
    BY <2>3, <2>a DEF IceStores, lockVars, LocksKept
  <2>4. CASE RelayTakesLock
    BY <2>4, <2>a DEF RelayTakesLock, LocksKept
  <2>5. CASE RelayTells
    BY <2>5, <2>a, <2>b DEF RelayTells, LocksKept
  <2>6. CASE TellUser
    BY <2>6, <2>a, <2>b DEF TellUser, lockVars, LocksKept
  <2>7. CASE IceTimerDue \/ RelayTimerDue \/ RelayPacket
    BY <2>7, <2>a DEF IceTimerDue, RelayTimerDue, RelayPacket, lockVars, LocksKept
  <2>8. CASE IceTimesOut
    BY <2>8, <2>a, <2>b DEF IceTimesOut, LocksKept
  <2>9. CASE TimeoutKicks
    BY <2>9, <2>a, <2>b DEF TimeoutKicks, LocksKept
  <2>10. ASSUME NEW r \in {"ok", "failed"}, RelayFinal(r) PROVE LocksKept'
    BY <2>10, <2>a DEF RelayFinal, LocksKept
  <2>11. CASE RelayGoesOn
    BY <2>11, <2>a, <2>b DEF RelayGoesOn, lockVars, LocksKept
  <2>12. CASE UsesFreed
    BY <2>12 DEF UsesFreed, LocksKept
  <2> QED
    BY <1>2, <2>1, <2>2, <2>3, <2>4, <2>5, <2>6, <2>7, <2>8, <2>9, <2>10, <2>11, <2>12 DEF Worker
<1>3. CASE UNCHANGED vars
  BY <1>3 DEF vars, lockVars, LocksKept
<1> QED BY <1>1, <1>2, <1>3 DEF Next

\* The opposite lock orders of timer_ice_cb and on_confice_complete cannot
\* block each other or the loop thread.
THEOREM LocksNeverCircle == Spec => []HolderGoesOn
<1>1. Init => LocksKept
  BY DEF Init, LocksKept
<1>2. LocksKept => HolderGoesOn
  BY DEF LocksKept, HolderGoesOn
<1> QED BY <1>1, <1>2, LocksStep, PTL DEF Spec

-------------------------------------------------------------------------------
(* How the two ends of a call are configured *)

(***************************************************************************)
(* Each end settles its configuration alone.  That they agree follows from *)
(* what each has told the other: the invariant says for each end what it   *)
(* has taken over, what its content says, and what it started with.        *)
(***************************************************************************)

\* The callee is made from a content of the caller, and the caller starts last.
SetupOrder ==
  /\ phase["callee"] # "none" => phase["caller"] \notin {"none", "waiting"}
  /\ phase["caller"] \in {"started", "crashed"} => phase["callee"] = "started"

\* What the caller is before it starts, and what it has told the callee.
CallerInv ==
  /\ phase["caller"] \in {"waiting", "ready"} =>
       relayMs["caller"] = ParsedRelay("caller")
  /\ phase["caller"] \in {"none", "waiting", "ready"} => ~remoteCands["caller"]
  /\ phase["caller"] = "ready" \/ phase["callee"] # "none" =>
       /\ content["caller"].relay = ParsedRelay("caller")
       /\ content["caller"].force = force["caller"]

\* What the callee has taken over from the caller, and what it has told it.
CalleeInv ==
  /\ Exists("callee") \/ phase["callee"] = "crashed" =>
       /\ relayMs["callee"] = AdoptedRelay(ParsedRelay("callee"), content["caller"])
       /\ remoteCands["callee"] <=> content["caller"].cands
       /\ force["caller"] => force["callee"]
  /\ phase["callee"] \in {"ready", "started"} =>
       /\ content["callee"].relay = relayMs["callee"]
       /\ content["callee"].force = force["callee"]

\* What a side that has started, or crashed at it, made of its settings.
Began(p, q) ==
  /\ phase[p] = "started" =>
       /\ confice[p] = IF p \in relayMs[p].for THEN relayMs[p].session ELSE 0
       /\ iceStarted[p] <=> ~force[p]
  /\ phase[p] = "crashed" => p \in relayMs[p].for /\ ~content[q].cands

StartedInv ==
  /\ Began("caller", "callee") /\ Began("callee", "caller")
  /\ phase["caller"] \in {"started", "crashed"} =>
       relayMs["caller"] = AdoptedRelay(ParsedRelay("caller"), content["callee"])
  /\ phase["caller"] = "started" /\ confice["caller"] # 0 =>
       (kicked["caller"] <=> force["caller"] \/ force["callee"])

SetupInv == SetupTypeOK /\ SetupOrder /\ CallerInv /\ CalleeInv /\ StartedInv

\* Each side has the other one for its peer.
LEMMA Others == Other("caller") = "callee" /\ Other("callee") = "caller"
<1>1. \A p \in Peers : \E q \in Peers : q # p
  BY DEF Peers
<1>2. \A p \in Peers : Other(p) \in Peers /\ Other(p) # p
  BY <1>1 DEF Other
<1> QED BY <1>2 DEF Peers

\* parse_eice_config and parse_turn_config give settings of the right types.
LEMMA ParsedTypes ==
  ASSUME given \in [Peers -> Given], NEW p \in Peers
  PROVE  /\ ParsedAddrs(p) \in TurnAddrs
         /\ \A family \in Families : ParsedHost(p, family) \in Address
         /\ ParsedRelay(p) \in Relay
         /\ FirstServer(ParsedAddrs(p)) \in Address
<1>1. given[p] \in Given
  OBVIOUS
<1>2. /\ given[p].turnAddrs \in {"null", "empty", "some"}
      /\ given[p].for \in SUBSET Peers
  BY <1>1 DEF Given
<1>3. ParsedAddrs(p) \in TurnAddrs
  BY <1>2 DEF ParsedAddrs, TurnAddrs
<1>4. \A family \in Families : ParsedHost(p, family) \in Address
  BY DEF ParsedHost, Address, Nobody, Families
<1>5. ParsedRelay(p) \in Relay
  BY <1>2 DEF ParsedRelay, Relay, NullRelay
<1>6. \A a : FirstServer(a) \in Address
  BY DEF FirstServer, Address, Nobody, Families
<1> QED BY <1>3, <1>4, <1>5, <1>6

\* What parse_content takes over has the right types.
LEMMA AdoptedTypes ==
  ASSUME NEW c \in Content
  PROVE  /\ \A own \in Relay : AdoptedRelay(own, c) \in Relay
         /\ \A own \in TurnAddrs : AdoptedAddrs(own, c) \in TurnAddrs
         /\ \A own \in Address : AdoptedServer(own, c) \in Address
         /\ \A own \in Address : AdoptedHost(own, c) \in Address
         /\ c.force => \A own : /\ AdoptedServer(own, c) = Nobody
                                /\ AdoptedHost(own, c) = Nobody
<1>1. c.relay \in Relay /\ c.turnAddrs \in TurnAddrs /\ c.force \in BOOLEAN
  BY DEF Content
<1>2. \A a : FirstServer(a) \in Address
  BY DEF FirstServer, Address, Nobody, Families
<1>3. Nobody \in Address
  BY DEF Nobody, Address, Families
<1>4. \A own \in Relay : AdoptedRelay(own, c) \in Relay
  BY <1>1 DEF AdoptedRelay
<1>5. \A own \in TurnAddrs : AdoptedAddrs(own, c) \in TurnAddrs
  BY <1>1 DEF AdoptedAddrs, TurnAddrs
<1>6. \A own \in Address : AdoptedServer(own, c) \in Address
  BY <1>1, <1>2, <1>3 DEF AdoptedServer
<1>7. \A own \in Address : AdoptedHost(own, c) \in Address
  BY <1>1, <1>2, <1>3 DEF AdoptedHost
<1>8. c.force => \A own : /\ AdoptedServer(own, c) = Nobody
                          /\ AdoptedHost(own, c) = Nobody
  BY DEF AdoptedServer, AdoptedHost
<1> QED BY <1>4, <1>5, <1>6, <1>7, <1>8

\* eice_new keeps the types, whatever the conversions find.
LEMMA MadeTypes ==
  ASSUME SetupTypeOK, NEW p \in Peers, NEW family \in Families,
         NEW host \in Address, NEW addrs \in TurnAddrs, NEW addr \in Address,
         NEW rel \in Relay, Made(p, family, host, addrs, addr, rel)
  PROVE  /\ phase' \in [Peers -> {"none", "waiting", "ready", "started", "freed", "crashed"}]
         /\ af' \in [Peers -> Families]
         /\ turnHost' \in [Peers -> Address]
         /\ turnAddrs' \in [Peers -> TurnAddrs]
         /\ server' \in [Peers -> Address]
         /\ relayMs' \in [Peers -> Relay]
         /\ force' \in [Peers -> BOOLEAN]
<1>1. Converted(addr, family) \subseteq Address
  BY DEF Converted, Address, Families
<1>2. PICK bound \in Address : server' = [server EXCEPT ![p] = bound]
  BY <1>1 DEF Made
<1>3. server' \in [Peers -> Address]
  BY <1>2 DEF SetupTypeOK
<1>4. force' \in [Peers -> BOOLEAN]
  BY DEF Made, SetupTypeOK, NoServer
<1>5. /\ phase' = [phase EXCEPT ![p] = "waiting"]
      /\ af' = [af EXCEPT ![p] = family]
      /\ turnHost' = [turnHost EXCEPT ![p] = host]
      /\ turnAddrs' = [turnAddrs EXCEPT ![p] = addrs]
      /\ relayMs' = [relayMs EXCEPT ![p] = rel]
  BY DEF Made
<1> QED BY <1>3, <1>4, <1>5 DEF SetupTypeOK

\* eice_new_caller
LEMMA NewCallerStep ==
  ASSUME SetupInv, NewCaller
  PROVE  SetupInv'
<1>a. /\ phase["caller"] = "none" /\ phase["callee"] = "none"
      /\ "caller" \in Peers /\ "callee" \in Peers
      /\ Peers = {"caller", "callee"}
  BY DEF NewCaller, SetupInv, SetupOrder, Peers
<1>b. /\ SetupTypeOK
      /\ UNCHANGED <<given, initDone, remoteForce, remoteCands, content, confice, iceStarted, kicked>>
  BY DEF NewCaller, SetupInv, remoteVars, startVars
<1>c. PICK family \in Families :
        Made("caller", family, ParsedHost("caller", family), ParsedAddrs("caller"),
             FirstServer(ParsedAddrs("caller")), ParsedRelay("caller"))
  BY DEF NewCaller
<1>1. SetupTypeOK'
  <2>1. given \in [Peers -> Given]
    BY <1>b DEF SetupTypeOK
  <2> QED BY <1>a, <1>b, <1>c, <2>1, MadeTypes, ParsedTypes DEF SetupTypeOK
<1>2. /\ phase' = [phase EXCEPT !["caller"] = "waiting"]
      /\ relayMs' = [relayMs EXCEPT !["caller"] = ParsedRelay("caller")]
  BY <1>c DEF Made
<1>3. ParsedRelay("caller")' = ParsedRelay("caller")
  BY <1>b DEF ParsedRelay
<1>d. /\ phase'["caller"] = "waiting" /\ phase'["callee"] = "none"
      /\ relayMs'["caller"] = ParsedRelay("caller")
  BY <1>a, <1>b, <1>2 DEF SetupTypeOK
<1>4. SetupOrder' /\ CallerInv' /\ CalleeInv'
  BY <1>a, <1>b, <1>d, <1>3 DEF SetupInv, CallerInv, SetupOrder, CalleeInv, Exists
<1>5. StartedInv'
  BY <1>d DEF StartedInv, Began
<1> QED BY <1>1, <1>4, <1>5 DEF SetupInv

\* eice_new_callee
LEMMA NewCalleeStep ==
  ASSUME SetupInv, NewCallee
  PROVE  SetupInv'
<1> DEFINE c == content["caller"]
           host(f) == AdoptedHost(ParsedHost("callee", f), c)
           addrs == AdoptedAddrs(ParsedAddrs("callee"), c)
           addr == AdoptedServer(FirstServer(ParsedAddrs("callee")), c)
           rel == AdoptedRelay(ParsedRelay("callee"), c)
<1>a. /\ phase["caller"] = "ready" /\ phase["callee"] = "none"
      /\ "caller" \in Peers /\ "callee" \in Peers
      /\ Peers = {"caller", "callee"}
  BY DEF NewCallee, Peers
<1>b. /\ SetupTypeOK
      /\ UNCHANGED <<given, initDone, content, confice, iceStarted, kicked>>
      /\ remoteForce' = [remoteForce EXCEPT !["callee"] = c.force]
      /\ remoteCands' = [remoteCands EXCEPT !["callee"] = c.cands]
  BY DEF NewCallee, SetupInv, startVars, RemoteCands
<1>c. PICK family \in Families : Made("callee", family, host(family), addrs, addr, rel)
  BY DEF NewCallee
<1>d. c \in Content /\ c.force \in BOOLEAN /\ c.cands \in BOOLEAN
  BY <1>a, <1>b DEF SetupTypeOK, Content
<1>e. /\ host(family) \in Address /\ addrs \in TurnAddrs /\ addr \in Address
      /\ rel \in Relay
      /\ c.force => host(family) = Nobody /\ addr = Nobody
  <2>1. given \in [Peers -> Given]
    BY <1>b DEF SetupTypeOK
  <2> QED BY <1>a, <1>d, <2>1, ParsedTypes, AdoptedTypes
<1>f. /\ c.relay = ParsedRelay("caller")
      /\ c.force = force["caller"]
      /\ relayMs["caller"] = ParsedRelay("caller") /\ ~remoteCands["caller"]
  BY <1>a DEF SetupInv, CallerInv
<1>2. /\ phase' = [phase EXCEPT !["callee"] = "waiting"]
      /\ relayMs' = [relayMs EXCEPT !["callee"] = rel]
      /\ force' = [force EXCEPT !["callee"] = NoServer(host(family), addr)]
  BY <1>c DEF Made
<1>3. /\ ParsedRelay("caller")' = ParsedRelay("caller")
      /\ rel' = rel
  BY <1>b DEF ParsedRelay, AdoptedRelay
<1>g. remoteForce' \in [Peers -> BOOLEAN] /\ remoteCands' \in [Peers -> BOOLEAN]
  BY <1>b, <1>d DEF SetupTypeOK
<1> HIDE DEF c, host, addrs, addr, rel
<1>1. SetupTypeOK'
  BY <1>a, <1>b, <1>c, <1>e, <1>g, MadeTypes DEF SetupTypeOK
<1>h. /\ phase'["caller"] = "ready" /\ phase'["callee"] = "waiting"
      /\ relayMs'["caller"] = relayMs["caller"] /\ relayMs'["callee"] = rel
      /\ force'["caller"] = force["caller"] /\ remoteCands'["caller"] = remoteCands["caller"]
      /\ remoteCands'["callee"] = c.cands
      /\ force["caller"] => force'["callee"]
  <2>1. force["caller"] => NoServer(host(family), addr)
    BY <1>e, <1>f DEF NoServer
  <2> QED BY <1>a, <1>b, <1>2, <2>1 DEF SetupTypeOK
<1>4. SetupOrder' /\ CallerInv' /\ CalleeInv'
  <2>1. SetupOrder'
    BY <1>h DEF SetupOrder
  <2>2. CallerInv'
    BY <1>b, <1>f, <1>h, <1>3 DEF CallerInv, c
  <2>3. CalleeInv'
    BY <1>b, <1>f, <1>h, <1>3 DEF CalleeInv, Exists, c, rel
  <2> QED BY <2>1, <2>2, <2>3
<1>5. StartedInv'
  BY <1>h DEF StartedInv, Began
<1> QED BY <1>1, <1>4, <1>5 DEF SetupInv

\* A side that fails, or whose ICE is initialised, changes nothing that was told.
LEMMA QuietStep ==
  ASSUME SetupInv, NEW p \in Peers,
         \/ NewFails(p) \/ InitDone(p) \/ LocalFails(p) \/ StartFails(p)
  PROVE  SetupInv'
<1>a. /\ UNCHANGED <<given, af, turnHost, turnAddrs, server, relayMs, force, remoteForce,
                     remoteCands, content, confice, iceStarted, kicked>>
      /\ phase' = phase \/ phase' = [phase EXCEPT ![p] = "freed"]
      /\ phase[p] # "started"
      /\ phase[p] = "none" /\ p = "callee" => phase' = phase \/ phase["caller"] = "ready"
      /\ initDone' = initDone \/ initDone' = [initDone EXCEPT ![p] = TRUE]
  BY DEF SetupInv, SetupOrder, NewFails, InitDone, LocalFails, StartFails,
         settingVars, remoteVars, startVars
<1>b. SetupTypeOK /\ Peers = {"caller", "callee"}
  BY DEF SetupInv, Peers
<1>c. \A q \in Peers : phase'[q] = phase[q] \/ (q = p /\ phase'[q] = "freed")
  BY <1>a, <1>b DEF SetupTypeOK
<1>1. SetupTypeOK'
  <2>1. initDone' \in [Peers -> BOOLEAN]
    BY <1>a, <1>b DEF SetupTypeOK
  <2> QED BY <1>a, <1>b, <2>1 DEF SetupTypeOK
<1>2. SetupOrder' /\ CallerInv' /\ CalleeInv'
  BY <1>a, <1>b, <1>c
  DEF SetupInv, SetupOrder, CallerInv, CalleeInv, Exists, ParsedRelay, AdoptedRelay
<1>3. StartedInv'
  BY <1>a, <1>b, <1>c DEF SetupInv, StartedInv, Began, ParsedRelay, AdoptedRelay
<1> QED BY <1>1, <1>2, <1>3 DEF SetupInv

\* eice_get_local
LEMMA GetLocalStep ==
  ASSUME SetupInv, NEW p \in Peers, GetLocal(p)
  PROVE  SetupInv'
<1>0. PICK cands \in BOOLEAN :
        content' = [content EXCEPT ![p] =
          [cands |-> cands, relay |-> relayMs[p], turnAddrs |-> turnAddrs[p], force |-> force[p]]]
  BY DEF GetLocal
<1> DEFINE c == [cands |-> cands, relay |-> relayMs[p], turnAddrs |-> turnAddrs[p],
                 force |-> force[p]]
<1>a. /\ UNCHANGED <<given, initDone, af, turnHost, turnAddrs, server, relayMs, force,
                     remoteForce, remoteCands, confice, iceStarted, kicked>>
      /\ content' = [content EXCEPT ![p] = c]
      /\ phase' = [phase EXCEPT ![p] = "ready"]
      /\ phase[p] = "waiting"
  BY <1>0 DEF GetLocal, Waited, settingVars, remoteVars, startVars
<1>b. SetupTypeOK /\ Peers = {"caller", "callee"}
  BY DEF SetupInv, Peers
<1>c. c \in Content /\ c.relay = relayMs[p] /\ c.force = force[p]
  BY <1>a, <1>b DEF SetupTypeOK, Content
<1> HIDE DEF c
<1>1. SetupTypeOK'
  <2>1. content' \in [Peers -> Content]
    BY <1>a, <1>b, <1>c DEF SetupTypeOK
  <2> QED BY <1>a, <1>b, <2>1 DEF SetupTypeOK
<1>d. \A q \in Peers : /\ phase'[q] = IF q = p THEN "ready" ELSE phase[q]
                       /\ content'[q] = IF q = p THEN c ELSE content[q]
  BY <1>a, <1>b DEF SetupTypeOK
<1>e. /\ phase'["caller"] = IF p = "caller" THEN "ready" ELSE phase["caller"]
      /\ phase'["callee"] = IF p = "callee" THEN "ready" ELSE phase["callee"]
      /\ content'["caller"] = IF p = "caller" THEN c ELSE content["caller"]
      /\ content'["callee"] = IF p = "callee" THEN c ELSE content["callee"]
      /\ p = "caller" \/ p = "callee"
  BY <1>b, <1>d
<1>2. SetupOrder'
  BY <1>a, <1>e DEF SetupInv, SetupOrder
<1>3. p = "caller" => phase["callee"] = "none"
  BY <1>a, <1>b DEF SetupInv, SetupOrder, SetupTypeOK
<1>4. CallerInv'
  BY <1>a, <1>c, <1>e, <1>3 DEF SetupInv, CallerInv, ParsedRelay
<1>5. CalleeInv'
  BY <1>a, <1>c, <1>e, <1>3
  DEF SetupInv, CalleeInv, Exists, ParsedRelay, AdoptedRelay
<1>6. StartedInv'
  <2>1. phase'["caller"] \notin {"started", "crashed"}
    BY <1>a, <1>b, <1>e DEF SetupInv, SetupOrder
  <2>2. Began("callee", "caller")'
    BY <1>a, <1>e, <1>3 DEF SetupInv, StartedInv, Began
  <2> QED BY <2>1, <2>2 DEF StartedInv, Began
<1> QED BY <1>1, <1>2, <1>4, <1>5, <1>6 DEF SetupInv

\* What eice_start_nego does to a side, with the relay rel and the other's content c.
LEMMA StartEffect ==
  ASSUME SetupTypeOK, NEW p \in Peers, NEW q \in Peers, q = Other(p), StartNego(p),
         NEW rel,
         rel = IF TakesIn(p) THEN AdoptedRelay(relayMs[p], content[q]) ELSE relayMs[p]
  PROVE  /\ SetupTypeOK'
         /\ UNCHANGED <<given, force, content>>
         /\ relayMs' = [relayMs EXCEPT ![p] = rel]
         /\ \A o \in Peers \ {p} : /\ confice'[o] = confice[o]
                                   /\ iceStarted'[o] <=> iceStarted[o]
                                   /\ kicked'[o] <=> kicked[o]
                                   /\ remoteCands'[o] <=> remoteCands[o]
         /\ remoteCands'[p] <=> remoteCands[p] \/ content[q].cands
         /\ \/ /\ phase' = [phase EXCEPT ![p] = "crashed"]
               /\ p \in rel.for /\ ~remoteCands[p] /\ ~content[q].cands
            \/ /\ phase' = [phase EXCEPT ![p] = "started"]
               /\ confice'[p] = IF p \in rel.for THEN rel.session ELSE 0
               /\ iceStarted'[p] <=> ~force[p]
               /\ kicked'[p] <=> /\ p \in rel.for
                                 /\ SelectsAtOnce(p, IF TakesIn(p) THEN content[q].force
                                                                   ELSE remoteForce[p])
<1> DEFINE cands == remoteCands[p] \/ content[q].cands
           remote == IF TakesIn(p) THEN content[q].force ELSE remoteForce[p]
           named == p \in rel.for
<1>1. /\ IF TakesIn(p) /\ p = "callee" THEN TakesInAgain(content[q])
                                       ELSE UNCHANGED <<turnHost, turnAddrs, server>>
      /\ relayMs' = [relayMs EXCEPT ![p] = rel]
      /\ remoteCands' = [remoteCands EXCEPT ![p] = cands]
      /\ remoteForce' = [remoteForce EXCEPT ![p] = remote]
      /\ \/ /\ named /\ ~cands
            /\ phase' = [phase EXCEPT ![p] = "crashed"]
            /\ UNCHANGED <<confice, iceStarted, kicked>>
         \/ /\ phase' = [phase EXCEPT ![p] = "started"]
            /\ confice' = [confice EXCEPT ![p] = IF named THEN rel.session ELSE 0]
            /\ iceStarted' = [iceStarted EXCEPT ![p] = ~force[p]]
            /\ kicked' = [kicked EXCEPT ![p] = named /\ SelectsAtOnce(p, remote)]
      /\ UNCHANGED <<given, initDone, af, force, content>>
  BY DEF StartNego, RemoteCands, startVars
<1>2. /\ content[q] \in Content /\ content[q].force \in BOOLEAN
      /\ content[q].cands \in BOOLEAN /\ relayMs[p] \in Relay
      /\ remoteCands[p] \in BOOLEAN /\ remoteForce[p] \in BOOLEAN
  BY DEF SetupTypeOK, Content
<1>3. rel \in Relay /\ rel.session \in 0 .. 2
  <2>1. rel \in Relay
    BY <1>2, AdoptedTypes
  <2> QED BY <2>1 DEF Relay
<1>4. cands \in BOOLEAN /\ remote \in BOOLEAN /\ (named /\ SelectsAtOnce(p, remote)) \in BOOLEAN
  BY <1>2
<1> HIDE DEF cands, remote, named
<1>5. /\ turnHost' \in [Peers -> Address] /\ turnAddrs' \in [Peers -> TurnAddrs]
      /\ server' \in [Peers -> Address]
  <2>1. CASE TakesIn(p) /\ p = "callee"
    <3>1. /\ turnHost["callee"] \in Address /\ server["callee"] \in Address
          /\ turnAddrs["callee"] \in TurnAddrs
      BY <2>1 DEF SetupTypeOK
    <3>2. /\ AdoptedHost(turnHost["callee"], content[q]) \in Address
          /\ AdoptedServer(server["callee"], content[q]) \in Address
          /\ AdoptedAddrs(turnAddrs["callee"], content[q]) \in TurnAddrs
      BY <1>2, <3>1, AdoptedTypes
    <3> QED BY <1>1, <2>1, <3>2 DEF TakesInAgain, SetupTypeOK
  <2>2. CASE ~(TakesIn(p) /\ p = "callee")
    BY <1>1, <2>2 DEF SetupTypeOK
  <2> QED BY <2>1, <2>2
<1>6. /\ iceStarted' \in [Peers -> BOOLEAN] /\ kicked' \in [Peers -> BOOLEAN]
      /\ remoteCands' \in [Peers -> BOOLEAN] /\ remoteForce' \in [Peers -> BOOLEAN]
  BY <1>1, <1>4 DEF SetupTypeOK
<1>7. confice' \in [Peers -> 0 .. 2]
  BY <1>1, <1>3 DEF SetupTypeOK
<1>8. SetupTypeOK'
  BY <1>1, <1>3, <1>5, <1>6, <1>7 DEF SetupTypeOK
<1>9. /\ remoteCands'[p] <=> cands
      /\ \A o \in Peers \ {p} : /\ confice'[o] = confice[o]
                                /\ iceStarted'[o] <=> iceStarted[o]
                                /\ kicked'[o] <=> kicked[o]
                                /\ remoteCands'[o] <=> remoteCands[o]
  BY <1>1 DEF SetupTypeOK
<1>10. ASSUME phase' # [phase EXCEPT ![p] = "crashed"]
       PROVE  /\ confice'[p] = IF named THEN rel.session ELSE 0
              /\ iceStarted'[p] <=> ~force[p]
              /\ kicked'[p] <=> named /\ SelectsAtOnce(p, remote)
  BY <1>1, <1>10 DEF SetupTypeOK
<1>11. \/ phase' = [phase EXCEPT ![p] = "crashed"] /\ named /\ ~cands
       \/ /\ phase' = [phase EXCEPT ![p] = "started"]
          /\ phase' # [phase EXCEPT ![p] = "crashed"]
  BY <1>1 DEF SetupTypeOK
<1> QED BY <1>1, <1>8, <1>9, <1>10, <1>11 DEF cands, remote, named

\* eice_start_nego in the callee, which has the caller's content already
LEMMA CalleeStartStep ==
  ASSUME SetupInv, StartNego("callee")
  PROVE  SetupInv'
<1> DEFINE rel == relayMs["callee"]
<1>a. /\ SetupTypeOK /\ phase["callee"] = "ready"
      /\ "caller" \in Peers \ {"callee"} /\ "callee" \in Peers
  BY DEF SetupInv, Peers, StartNego
<1>b. /\ rel = AdoptedRelay(ParsedRelay("callee"), content["caller"])
      /\ remoteCands["callee"] <=> content["caller"].cands
  BY <1>a DEF SetupInv, CalleeInv, Exists
<1>c. rel = IF TakesIn("callee") THEN AdoptedRelay(relayMs["callee"], content["caller"])
                                 ELSE relayMs["callee"]
  BY <1>b DEF AdoptedRelay
<1>d. /\ SetupTypeOK'
      /\ UNCHANGED <<given, force, content>>
      /\ relayMs' = [relayMs EXCEPT !["callee"] = rel]
      /\ confice'["caller"] = confice["caller"]
      /\ iceStarted'["caller"] <=> iceStarted["caller"]
      /\ kicked'["caller"] <=> kicked["caller"]
      /\ remoteCands'["caller"] <=> remoteCands["caller"]
      /\ remoteCands'["callee"] <=> content["caller"].cands
      /\ \/ /\ phase' = [phase EXCEPT !["callee"] = "crashed"]
            /\ "callee" \in rel.for /\ ~content["caller"].cands
         \/ /\ phase' = [phase EXCEPT !["callee"] = "started"]
            /\ confice'["callee"] = IF "callee" \in rel.for THEN rel.session ELSE 0
            /\ iceStarted'["callee"] <=> ~force["callee"]
  BY <1>a, <1>b, <1>c, Others, StartEffect
<1>e. /\ phase'["caller"] = phase["caller"]
      /\ phase["caller"] \notin {"started", "crashed"}
      /\ phase["caller"] \notin {"none", "waiting"}
      /\ relayMs'["caller"] = relayMs["caller"] /\ relayMs'["callee"] = rel
      /\ phase'["callee"] = "started" \/ phase'["callee"] = "crashed"
  BY <1>a, <1>d DEF SetupTypeOK, SetupInv, SetupOrder
<1>f. ParsedRelay("caller")' = ParsedRelay("caller") /\ ParsedRelay("callee")' = ParsedRelay("callee")
  BY <1>d DEF ParsedRelay
<1>2. SetupOrder' /\ CallerInv'
  BY <1>a, <1>d, <1>e, <1>f DEF SetupInv, SetupOrder, CallerInv
<1>3. CalleeInv'
  BY <1>a, <1>d, <1>e, <1>f DEF SetupInv, CalleeInv, Exists, AdoptedRelay
<1>4. Began("callee", "caller")'
  BY <1>a, <1>d, <1>e DEF Began, SetupTypeOK
<1>5. StartedInv'
  BY <1>e, <1>4 DEF StartedInv, Began
<1> QED BY <1>d, <1>2, <1>3, <1>5 DEF SetupInv

\* eice_start_nego in the caller, which takes the callee's content in
LEMMA CallerStartStep ==
  ASSUME SetupInv, StartNego("caller")
  PROVE  SetupInv'
<1> DEFINE rel == AdoptedRelay(relayMs["caller"], content["callee"])
<1>a. /\ SetupTypeOK /\ phase["caller"] = "ready" /\ phase["callee"] = "started"
      /\ "callee" \in Peers \ {"caller"} /\ "caller" \in Peers
  BY DEF SetupInv, Peers, StartNego
<1>b. /\ TakesIn("caller") /\ ~remoteCands["caller"]
      /\ relayMs["caller"] = ParsedRelay("caller")
      /\ content["callee"].relay = relayMs["callee"]
      /\ content["callee"].force = force["callee"]
  BY <1>a DEF SetupInv, CallerInv, CalleeInv, TakesIn
<1>d. /\ SetupTypeOK'
      /\ UNCHANGED <<given, force, content>>
      /\ relayMs' = [relayMs EXCEPT !["caller"] = rel]
      /\ confice'["callee"] = confice["callee"]
      /\ iceStarted'["callee"] <=> iceStarted["callee"]
      /\ remoteCands'["callee"] <=> remoteCands["callee"]
      /\ \/ /\ phase' = [phase EXCEPT !["caller"] = "crashed"]
            /\ "caller" \in rel.for /\ ~content["callee"].cands
         \/ /\ phase' = [phase EXCEPT !["caller"] = "started"]
            /\ confice'["caller"] = IF "caller" \in rel.for THEN rel.session ELSE 0
            /\ iceStarted'["caller"] <=> ~force["caller"]
            /\ kicked'["caller"] <=> /\ "caller" \in rel.for
                                     /\ SelectsAtOnce("caller", content["callee"].force)
  BY <1>a, <1>b, Others, StartEffect
<1>e. /\ phase'["callee"] = "started"
      /\ relayMs'["callee"] = relayMs["callee"] /\ relayMs'["caller"] = rel
      /\ phase'["caller"] = "started" \/ phase'["caller"] = "crashed"
  BY <1>a, <1>d DEF SetupTypeOK
<1>f. /\ ParsedRelay("caller")' = ParsedRelay("caller") /\ ParsedRelay("callee")' = ParsedRelay("callee")
      /\ rel = AdoptedRelay(ParsedRelay("caller"), content["callee"])'
  BY <1>b, <1>d DEF ParsedRelay, AdoptedRelay
<1>2. SetupOrder' /\ CallerInv'
  BY <1>a, <1>d, <1>e, <1>f DEF SetupInv, SetupOrder, CallerInv
<1>3. CalleeInv'
  BY <1>a, <1>d, <1>e, <1>f DEF SetupInv, CalleeInv, Exists, AdoptedRelay
<1> HIDE DEF rel
<1>4. Began("caller", "callee")' /\ Began("callee", "caller")'
  <2>1. Began("caller", "callee")'
    BY <1>a, <1>d, <1>e DEF Began, SetupTypeOK
  <2>2. Began("callee", "caller")'
    BY <1>a, <1>d, <1>e DEF SetupInv, StartedInv, Began
  <2> QED BY <2>1, <2>2
<1>5. phase'["caller"] = "started" /\ confice'["caller"] # 0 =>
        (kicked'["caller"] <=> force'["caller"] \/ force'["callee"])
  <2>1. SelectsAtOnce("caller", content["callee"].force) <=> force["caller"] \/ force["callee"]
    BY <1>b DEF SelectsAtOnce
  <2>2. phase'["caller"] = "started" => phase' # [phase EXCEPT !["caller"] = "crashed"]
    BY <1>a DEF SetupTypeOK
  <2> QED BY <1>d, <2>1, <2>2
<1>6. StartedInv'
  BY <1>e, <1>f, <1>4, <1>5 DEF StartedInv
<1> QED BY <1>d, <1>2, <1>3, <1>6 DEF SetupInv

\* The two ends are consistent at first, and every step keeps them so.
LEMMA SetupInvAlways == SetupSpec => []SetupInv
<1>1. ASSUME SetupInit PROVE SetupInv
  <2>1. SetupTypeOK
    <3>1. given \in [Peers -> Given]
      BY <1>1 DEF SetupInit
    <3>2. /\ Nobody \in Address /\ NullRelay \in Relay
          /\ "null" \in TurnAddrs
      BY DEF Nobody, Address, Families, NullRelay, Relay, TurnAddrs
    <3>3. NoContent \in Content
      BY <3>2 DEF NoContent, Content
    <3>4. /\ initDone \in [Peers -> BOOLEAN] /\ force \in [Peers -> BOOLEAN]
          /\ remoteForce \in [Peers -> BOOLEAN] /\ remoteCands \in [Peers -> BOOLEAN]
          /\ iceStarted \in [Peers -> BOOLEAN] /\ kicked \in [Peers -> BOOLEAN]
      BY <1>1 DEF SetupInit
    <3>5. /\ phase \in [Peers -> {"none", "waiting", "ready", "started", "freed", "crashed"}]
          /\ af \in [Peers -> Families] /\ confice \in [Peers -> 0 .. 2]
          /\ turnHost \in [Peers -> Address] /\ server \in [Peers -> Address]
          /\ turnAddrs \in [Peers -> TurnAddrs]
          /\ relayMs \in [Peers -> Relay]
          /\ content \in [Peers -> Content]
      BY <1>1, <3>2, <3>3 DEF SetupInit, Families
    <3> QED BY <3>1, <3>4, <3>5 DEF SetupTypeOK
  <2>2. SetupOrder /\ CallerInv /\ CalleeInv /\ StartedInv
    BY <1>1 DEF SetupInit, SetupOrder, CallerInv, CalleeInv, StartedInv, Began, Exists, Peers
  <2> QED BY <2>1, <2>2 DEF SetupInv
<1>2. SetupInv /\ [SetupNext]_setupVars => SetupInv'
  <2> SUFFICES ASSUME SetupInv, [SetupNext]_setupVars PROVE SetupInv'
    OBVIOUS
  <2>1. CASE NewCaller
    BY <2>1, NewCallerStep
  <2>2. CASE NewCallee
    BY <2>2, NewCalleeStep
  <2>3. ASSUME NEW p \in Peers,
               \/ NewFails(p) \/ InitDone(p) \/ LocalFails(p) \/ StartFails(p)
        PROVE  SetupInv'
    BY <2>3, QuietStep
  <2>4. ASSUME NEW p \in Peers, GetLocal(p) PROVE SetupInv'
    BY <2>4, GetLocalStep
  <2>5. ASSUME NEW p \in Peers, StartNego(p) PROVE SetupInv'
    BY <2>5, CalleeStartStep, CallerStartStep DEF Peers
  <2>6. CASE UNCHANGED setupVars
    BY <2>6
    DEF setupVars, settingVars, remoteVars, startVars, SetupInv, SetupOrder,
        CallerInv, CalleeInv, StartedInv, Began, SetupTypeOK, Exists, ParsedRelay,
        AdoptedRelay
  <2> QED BY <2>1, <2>2, <2>3, <2>4, <2>5, <2>6 DEF SetupNext
<1> QED BY <1>1, <1>2, PTL DEF SetupSpec

\* Whichever end was configured with a relay, each end that it names has a relay
\* object of its session once it has started; and an end crashes at its start
\* only where the other's content had no candidates for it.
THEOREM SetupRelays == SetupSpec => []RelayReachesBoth
<1>1. ASSUME SetupInv PROVE RelayReachesBoth
  <2>1. ASSUME phase["callee"] \in {"started", "crashed"}
        PROVE  relayMs["callee"] = RelayOf("callee")
    <3>1. /\ relayMs["callee"] = AdoptedRelay(ParsedRelay("callee"), content["caller"])
          /\ content["caller"].relay = ParsedRelay("caller")
      BY <1>1, <2>1 DEF SetupInv, CallerInv, CalleeInv, Exists
    <3> QED BY <3>1, Others DEF RelayOf, AdoptedRelay, ParsedRelay, NullRelay
  <2>2. ASSUME phase["caller"] \in {"started", "crashed"}
        PROVE  relayMs["caller"] = RelayOf("caller")
    <3>1. /\ phase["callee"] = "started"
          /\ relayMs["caller"] = AdoptedRelay(ParsedRelay("caller"), content["callee"])
          /\ content["callee"].relay = relayMs["callee"]
      BY <1>1, <2>2 DEF SetupInv, SetupOrder, StartedInv, CalleeInv
    <3>2. relayMs["callee"] = RelayOf("callee")
      BY <2>1, <3>1
    <3> QED BY <3>1, <3>2, Others DEF RelayOf, AdoptedRelay, ParsedRelay, NullRelay
  <2>3. Began("caller", "callee") /\ Began("callee", "caller")
    BY <1>1 DEF SetupInv, StartedInv
  <2>4. /\ phase["caller"] = "started" =>
             confice["caller"] = IF "caller" \in RelayOf("caller").for
                                   THEN RelayOf("caller").session ELSE 0
        /\ phase["caller"] = "crashed" =>
             "caller" \in RelayOf("caller").for /\ ~content["callee"].cands
    BY <2>2, <2>3 DEF Began
  <2>5. /\ phase["callee"] = "started" =>
             confice["callee"] = IF "callee" \in RelayOf("callee").for
                                   THEN RelayOf("callee").session ELSE 0
        /\ phase["callee"] = "crashed" =>
             "callee" \in RelayOf("callee").for /\ ~content["caller"].cands
    BY <2>1, <2>3 DEF Began
  <2> QED BY <2>4, <2>5, Others DEF RelayReachesBoth, Peers
<1> QED BY <1>1, SetupInvAlways, PTL

\* A caller that forces the relay makes the callee force it, and it selects the
\* relay at once exactly when one of the two has no direct session.
THEOREM SetupPathsAgree == SetupSpec => []PathsAgree
<1>1. ASSUME SetupInv PROVE PathsAgree
  <2>1. ForcedTogether
    BY <1>1 DEF SetupInv, CalleeInv, ForcedTogether
  <2>2. SelectsWhenNoDirect
    BY <1>1 DEF SetupInv, SetupOrder, StartedInv, Began, SelectsWhenNoDirect, Peers
  <2> QED BY <2>1, <2>2 DEF PathsAgree
<1> QED BY <1>1, SetupInvAlways, PTL
==============================================================================
