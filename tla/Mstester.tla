------------------------------ MODULE Mstester -------------------------------
(***************************************************************************)
(* mstester.cpp: the bandwidth tester of eice.  It sends numbered packets  *)
(* to an echo server for some seconds and counts what comes back.          *)
(*                                                                         *)
(* Three threads share the object.  The user's thread starts, stops and    *)
(* frees it; the sending thread holds grp_lock while it sends and lets go  *)
(* of it while it sleeps; the worker polls a 2 s timer and the socket.     *)
(* What runs under grp_lock is one action, except where the lock is kept   *)
(* from one action to the next (lock).  Byte counts and bit rates follow   *)
(* the packet counts and are left out, as is err_pkts, which nobody reads. *)
(***************************************************************************)
EXTENDS Integers

CONSTANTS MaxSeq,    \* bound: packets that test_seconds leave time for
          MaxRuns,   \* bound: calls of mstester_start that start a test
          WarmUps,   \* warm_up_pkts
          MaxDelay,  \* bound: largest delay of an echo
          Word       \* 2^32, the range of the packet counters

ASSUME BoundsAssumption ==
  /\ MaxSeq \in Nat \ {0} /\ MaxRuns \in Nat \ {0}
  /\ WarmUps \in Nat /\ MaxDelay \in Nat /\ Word \in Nat \ {0}

VARIABLES
  phase,     \* the object: none, live, then the steps of mstester_free
  state,     \* unit_state: READY, RUNNING or FINISH
  api,       \* what the user's thread is blocked in
  lock,      \* who keeps grp_lock from one action to the next
  sender,    \* where the sending thread of this test is
  leftover,  \* threads of earlier tests that are still in their last line
  stopReq,   \* send_thread_stop_req
  worker,    \* where the worker is
  quit,      \* thread_quit_flag
  heap,      \* the timer is in the timer heap
  sock,      \* the socket: none, bound, active or closed
  runs,      \* tests started
  sessionId,
  pktSeq,    \* pkt_seq
  sent,      \* sent_pkts
  recv,      \* recv_pkts
  expect,    \* expect_recv_seq
  lost,      \* seq_lost_count
  disorder,  \* disorder_count
  delay,     \* st_delay
  net        \* packets on their way to the echo server and back

threadVars == <<api, lock, sender, leftover, stopReq, worker, quit, heap>>
countVars == <<recv, expect, lost, disorder, delay>>
sendVars == <<sessionId, pktSeq, sent>>
vars == <<phase, state, threadVars, sock, runs, sendVars, countVars, net>>

\* copy tells the warm-up packets from each other; 0 is a packet of the test
Packet == [sid : 1 .. MaxRuns, seq : Nat, copy : 0 .. WarmUps]

-------------------------------------------------------------------------------
(* Helpers *)

\* statics_item_init
StatInit == [min |-> MaxDelay + 1, max |-> 0, sum |-> 0, count |-> 0, aver |-> 0]

\* statics_item_update
StatUpdate(item, v) ==
  [min |-> IF v < item.min THEN v ELSE item.min,
   max |-> IF v > item.max THEN v ELSE item.max,
   sum |-> item.sum + v, count |-> item.count + 1,
   aver |-> (item.sum + v) \div (item.count + 1)]

\* lostPackets of mstester_get_status: the difference of two unsigned counters
LostPackets == (sent - recv) % Word

Init ==
  /\ phase = "none" /\ state = "READY"
  /\ api = "none" /\ lock = "free" /\ sender = "none" /\ leftover = 0 /\ stopReq = FALSE
  /\ worker = "none" /\ quit = FALSE /\ heap = FALSE
  /\ sock = "none" /\ runs = 0
  /\ sessionId = 0 /\ pktSeq = 0 /\ sent = 0
  /\ recv = 0 /\ expect = 0 /\ lost = 0 /\ disorder = 0
  /\ delay = [min |-> 0, max |-> 0, sum |-> 0, count |-> 0, aver |-> 0]
  /\ net = {}

-------------------------------------------------------------------------------
(* The user's thread *)

\* it is in no call and may take the lock
MayCall == phase = "live" /\ api = "none" /\ lock = "free"

\* mstester_new with create_pjsock
New ==
  /\ phase = "none"
  /\ phase' = "live" /\ worker' = "idle" /\ sock' = "active"
  /\ UNCHANGED <<state, api, lock, sender, leftover, stopReq, quit, heap, runs, sendVars,
                 countVars, net>>

\* mstester_new fails before there is a lock; mstester_free goes on to take it
NewFailsUnlocked ==
  /\ phase = "none"
  /\ phase' = "crashed"
  /\ UNCHANGED <<state, threadVars, sock, runs, sendVars, countVars, net>>

\* mstester_new fails later, in create_pjsock with the worker at work, and calls mstester_free
NewFails(running, s) ==
  /\ phase = "none"
  /\ running \/ s = "none"
  /\ phase' = "freeSock" /\ worker' = (IF running THEN "idle" ELSE "done") /\ sock' = s
  /\ UNCHANGED <<state, api, lock, sender, leftover, stopReq, quit, heap, runs, sendVars,
                 countVars, net>>

\* _schedule_timer in mstester_start: refused for an entry that is in the heap
Scheduled == TRUE

\* mstester_start from READY or FINISH; from RUNNING it does nothing
Start ==
  /\ MayCall
  /\ state \in {"READY", "FINISH"}
  /\ runs < MaxRuns
  /\ runs' = runs + 1
  /\ delay' = StatInit
  /\ stopReq' = FALSE
  /\ sender' = "begin"
  /\ leftover' = IF sender = "exit" THEN leftover + 1 ELSE leftover
  /\ state' = "RUNNING"
  /\ heap' = Scheduled
  /\ UNCHANGED <<phase, api, lock, worker, quit, sock, sendVars, recv, expect, lost, disorder,
                 net>>

\* mstester_start fails on the address of the peer or on the thread
StartFails(req) ==
  /\ MayCall
  /\ state \in {"READY", "FINISH"}
  /\ delay' = StatInit
  /\ stopReq' = req
  /\ req \in {stopReq, FALSE}
  /\ UNCHANGED <<phase, state, api, lock, sender, leftover, worker, quit, heap, sock, runs,
                 sendVars, recv, expect, lost, disorder, net>>

\* Mutant: the thread is joined with the lock held.
StopRequestLocked ==
  /\ stopReq' = TRUE
  /\ lock' = "api"

\* what mstester_stop does before it joins the sending thread of a running test
StopRequest ==
  /\ stopReq' = TRUE
  /\ UNCHANGED lock

\* mstester_stop; nothing to do unless a test runs
Stop ==
  /\ MayCall
  /\ state = "RUNNING"
  /\ StopRequest
  /\ api' = "join"
  /\ UNCHANGED <<phase, state, sender, leftover, worker, quit, heap, sock, runs, sendVars,
                 countVars, net>>

\* the join of mstester_stop returns
StopReturns ==
  /\ api = "join" /\ sender = "done"
  /\ api' = "none" /\ lock' = "free"
  /\ UNCHANGED <<phase, state, sender, leftover, stopReq, worker, quit, heap, sock, runs,
                 sendVars, countVars, net>>

\* mstester_waitfor_done polls the state every 500 ms
WaitForDone ==
  /\ MayCall
  /\ state = "RUNNING"
  /\ api' = "wait"
  /\ UNCHANGED <<phase, state, lock, sender, leftover, stopReq, worker, quit, heap, sock, runs,
                 sendVars, countVars, net>>

WaitReturns ==
  /\ api = "wait" /\ lock = "free" /\ state # "RUNNING"
  /\ api' = "none"
  /\ UNCHANGED <<phase, state, lock, sender, leftover, stopReq, worker, quit, heap, sock, runs,
                 sendVars, countVars, net>>

\* mstester_free is called: free_pjsock, without the lock; echoes under way are lost
FreeSock ==
  /\ (phase = "live" /\ api = "none") \/ phase = "freeSock"
  /\ phase' = "freeTimer"
  /\ sock' = IF sock = "none" THEN "none" ELSE "closed"
  /\ net' = {}
  /\ UNCHANGED <<state, threadVars, runs, sendVars, countVars>>

\* pj_timer_heap_cancel_if_active, without the lock
FreeTimer ==
  /\ phase = "freeTimer"
  /\ phase' = "freeStop"
  /\ heap' = FALSE
  /\ UNCHANGED <<state, api, lock, sender, leftover, stopReq, worker, quit, sock, runs, sendVars,
                 countVars, net>>

\* mstester_stop in mstester_free
FreeStops ==
  /\ phase = "freeStop" /\ lock = "free"
  /\ IF state = "RUNNING"
       THEN StopRequest /\ phase' = "freeJoin"
       ELSE UNCHANGED <<stopReq, lock>> /\ phase' = "freeQuit"
  /\ UNCHANGED <<state, api, sender, leftover, worker, quit, heap, sock, runs, sendVars,
                 countVars, net>>

FreeJoins ==
  /\ phase = "freeJoin" /\ sender = "done"
  /\ phase' = "freeQuit" /\ lock' = "free"
  /\ UNCHANGED <<state, api, sender, leftover, stopReq, worker, quit, heap, sock, runs, sendVars,
                 countVars, net>>

\* Mutant: the worker is told to quit and not joined.
FreeQuitsUnjoined ==
  /\ phase = "freeQuit"
  /\ quit' = TRUE
  /\ phase' = "freed"
  /\ UNCHANGED <<state, api, lock, sender, leftover, stopReq, worker, heap, sock, runs, sendVars,
                 countVars, net>>

\* thread_quit_flag
FreeQuits ==
  /\ phase = "freeQuit"
  /\ quit' = TRUE
  /\ phase' = "freeWorker"
  /\ UNCHANGED <<state, api, lock, sender, leftover, stopReq, worker, heap, sock, runs, sendVars,
                 countVars, net>>

\* the worker is joined; ioqueue, timer heap, lock, pool and object are released
Freed ==
  /\ phase = "freeWorker" /\ worker = "done"
  /\ phase' = "freed"
  /\ UNCHANGED <<state, threadVars, sock, runs, sendVars, countVars, net>>

Free == FreeSock \/ FreeTimer \/ FreeStops \/ FreeJoins \/ FreeQuits \/ Freed

-------------------------------------------------------------------------------
(* _sending_thread *)

\* the warm-up packets carry pkt_seq, which an earlier test has left behind
SenderBegins(sid) ==
  /\ sender = "begin" /\ lock = "free"
  /\ sessionId' = sid
  /\ net' = IF sock = "active"
              THEN net \cup [sid : {sid}, seq : {pktSeq}, copy : 1 .. WarmUps]
              ELSE net
  /\ pktSeq' = 1
  /\ expect' = 1
  /\ sender' = "iter" /\ lock' = "sender"
  /\ UNCHANGED <<phase, state, api, leftover, stopReq, worker, quit, heap, sock, runs, sent, recv,
                 lost, disorder, delay>>

\* the loop goes on with the lock it kept, or takes it again after its sleep
InLoop == \/ sender = "iter" /\ lock = "sender"
          \/ sender = "sleep" /\ lock = "free"

\* _build_echo_pkt_and_send, then the test of the elapsed time
SenderSends(timeUp) ==
  /\ InLoop /\ ~stopReq /\ sock = "active"
  /\ pktSeq = MaxSeq => timeUp
  /\ net' = net \cup {[sid |-> sessionId, seq |-> pktSeq, copy |-> 0]}
  /\ pktSeq' = pktSeq + 1
  /\ sent' = sent + 1
  /\ sender' = (IF timeUp THEN "tail" ELSE "sleep") /\ lock' = "free"
  /\ UNCHANGED <<phase, state, api, leftover, stopReq, worker, quit, heap, sock, runs, sessionId,
                 countVars>>

\* pj_sock_sendto fails, as it always does on a closed socket
SenderFails ==
  /\ InLoop /\ ~stopReq
  /\ pktSeq' = pktSeq + 1
  /\ sender' = "tail" /\ lock' = "free"
  /\ UNCHANGED <<phase, state, api, leftover, stopReq, worker, quit, heap, sock, runs, sessionId,
                 sent, countVars, net>>

SenderStops ==
  /\ InLoop /\ stopReq
  /\ sender' = "tail" /\ lock' = "free"
  /\ UNCHANGED <<phase, state, api, leftover, stopReq, worker, quit, heap, sock, runs, sendVars,
                 countVars, net>>

\* Mutant: a test that was stopped is not finished.
SenderFinishesUnstopped ==
  /\ sender = "tail" /\ lock = "free"
  /\ state' = IF stopReq THEN state ELSE "FINISH"
  /\ sender' = "exit"
  /\ UNCHANGED <<phase, api, lock, leftover, stopReq, worker, quit, heap, sock, runs, sendVars,
                 countVars, net>>

\* 2 s later
SenderFinishes ==
  /\ sender = "tail" /\ lock = "free"
  /\ state' = "FINISH"
  /\ sender' = "exit"
  /\ UNCHANGED <<phase, api, lock, leftover, stopReq, worker, quit, heap, sock, runs, sendVars,
                 countVars, net>>

\* the log line after the last release of the lock
SenderExits ==
  \/ /\ sender = "exit"
     /\ sender' = "done"
     /\ UNCHANGED <<phase, state, api, lock, leftover, stopReq, worker, quit, heap, sock, runs,
                    sendVars, countVars, net>>
  \/ /\ leftover > 0
     /\ leftover' = leftover - 1
     /\ UNCHANGED <<phase, state, api, lock, sender, stopReq, worker, quit, heap, sock, runs,
                    sendVars, countVars, net>>

Send == (\E timeUp \in BOOLEAN : SenderSends(timeUp)) \/ SenderFails \/ SenderStops

-------------------------------------------------------------------------------
(* The worker: handle_events until thread_quit_flag *)

\* pj_timer_heap_poll takes the entry out and runs timer_ice_cb
TimerDue ==
  /\ worker = "idle" /\ heap
  /\ worker' = "timer" /\ heap' = FALSE
  /\ UNCHANGED <<phase, state, api, lock, sender, leftover, stopReq, quit, sock, runs, sendVars,
                 countVars, net>>

\* timer_ice_cb: scheduled again unless the test is over
TimerIceCb ==
  /\ worker = "timer" /\ lock = "free"
  /\ worker' = "idle"
  /\ heap' = (heap \/ state # "FINISH")
  /\ UNCHANGED <<phase, state, api, lock, sender, leftover, stopReq, quit, sock, runs, sendVars,
                 countVars, net>>

\* Mutant: the packet in hand is taken for one of the lost ones.
CountLostShort(seq) == IF seq > expect THEN seq - expect - 1 ELSE 0

\* the packets that the number skips
CountLost(seq) == IF seq > expect THEN seq - expect ELSE 0

\* Mutant: warm-up packets are counted like the others.
IsWarmUpNever(m) == FALSE

\* the test for a warm-up packet
IsWarmUp(m) == m.seq = 0

\* on_data_recvfrom takes the lock; only the socket that is open receives
MayReceive == worker = "idle" /\ lock = "free" /\ sock = "active"

\* _recv_echo_packet: packets of another session and warm-up packets are not counted
RecvEcho(m, d) ==
  /\ MayReceive
  /\ m \in net
  /\ net' = net \ {m}
  /\ IF m.sid = sessionId /\ ~IsWarmUp(m)
       THEN /\ recv' = recv + 1
            /\ expect' = m.seq + 1
            /\ lost' = lost + CountLost(m.seq)
            /\ disorder' = IF m.seq < expect THEN disorder + 1 ELSE disorder
            /\ delay' = IF m.seq = expect THEN StatUpdate(delay, d) ELSE delay
       ELSE UNCHANGED countVars
  /\ UNCHANGED <<phase, state, threadVars, sock, runs, sendVars>>

WorkerQuits ==
  /\ worker = "idle" /\ quit
  /\ worker' = "done"
  /\ UNCHANGED <<phase, state, api, lock, sender, leftover, stopReq, quit, heap, sock, runs,
                 sendVars, countVars, net>>

-------------------------------------------------------------------------------
User ==
  \/ New \/ NewFailsUnlocked
  \/ \E running \in BOOLEAN, s \in {"none", "bound", "active"} : NewFails(running, s)
  \/ Start \/ (\E req \in BOOLEAN : StartFails(req))
  \/ Stop \/ StopReturns \/ WaitForDone \/ WaitReturns
  \/ Free

Sender == (\E sid \in 1 .. MaxRuns : SenderBegins(sid)) \/ Send \/ SenderFinishes \/ SenderExits

Worker ==
  \/ TimerDue \/ TimerIceCb \/ WorkerQuits
  \/ \E m \in net, d \in 0 .. MaxDelay : RecvEcho(m, d)

Next == User \/ Sender \/ Worker

Spec == Init /\ [][Next]_vars

(***************************************************************************)
(* The threads run, and a call that was made goes on.  The test of the     *)
(* time ends the loop at MaxSeq.  Nothing is assumed of the network.       *)
(***************************************************************************)
FairSpec ==
  /\ Spec
  /\ WF_vars(Sender)
  /\ WF_vars(TimerIceCb) /\ WF_vars(WorkerQuits)
  /\ WF_vars(FreeTimer \/ FreeStops \/ FreeJoins \/ FreeQuits \/ Freed)
  /\ WF_vars(StopReturns \/ WaitReturns)

-------------------------------------------------------------------------------
(* Properties *)

\* The threads' program counters and the counters they share.
TypeOK ==
  /\ phase \in {"none", "live", "freeSock", "freeTimer", "freeStop", "freeJoin", "freeQuit",
                "freeWorker", "freed", "crashed"}
  /\ state \in {"READY", "RUNNING", "FINISH"}
  /\ api \in {"none", "join", "wait"}
  /\ lock \in {"free", "sender", "api"}
  /\ sender \in {"none", "begin", "iter", "sleep", "tail", "exit", "done"}
  /\ leftover \in Nat
  /\ stopReq \in BOOLEAN
  /\ worker \in {"none", "idle", "timer", "done"}
  /\ quit \in BOOLEAN /\ heap \in BOOLEAN
  /\ sock \in {"none", "bound", "active", "closed"}
  /\ runs \in 0 .. MaxRuns
  /\ sessionId \in 0 .. MaxRuns
  /\ pktSeq \in 0 .. MaxSeq + 1
  /\ sent \in Nat /\ recv \in Nat /\ expect \in Nat /\ lost \in Nat /\ disorder \in Nat
  /\ delay \in [min : 0 .. MaxDelay + 1, max : 0 .. MaxDelay, sum : Nat, count : Nat, aver : Nat]
  /\ net \subseteq Packet

(***************************************************************************)
(* The packets counted as received and as lost account for every number    *)
(* below the expected one, in whatever order the echoes arrive and however *)
(* often the test is started again.                                        *)
(***************************************************************************)
LossNotUnderstated == expect <= recv + lost + 1

\* tests that found the number of an earlier one in pkt_seq
Restarts == IF runs = 0 THEN 0 ELSE runs - 1

(***************************************************************************)
(* What mstester_get_status reports can be wrong by the warm-up packets    *)
(* only: of all echoes counted as received, no more than the warm-up       *)
(* packets of the tests that were started again were not counted as sent.  *)
(* So in the first test no echo is counted before its packet and no        *)
(* warm-up packet is, and the reported loss is within what was sent.       *)
(***************************************************************************)
LostWithinSent ==
  /\ recv <= sent + WarmUps * Restarts
  /\ Restarts = 0 => LostPackets <= sent

(***************************************************************************)
(* While a test runs its timer is in the heap or its callback is on the    *)
(* way, also when the test was started just as the timer of the last one   *)
(* was about to stop.                                                      *)
(***************************************************************************)
TimerWhileRunning ==
  phase = "live" /\ state = "RUNNING" => heap \/ worker = "timer"

(***************************************************************************)
(* Once the object is freed the worker is gone, and a sending thread can   *)
(* only be in its last log line, where it still reads the freed name, and  *)
(* only if its test ended by itself: the one of a test that was stopped    *)
(* was joined, by mstester_stop or by mstester_free.                       *)
(***************************************************************************)
FreedIsQuiet ==
  phase = "freed" =>
    /\ worker = "done"
    /\ sender \in {"none", "exit", "done"}
    /\ stopReq => sender # "exit"

(***************************************************************************)
(* mstester_free returns, although it waits for a sending thread that      *)
(* needs the lock and for a worker whose callback needs it.                *)
(***************************************************************************)
FreeReturns == phase = "freeTimer" ~> phase = "freed"

(***************************************************************************)
(* A test that was started comes to its end, whoever is waiting for it.    *)
(***************************************************************************)
TestFinishes == state = "RUNNING" ~> state = "FINISH"
==============================================================================
