---------------------------- MODULE MstesterProofs ---------------------------
(***************************************************************************)
(* The media server tester for any number of packets, tests and warm-up    *)
(* packets: its accounting, its timer and its orderly end.                 *)
(***************************************************************************)
EXTENDS Mstester, FiniteSetTheorems, TLAPS

(***************************************************************************)
(* What makes the properties inductive.  While the sending thread is in    *)
(* its loop it has a session, and the next number is within bounds.  A test*)
(* runs exactly while its sending thread has not passed its last section,  *)
(* so that mstester_free goes on without joining only a thread that no     *)
(* longer needs the object's state.  Whoever asks a test to stop waits for *)
(* its thread.                                                             *)
(***************************************************************************)
InBounds == sender \in {"iter", "sleep"} => pktSeq <= MaxSeq /\ sessionId \in 1 .. MaxRuns

Sending == state = "RUNNING" <=> sender \in {"begin", "iter", "sleep", "tail"}

Quiet ==
  /\ phase = "none" => state = "READY"
  /\ phase \in {"freeQuit", "freeWorker", "freed"} => sender \in {"none", "exit", "done"}
  /\ phase = "freed" => worker = "done"
  /\ stopReq /\ sender \notin {"none", "done"} => api = "join" \/ phase = "freeJoin"
  /\ phase # "live" => api = "none"

IInv == TypeOK /\ InBounds /\ Sending /\ Quiet /\ LossNotUnderstated /\ TimerWhileRunning

-------------------------------------------------------------------------------
(* Helpers *)

\* A record of statistics keeps its type with every delay within the bound.
LEMMA StatUpdateType ==
  ASSUME NEW item \in [min : 0 .. MaxDelay + 1, max : 0 .. MaxDelay, sum : Nat, count : Nat, aver : Nat],
         NEW v \in 0 .. MaxDelay
  PROVE  StatUpdate(item, v) \in
           [min : 0 .. MaxDelay + 1, max : 0 .. MaxDelay, sum : Nat, count : Nat, aver : Nat]
PROOF
  <1>1. (item.sum + v) \div (item.count + 1) \in Nat
    BY BoundsAssumption
  <1>2. /\ (IF v < item.min THEN v ELSE item.min) \in 0 .. MaxDelay + 1
        /\ (IF v > item.max THEN v ELSE item.max) \in 0 .. MaxDelay
        /\ item.sum + v \in Nat /\ item.count + 1 \in Nat
    BY BoundsAssumption
  <1> QED BY <1>1, <1>2 DEF StatUpdate

\* What an echo does to the counters keeps the account, whatever its number.
LEMMA Account ==
  ASSUME NEW e \in Nat, NEW r \in Nat, NEW l \in Nat, NEW n \in Nat, e <= r + l + 1
  PROVE  n + 1 <= (r + 1) + (l + IF n > e THEN n - e ELSE 0) + 1
OBVIOUS

\* Only the begin of a test and an echo change the account.
LEMMA CountCases ==
  [Next]_vars =>
    \/ UNCHANGED <<recv, expect, lost>>
    \/ \E sid \in 1 .. MaxRuns : SenderBegins(sid)
    \/ \E m \in net, d \in 0 .. MaxDelay : RecvEcho(m, d)
BY DEF Next, User, Sender, Worker, Send, Free, New, NewFailsUnlocked, NewFails, Start, StartFails,
       Stop, StopReturns, WaitForDone, WaitReturns, FreeSock, FreeTimer, FreeStops, FreeJoins,
       FreeQuits, Freed, SenderSends, SenderFails, SenderStops, SenderFinishes, SenderExits,
       TimerDue, TimerIceCb, WorkerQuits, vars, countVars

\* The account is kept.
LEMMA LossStep ==
  ASSUME TypeOK, LossNotUnderstated, [Next]_vars
  PROVE  LossNotUnderstated'
PROOF
  <1>1. CASE UNCHANGED <<recv, expect, lost>>
    BY <1>1 DEF LossNotUnderstated
  <1>2. ASSUME NEW sid \in 1 .. MaxRuns, SenderBegins(sid) PROVE LossNotUnderstated'
    BY <1>2 DEF SenderBegins, LossNotUnderstated, TypeOK
  <1>3. ASSUME NEW m \in net, NEW d \in 0 .. MaxDelay, RecvEcho(m, d) PROVE LossNotUnderstated'
    <2>1. m.seq \in Nat
      BY DEF TypeOK, Packet
    <2>2. CASE UNCHANGED countVars
      BY <2>2 DEF countVars, LossNotUnderstated
    <2>3. CASE recv' = recv + 1 /\ expect' = m.seq + 1 /\ lost' = lost + CountLost(m.seq)
      BY <2>1, <2>3, Account DEF CountLost, LossNotUnderstated, TypeOK
    <2> QED BY <1>3, <2>2, <2>3 DEF RecvEcho
  <1> QED BY <1>1, <1>2, <1>3, CountCases
-------------------------------------------------------------------------------
(* The steps *)

\* Every step keeps the types; the test of the elapsed time bounds the packet numbers.
LEMMA TypeStep == TypeOK /\ InBounds /\ [Next]_vars => (TypeOK /\ InBounds)'
PROOF
  <1> SUFFICES ASSUME TypeOK, InBounds, [Next]_vars PROVE (TypeOK /\ InBounds)'
    OBVIOUS
  <1> USE DEF threadVars, countVars, sendVars
  <1>1. CASE New
    BY <1>1 DEF New, TypeOK, InBounds
  <1>2. CASE NewFailsUnlocked
    BY <1>2 DEF NewFailsUnlocked, TypeOK, InBounds
  <1>3. ASSUME NEW running \in BOOLEAN, NEW s \in {"none", "bound", "active"}, NewFails(running, s) PROVE (TypeOK /\ InBounds)'
    BY <1>3 DEF NewFails, TypeOK, InBounds
  <1>4. CASE Start
    <2>1. heap' \in BOOLEAN /\ stopReq' \in BOOLEAN
      BY <1>4 DEF Start, Scheduled
    <2>2. /\ state' = "RUNNING" /\ sender' = "begin" /\ runs' = runs + 1 /\ runs < MaxRuns
          /\ leftover' \in {leftover, leftover + 1} /\ delay' = StatInit
      BY <1>4 DEF Start
    <2>3. UNCHANGED <<phase, api, lock, worker, quit, sock, sendVars, recv, expect, lost, disorder,
                      net>>
      BY <1>4 DEF Start
    <2>4. runs' \in 0 .. MaxRuns /\ leftover' \in Nat
      BY <2>2, BoundsAssumption DEF TypeOK
    <2>5. delay' \in
            [min : 0 .. MaxDelay + 1, max : 0 .. MaxDelay, sum : Nat, count : Nat, aver : Nat]
      BY <2>2, BoundsAssumption DEF StatInit
    <2> QED BY <2>1, <2>2, <2>3, <2>4, <2>5 DEF TypeOK, InBounds
  <1>5. ASSUME NEW req \in BOOLEAN, StartFails(req) PROVE (TypeOK /\ InBounds)'
    BY <1>5, BoundsAssumption DEF StartFails, MayCall, StatInit, TypeOK, InBounds
  <1>6. CASE Stop
    BY <1>6 DEF Stop, MayCall, StopRequest, TypeOK, InBounds
  <1>7. CASE StopReturns
    BY <1>7 DEF StopReturns, TypeOK, InBounds
  <1>8. CASE WaitForDone
    BY <1>8 DEF WaitForDone, MayCall, TypeOK, InBounds
  <1>9. CASE WaitReturns
    BY <1>9 DEF WaitReturns, TypeOK, InBounds
  <1>10. CASE FreeSock
    BY <1>10 DEF FreeSock, TypeOK, InBounds
  <1>11. CASE FreeTimer
    <2>1. heap' \in BOOLEAN /\ phase' = "freeStop"
      BY <1>11 DEF FreeTimer
    <2>2. UNCHANGED <<state, api, lock, sender, leftover, stopReq, worker, quit, sock, runs, sendVars,
                      countVars, net>>
      BY <1>11 DEF FreeTimer
    <2> QED BY <2>1, <2>2 DEF TypeOK, InBounds
  <1>12. CASE FreeStops
    <2>1. stopReq' \in BOOLEAN /\ phase' \in {"freeJoin", "freeQuit"}
      BY <1>12 DEF FreeStops, StopRequest, TypeOK
    <2>2. UNCHANGED <<state, api, lock, sender, leftover, worker, quit, heap, sock, runs, sendVars,
                      countVars, net>>
      BY <1>12 DEF FreeStops, StopRequest
    <2> QED BY <2>1, <2>2 DEF TypeOK, InBounds
  <1>13. CASE FreeJoins
    BY <1>13 DEF FreeJoins, TypeOK, InBounds
  <1>14. CASE FreeQuits
    BY <1>14 DEF FreeQuits, TypeOK, InBounds
  <1>15. CASE Freed
    BY <1>15 DEF Freed, TypeOK, InBounds
  <1>16. ASSUME NEW sid \in 1 .. MaxRuns, SenderBegins(sid) PROVE (TypeOK /\ InBounds)'
    <2>1. [sid : {sid}, seq : {pktSeq}, copy : 1 .. WarmUps] \subseteq Packet
      BY BoundsAssumption DEF Packet, TypeOK
    <2>2. net' \subseteq Packet
      BY <1>16, <2>1 DEF SenderBegins, TypeOK
    <2> QED BY <1>16, <2>2, BoundsAssumption DEF SenderBegins, TypeOK, InBounds
  <1>17. ASSUME NEW timeUp \in BOOLEAN, SenderSends(timeUp) PROVE (TypeOK /\ InBounds)'
    <2>1. pktSeq <= MaxSeq /\ pktSeq \in Nat /\ sessionId \in 1 .. MaxRuns
      BY <1>17 DEF SenderSends, InLoop, InBounds, TypeOK
    <2>2. [sid |-> sessionId, seq |-> pktSeq, copy |-> 0] \in Packet
      BY <2>1, BoundsAssumption DEF Packet
    <2>3. net' \subseteq Packet
      BY <1>17, <2>2 DEF SenderSends, TypeOK
    <2>4. /\ pktSeq' \in 0 .. MaxSeq + 1 /\ sent' \in Nat
          /\ sender' = "tail" \/ (sender' = "sleep" /\ pktSeq' <= MaxSeq)
      BY <1>17, <2>1, BoundsAssumption DEF SenderSends, TypeOK
    <2>5. /\ lock' = "free"
          /\ UNCHANGED <<phase, state, api, leftover, stopReq, worker, quit, heap, sock, runs,
                         sessionId, countVars>>
      BY <1>17 DEF SenderSends
    <2> QED BY <2>1, <2>3, <2>4, <2>5 DEF TypeOK, InBounds
  <1>18. CASE SenderFails
    <2>1. pktSeq <= MaxSeq /\ pktSeq \in Nat
      BY <1>18 DEF SenderFails, InLoop, InBounds, TypeOK
    <2> QED BY <1>18, <2>1, BoundsAssumption DEF SenderFails, TypeOK, InBounds
  <1>19. CASE SenderStops
    BY <1>19 DEF SenderStops, InLoop, TypeOK, InBounds
  <1>20. CASE SenderFinishes
    BY <1>20 DEF SenderFinishes, TypeOK, InBounds
  <1>21. CASE SenderExits
    BY <1>21 DEF SenderExits, TypeOK, InBounds
  <1>22. CASE TimerDue
    <2>1. heap' \in BOOLEAN /\ worker' = "timer"
      BY <1>22 DEF TimerDue
    <2>2. UNCHANGED <<phase, state, api, lock, sender, leftover, stopReq, quit, sock, runs, sendVars,
                      countVars, net>>
      BY <1>22 DEF TimerDue
    <2> QED BY <2>1, <2>2 DEF TypeOK, InBounds
  <1>23. CASE TimerIceCb
    BY <1>23 DEF TimerIceCb, TypeOK, InBounds
  <1>24. ASSUME NEW m \in net, NEW d \in 0 .. MaxDelay, RecvEcho(m, d) PROVE (TypeOK /\ InBounds)'
    <2>1. m.seq \in Nat
      BY DEF TypeOK, Packet
    <2>2. CountLost(m.seq) \in Nat
      BY <2>1 DEF CountLost, TypeOK
    <2>3. StatUpdate(delay, d) \in
            [min : 0 .. MaxDelay + 1, max : 0 .. MaxDelay, sum : Nat, count : Nat, aver : Nat]
      BY StatUpdateType DEF TypeOK
    <2> QED BY <1>24, <2>1, <2>2, <2>3 DEF RecvEcho, TypeOK, InBounds
  <1>25. CASE WorkerQuits
    BY <1>25 DEF WorkerQuits, TypeOK, InBounds
  <1>26. CASE UNCHANGED vars
    BY <1>26 DEF vars, TypeOK, InBounds
  <1> QED
    BY <1>1, <1>2, <1>3, <1>4, <1>5, <1>6, <1>7, <1>8, <1>9, <1>10, <1>11, <1>12, <1>13,
       <1>14, <1>15, <1>16, <1>17, <1>18, <1>19, <1>20, <1>21, <1>22, <1>23, <1>24,
       <1>25, <1>26
    DEF Next, User, Sender, Worker, Send, Free

\* Every step of a thread keeps what the others rely on.
LEMMA ThreadStep ==
  TypeOK /\ Sending /\ Quiet /\ TimerWhileRunning /\ [Next]_vars
    => (Sending /\ Quiet /\ TimerWhileRunning)'
PROOF
  <1> SUFFICES ASSUME TypeOK, Sending, Quiet, TimerWhileRunning, [Next]_vars
               PROVE  (Sending /\ Quiet /\ TimerWhileRunning)'
    OBVIOUS
  <1> USE DEF threadVars, Sending, Quiet, TimerWhileRunning
  <1>1. CASE New
    BY <1>1 DEF New
  <1>2. CASE NewFailsUnlocked
    BY <1>2 DEF NewFailsUnlocked
  <1>3. ASSUME NEW running \in BOOLEAN, NEW s \in {"none", "bound", "active"}, NewFails(running, s) PROVE (Sending /\ Quiet /\ TimerWhileRunning)'
    BY <1>3 DEF NewFails
  <1>4. CASE Start
    <2>1. /\ phase = "live" /\ phase' = "live" /\ sender' = "begin" /\ state' = "RUNNING"
          /\ ~stopReq' /\ heap'
      BY <1>4 DEF Start, MayCall, Scheduled
    <2> QED BY <2>1
  <1>5. ASSUME NEW req \in BOOLEAN, StartFails(req) PROVE (Sending /\ Quiet /\ TimerWhileRunning)'
    <2>1. UNCHANGED <<phase, state, api, sender, worker, heap>>
      BY <1>5 DEF StartFails
    <2>2. stopReq' => stopReq
      BY <1>5, Zenon DEF StartFails
    <2> QED BY <2>1, <2>2
  <1>6. CASE Stop
    BY <1>6 DEF Stop, MayCall, StopRequest
  <1>7. CASE StopReturns
    BY <1>7 DEF StopReturns
  <1>8. CASE WaitForDone
    BY <1>8 DEF WaitForDone, MayCall
  <1>9. CASE WaitReturns
    BY <1>9 DEF WaitReturns
  <1>10. CASE FreeSock
    BY <1>10 DEF FreeSock
  <1>11. CASE FreeTimer
    BY <1>11 DEF FreeTimer
  <1>12. CASE FreeStops
    BY <1>12 DEF FreeStops, StopRequest, TypeOK
  <1>13. CASE FreeJoins
    BY <1>13 DEF FreeJoins
  <1>14. CASE FreeQuits
    BY <1>14 DEF FreeQuits
  <1>15. CASE Freed
    BY <1>15 DEF Freed
  <1>16. ASSUME NEW sid \in 1 .. MaxRuns, SenderBegins(sid) PROVE (Sending /\ Quiet /\ TimerWhileRunning)'
    BY <1>16 DEF SenderBegins
  <1>17. ASSUME NEW timeUp \in BOOLEAN, SenderSends(timeUp) PROVE (Sending /\ Quiet /\ TimerWhileRunning)'
    BY <1>17 DEF SenderSends, InLoop
  <1>18. CASE SenderFails
    BY <1>18 DEF SenderFails, InLoop
  <1>19. CASE SenderStops
    BY <1>19 DEF SenderStops, InLoop
  <1>20. CASE SenderFinishes
    BY <1>20 DEF SenderFinishes
  <1>21. CASE SenderExits
    BY <1>21 DEF SenderExits
  <1>22. CASE TimerDue
    BY <1>22 DEF TimerDue
  <1>23. CASE TimerIceCb
    BY <1>23 DEF TimerIceCb
  <1>24. ASSUME NEW m \in net, NEW d \in 0 .. MaxDelay, RecvEcho(m, d) PROVE (Sending /\ Quiet /\ TimerWhileRunning)'
    BY <1>24 DEF RecvEcho, MayReceive
  <1>25. CASE WorkerQuits
    BY <1>25 DEF WorkerQuits
  <1>26. CASE UNCHANGED vars
    BY <1>26 DEF vars
  <1> QED
    BY <1>1, <1>2, <1>3, <1>4, <1>5, <1>6, <1>7, <1>8, <1>9, <1>10, <1>11, <1>12, <1>13,
       <1>14, <1>15, <1>16, <1>17, <1>18, <1>19, <1>20, <1>21, <1>22, <1>23, <1>24,
       <1>25, <1>26
    DEF Next, User, Sender, Worker, Send, Free

\* The invariant holds before the object is made, and every step keeps it.
LEMMA IInvAlways == Spec => []IInv
PROOF
  <1>1. ASSUME Init PROVE IInv
    <2>1. TypeOK
      <3>1. stopReq \in BOOLEAN /\ quit \in BOOLEAN /\ heap \in BOOLEAN
        BY <1>1 DEF Init
      <3>2. /\ phase = "none" /\ state = "READY" /\ api = "none" /\ lock = "free" /\ sender = "none"
            /\ worker = "none" /\ sock = "none" /\ net = {} /\ leftover = 0
        BY <1>1 DEF Init
      <3>3. /\ runs \in 0 .. MaxRuns /\ sessionId \in 0 .. MaxRuns /\ pktSeq \in 0 .. MaxSeq + 1
            /\ sent \in Nat /\ recv \in Nat /\ expect \in Nat /\ lost \in Nat /\ disorder \in Nat
            /\ delay \in
                 [min : 0 .. MaxDelay + 1, max : 0 .. MaxDelay, sum : Nat, count : Nat, aver : Nat]
        BY <1>1, BoundsAssumption DEF Init
      <3> QED BY <3>1, <3>2, <3>3 DEF TypeOK
    <2>2. InBounds /\ Sending /\ Quiet /\ LossNotUnderstated /\ TimerWhileRunning
      BY <1>1 DEF Init, InBounds, Sending, Quiet, LossNotUnderstated, TimerWhileRunning
    <2> QED BY <2>1, <2>2 DEF IInv
  <1>2. IInv /\ [Next]_vars => IInv'
    BY TypeStep, ThreadStep, LossStep DEF IInv
  <1> QED BY <1>1, <1>2, PTL DEF Spec

-------------------------------------------------------------------------------
(* The theorems *)

\* The object of mstester_new and its threads have their types, for every number of packets and tests.
THEOREM TypeCorrect == Spec => []TypeOK
PROOF
  <1>1. IInv => TypeOK
    BY DEF IInv
  <1> QED BY <1>1, IInvAlways, PTL

\* recv_pkts and seq_lost_count together account for every number below expect_recv_seq.
THEOREM LossAccounted == Spec => []LossNotUnderstated
PROOF
  <1>1. IInv => LossNotUnderstated
    BY DEF IInv
  <1> QED BY <1>1, IInvAlways, PTL

\* A running test has its timer, however mstester_start and timer_ice_cb interleave.
THEOREM TimerKept == Spec => []TimerWhileRunning
PROOF
  <1>1. IInv => TimerWhileRunning
    BY DEF IInv
  <1> QED BY <1>1, IInvAlways, PTL

\* When mstester_free has returned, no thread is left that works on the object.
THEOREM FreedQuiet == Spec => []FreedIsQuiet
PROOF
  <1>1. IInv => FreedIsQuiet
    BY DEF IInv, Quiet, FreedIsQuiet
  <1> QED BY <1>1, IInvAlways, PTL

-------------------------------------------------------------------------------
(* What the tests count *)

(***************************************************************************)
(* LostWithinSent becomes inductive once the packets still under way that  *)
(* would be counted are counted with the received ones.  The warm-up       *)
(* packets of the first test carry the number 0, by which                  *)
(* _recv_echo_packet tells them: pkt_seq is still 0 when it begins.  Those *)
(* of a later test count from the moment in which they are sent.           *)
(***************************************************************************)
UnderWay == {m \in net : m.seq # 0}

\* the tests started again whose warm-up packets were sent
WarmedUpAgain == IF sender = "begin" THEN (IF runs = 1 THEN 0 ELSE runs - 2) ELSE Restarts

Counted ==
  /\ IsFiniteSet(UnderWay)
  /\ recv + Cardinality(UnderWay) <= sent + WarmUps * WarmedUpAgain
  /\ runs = 0 => sender = "none"
  /\ runs <= 1 /\ sender \in {"none", "begin"} => pktSeq = 0

\* The remainder of a natural number does not exceed it.
LEMMA RemainderAtMost ==
  ASSUME NEW a \in Nat, NEW b \in Nat \ {0}
  PROVE  a % b \in Nat /\ a % b <= a
PROOF
  <1>1. a % b \in 0 .. b - 1 /\ a \div b \in Nat
    OBVIOUS
  <1>2. a = b * (a \div b) + (a % b)
    OBVIOUS
  <1>3. b * (a \div b) \in Nat
    BY <1>1
  <1> HIDE <1>2
  <1>4. ASSUME NEW q \in Nat, NEW r \in Nat, a = q + r PROVE r <= a
    BY <1>4
  <1> QED BY <1>1, <1>2, <1>3, <1>4

\* One more test started again adds its warm-up packets.
LEMMA OneMore ==
  ASSUME NEW n \in Nat
  PROVE  WarmUps * n \in Nat /\ WarmUps * (n + 1) = WarmUps * n + WarmUps
BY BoundsAssumption

\* There are as many warm-up packets as copies.
LEMMA WarmUpCount ==
  ASSUME NEW sid, NEW seq
  PROVE  LET W == [sid : {sid}, seq : {seq}, copy : 1 .. WarmUps]
         IN  IsFiniteSet(W) /\ Cardinality(W) \in Nat /\ Cardinality(W) <= WarmUps
PROOF
  <1> DEFINE W == [sid : {sid}, seq : {seq}, copy : 1 .. WarmUps]
             f == [c \in 1 .. WarmUps |-> [sid |-> sid, seq |-> seq, copy |-> c]]
  <1>1. IsFiniteSet(1 .. WarmUps) /\ Cardinality(1 .. WarmUps) = WarmUps
    BY BoundsAssumption, FS_Interval
  <1>2. f \in Surjection(1 .. WarmUps, W)
    <2>1. f \in [1 .. WarmUps -> W]
      OBVIOUS
    <2>2. ASSUME NEW w \in W PROVE \E c \in 1 .. WarmUps : f[c] = w
      <3>1. w.copy \in 1 .. WarmUps /\ f[w.copy] = w
        OBVIOUS
      <3> QED BY <3>1
    <2> QED BY <2>1, <2>2 DEF Surjection
  <1> HIDE DEF W, f
  <1>3. IsFiniteSet(W) /\ Cardinality(W) <= Cardinality(1 .. WarmUps)
    BY <1>1, <1>2, FS_Surjection
  <1>4. Cardinality(W) \in Nat
    BY <1>3, FS_CardinalityType
  <1> QED BY <1>1, <1>3, <1>4 DEF W

\* Steps that touch neither the network nor the counters keep Counted, when
\* they do not start a test or its sending thread.
LEMMA CountedFrame ==
  ASSUME Counted, UNCHANGED <<net, recv, sent, runs>>,
         \/ UNCHANGED <<sender, pktSeq>>
         \/ sender \notin {"none", "begin"} /\ sender' \notin {"none", "begin"}
  PROVE  Counted'
PROOF
  <1>1. UnderWay' = UnderWay /\ WarmedUpAgain' = WarmedUpAgain
    BY DEF UnderWay, WarmedUpAgain, Restarts
  <1> QED BY <1>1 DEF Counted

\* Every step keeps Counted.
LEMMA CountedStep == TypeOK /\ Sending /\ Counted /\ [Next]_vars => Counted'
PROOF
  <1> SUFFICES ASSUME TypeOK, Sending, Counted, [Next]_vars PROVE Counted'
    OBVIOUS
  <1>0. /\ Cardinality(UnderWay) \in Nat /\ runs \in Nat /\ recv \in Nat /\ sent \in Nat
        /\ WarmedUpAgain \in Nat
    <2>1. Cardinality(UnderWay) \in Nat
      BY FS_CardinalityType DEF Counted
    <2> QED BY <2>1, BoundsAssumption DEF Counted, TypeOK, WarmedUpAgain, Restarts
  <1>1. CASE User /\ ~Start /\ ~FreeSock
    <2>1. UNCHANGED <<net, recv, sent, runs, sender, pktSeq>>
      BY <1>1
      DEF User, Free, New, NewFailsUnlocked, NewFails, StartFails, Stop, StopReturns, WaitForDone,
          WaitReturns, FreeTimer, FreeStops, FreeJoins, FreeQuits, Freed, threadVars, sendVars,
          countVars
    <2> QED BY <2>1, CountedFrame
  <1>2. CASE Start
    <2>1. /\ runs' = runs + 1 /\ sender' = "begin" /\ UNCHANGED <<net, recv, sent, pktSeq>>
          /\ state \in {"READY", "FINISH"}
      BY <1>2 DEF Start, sendVars
    <2>2. sender # "begin"
      BY <2>1 DEF Sending
    <2>3. UnderWay' = UnderWay /\ WarmedUpAgain' = WarmedUpAgain
      BY <1>0, <2>1, <2>2 DEF UnderWay, WarmedUpAgain, Restarts
    <2> QED BY <1>0, <2>1, <2>3 DEF Counted
  <1>3. CASE FreeSock
    <2>1. net' = {} /\ UNCHANGED <<runs, sender, pktSeq, recv, sent>>
      BY <1>3 DEF FreeSock, threadVars, sendVars, countVars
    <2>2. UnderWay' = {} /\ WarmedUpAgain' = WarmedUpAgain
      BY <2>1 DEF UnderWay, WarmedUpAgain, Restarts
    <2>3. WarmUps * WarmedUpAgain \in Nat
      BY <1>0, OneMore
    <2> QED BY <1>0, <2>1, <2>2, <2>3, FS_EmptySet DEF Counted
  <1>4. ASSUME NEW sid \in 1 .. MaxRuns, SenderBegins(sid) PROVE Counted'
    <2> DEFINE W == [sid : {sid}, seq : {pktSeq}, copy : 1 .. WarmUps]
    <2>1. /\ sender = "begin" /\ sender' = "iter" /\ UNCHANGED <<runs, recv, sent>>
          /\ net \subseteq net' /\ net' \subseteq net \cup W
      BY <1>4 DEF SenderBegins
    <2>2. IsFiniteSet(W) /\ Cardinality(W) \in Nat /\ Cardinality(W) <= WarmUps
      BY WarmUpCount
    <2>3. runs = 1 => UnderWay' = UnderWay
      BY <2>1 DEF UnderWay, Counted
    <2>4. UnderWay' \in SUBSET (UnderWay \cup W)
      BY <2>1 DEF UnderWay
    <2> HIDE DEF W
    <2>5. /\ IsFiniteSet(UnderWay')
          /\ Cardinality(UnderWay') \in Nat
          /\ Cardinality(UnderWay') <= Cardinality(UnderWay) + WarmUps
      <3>1. /\ IsFiniteSet(UnderWay \cup W)
            /\ Cardinality(UnderWay \cup W) =
                 Cardinality(UnderWay) + Cardinality(W) - Cardinality(UnderWay \cap W)
        BY <2>2, FS_Union DEF Counted
      <3>2. IsFiniteSet(UnderWay \cap W)
        BY <2>2, FS_Intersection DEF Counted
      <3>3. Cardinality(UnderWay \cap W) \in Nat /\ Cardinality(UnderWay \cup W) \in Nat
        BY <3>1, <3>2, FS_CardinalityType
      <3>4. IsFiniteSet(UnderWay') /\ Cardinality(UnderWay') <= Cardinality(UnderWay \cup W)
        BY <2>4, <3>1, FS_Subset
      <3>5. Cardinality(UnderWay') \in Nat
        BY <3>4, FS_CardinalityType
      <3> QED BY <1>0, <2>2, <3>1, <3>3, <3>4, <3>5, BoundsAssumption
    <2>6. runs # 0 /\ sender' = "iter" /\ runs' = runs
      BY <2>1 DEF Counted
    <2>7. CASE runs = 1
      <3>1. WarmedUpAgain = 0 /\ WarmedUpAgain' = 0
        BY <2>1, <2>7 DEF WarmedUpAgain, Restarts
      <3> QED BY <2>1, <2>3, <2>6, <2>7, <3>1 DEF Counted
    <2>8. CASE runs # 1
      <3>1. WarmedUpAgain = runs - 2 /\ WarmedUpAgain' = runs - 1 /\ runs >= 2
        BY <1>0, <2>1, <2>6, <2>8 DEF WarmedUpAgain, Restarts
      <3>2. WarmedUpAgain' = WarmedUpAgain + 1
        BY <1>0, <3>1
      <3>3. /\ WarmUps * WarmedUpAgain' = WarmUps * WarmedUpAgain + WarmUps
            /\ WarmUps * WarmedUpAgain \in Nat
        BY <1>0, <3>2, OneMore
      <3>4. recv' + Cardinality(UnderWay') <= sent' + WarmUps * WarmedUpAgain'
        <4>1. recv + Cardinality(UnderWay) <= sent + WarmUps * WarmedUpAgain
          BY DEF Counted
        <4>2. ASSUME NEW x \in Nat, NEW y \in Nat, NEW u \in Nat, NEW v \in Nat,
                     x + u <= y + v, NEW u1 \in Nat, u1 <= u + WarmUps
              PROVE  x + u1 <= y + (v + WarmUps)
          BY <4>2, BoundsAssumption
        <4> QED BY <1>0, <2>1, <2>5, <3>3, <4>1, <4>2
      <3> QED BY <1>0, <2>5, <2>6, <3>1, <3>4 DEF Counted
    <2> QED BY <2>7, <2>8
  <1>5. ASSUME NEW timeUp \in BOOLEAN, SenderSends(timeUp) PROVE Counted'
    <2> DEFINE pkt == [sid |-> sessionId, seq |-> pktSeq, copy |-> 0]
    <2>1. /\ sender \notin {"none", "begin"} /\ sender' \in {"tail", "sleep"}
          /\ UNCHANGED <<runs, recv>> /\ sent' = sent + 1 /\ net' = net \cup {pkt}
      BY <1>5 DEF SenderSends, InLoop, countVars
    <2>2. UnderWay' \in SUBSET (UnderWay \cup {pkt})
      BY <2>1 DEF UnderWay
    <2> HIDE DEF pkt
    <2>3. /\ IsFiniteSet(UnderWay')
          /\ Cardinality(UnderWay') <= Cardinality(UnderWay) + 1
          /\ Cardinality(UnderWay') \in Nat
      <3>1. /\ IsFiniteSet(UnderWay \cup {pkt})
            /\ Cardinality(UnderWay \cup {pkt}) =
                 IF pkt \in UnderWay THEN Cardinality(UnderWay) ELSE Cardinality(UnderWay) + 1
        BY FS_AddElement DEF Counted
      <3>2. IsFiniteSet(UnderWay') /\ Cardinality(UnderWay') <= Cardinality(UnderWay \cup {pkt})
        BY <2>2, <3>1, FS_Subset
      <3>3. Cardinality(UnderWay') \in Nat
        BY <3>2, FS_CardinalityType
      <3> QED BY <1>0, <3>1, <3>2, <3>3
    <2>4. WarmedUpAgain' = WarmedUpAgain /\ WarmUps * WarmedUpAgain \in Nat
      BY <1>0, <2>1, OneMore DEF WarmedUpAgain, Restarts
    <2> QED BY <1>0, <2>1, <2>3, <2>4 DEF Counted
  <1>6. CASE SenderFails \/ SenderStops \/ SenderFinishes
    <2>1. /\ UNCHANGED <<net, recv, sent, runs>>
          /\ sender \notin {"none", "begin"} /\ sender' \notin {"none", "begin"}
      BY <1>6 DEF SenderFails, SenderStops, SenderFinishes, InLoop, sendVars, countVars
    <2> QED BY <2>1, CountedFrame
  <1>7. CASE SenderExits
    <2>1. /\ UNCHANGED <<net, recv, sent, runs>>
          /\ \/ UNCHANGED <<sender, pktSeq>>
             \/ sender \notin {"none", "begin"} /\ sender' \notin {"none", "begin"}
      BY <1>7 DEF SenderExits, sendVars, countVars
    <2> QED BY <2>1, CountedFrame
  <1>8. CASE TimerDue \/ TimerIceCb \/ WorkerQuits
    <2>1. UNCHANGED <<net, recv, sent, runs, sender, pktSeq>>
      BY <1>8 DEF TimerDue, TimerIceCb, WorkerQuits, sendVars, countVars
    <2> QED BY <2>1, CountedFrame
  <1>9. ASSUME NEW m \in net, NEW d \in 0 .. MaxDelay, RecvEcho(m, d) PROVE Counted'
    <2>1. net' = net \ {m} /\ UNCHANGED <<runs, sender, pktSeq, sent>>
      BY <1>9 DEF RecvEcho, threadVars, sendVars
    <2>2. recv' = recv \/ (recv' = recv + 1 /\ m.seq # 0)
      BY <1>9 DEF RecvEcho, IsWarmUp, countVars
    <2>3. UnderWay' = UnderWay \ {m} /\ (m \in UnderWay <=> m.seq # 0)
      BY <2>1 DEF UnderWay
    <2>4. /\ IsFiniteSet(UnderWay')
          /\ Cardinality(UnderWay') = IF m \in UnderWay THEN Cardinality(UnderWay) - 1
                                                       ELSE Cardinality(UnderWay)
          /\ Cardinality(UnderWay') \in Nat
      BY <2>3, FS_RemoveElement, FS_CardinalityType DEF Counted
    <2>5. WarmedUpAgain' = WarmedUpAgain /\ WarmUps * WarmedUpAgain \in Nat
      BY <1>0, <2>1, OneMore DEF WarmedUpAgain, Restarts
    <2>6. recv' + Cardinality(UnderWay') <= recv + Cardinality(UnderWay)
      BY <1>0, <2>2, <2>3, <2>4
    <2>7. recv' \in Nat
      BY <1>0, <2>2
    <2> QED BY <1>0, <2>1, <2>4, <2>5, <2>6, <2>7 DEF Counted
  <1>10. CASE UNCHANGED vars
    <2>1. UNCHANGED <<net, recv, sent, runs, sender, pktSeq>>
      BY <1>10 DEF vars, threadVars, sendVars, countVars
    <2> QED BY <2>1, CountedFrame
  <1> QED
    BY <1>1, <1>2, <1>3, <1>4, <1>5, <1>6, <1>7, <1>8, <1>9, <1>10
    DEF Next, Sender, Worker, Send

\* The accounting holds for every number of tests, packets and warm-up packets,
\* whatever the network loses or reorders.
LEMMA CountedAlways == Spec => []Counted
PROOF
  <1>1. ASSUME Init PROVE Counted
    <2>1. /\ net = {} /\ recv = 0 /\ sent = 0 /\ runs = 0 /\ sender = "none" /\ pktSeq = 0
          /\ UnderWay = {} /\ WarmedUpAgain = 0
      BY <1>1 DEF Init, UnderWay, WarmedUpAgain, Restarts
    <2>2. WarmUps * 0 = 0
      BY BoundsAssumption
    <2> QED BY <2>1, <2>2, FS_EmptySet DEF Counted
  <1>2. IInv /\ Counted /\ [Next]_vars => Counted'
    BY CountedStep DEF IInv
  <1> QED BY <1>1, <1>2, IInvAlways, PTL DEF Spec

\* recv_pkts exceeds sent_pkts at most by the warm-up packets of the tests that
\* were started again; the loss that mstester_get_status reports in the first
\* test is at most what was sent, so that the difference of the two unsigned
\* counters does not wrap round there.
THEOREM LossWithinSent == Spec => []LostWithinSent
PROOF
  <1>1. ASSUME IInv, Counted PROVE LostWithinSent
    <2>0. /\ sent \in Nat /\ recv \in Nat /\ Word \in Nat \ {0} /\ runs \in Nat
          /\ Restarts \in Nat /\ Cardinality(UnderWay) \in Nat
      BY <1>1, BoundsAssumption, FS_CardinalityType DEF IInv, TypeOK, Counted, Restarts
    <2>1. /\ WarmUps * WarmedUpAgain \in Nat /\ WarmUps * Restarts \in Nat
          /\ WarmUps * WarmedUpAgain <= WarmUps * Restarts
      <3>1. runs = 0 => sender = "none"
        BY <1>1 DEF Counted
      <3>2. CASE WarmedUpAgain = Restarts
        BY <2>0, <3>2, OneMore
      <3>3. CASE WarmedUpAgain \in Nat /\ Restarts = WarmedUpAgain + 1
        BY <3>3, OneMore, BoundsAssumption
      <3> QED BY <2>0, <3>1, <3>2, <3>3 DEF WarmedUpAgain, Restarts
    <2>2. recv <= sent + WarmUps * Restarts
      <3>1. recv + Cardinality(UnderWay) <= sent + WarmUps * WarmedUpAgain
        BY <1>1 DEF Counted
      <3>2. ASSUME NEW v \in Nat, NEW w \in Nat, v <= w, recv + Cardinality(UnderWay) <= sent + v
            PROVE  recv <= sent + w
        BY <2>0, <3>2
      <3> QED BY <2>1, <3>1, <3>2
    <2>3. ASSUME Restarts = 0 PROVE LostPackets <= sent
      <3>1. WarmUps * Restarts = 0
        BY <2>3, BoundsAssumption
      <3>2. recv <= sent
        BY <2>0, <2>2, <3>1
      <3>3. sent - recv \in Nat /\ sent - recv <= sent
        BY <2>0, <3>2
      <3>4. (sent - recv) % Word \in Nat /\ (sent - recv) % Word <= sent - recv
        BY <2>0, <3>3, RemainderAtMost
      <3> HIDE DEF LostPackets
      <3> QED BY <2>0, <3>3, <3>4 DEF LostPackets
    <2> QED BY <2>2, <2>3 DEF LostWithinSent
  <1> QED BY <1>1, IInvAlways, CountedAlways, PTL
===============================================================================
