------------------------ MODULE EventThreadCallProofs ------------------------
(***************************************************************************)
(* Proofs about EventThreadCall for any set of workers, any room in the    *)
(* socket and any number of calls.                                         *)
(***************************************************************************)
EXTENDS EventThreadCall, TLAPS

USE DEF Main, Nobody

\* The inductive invariant: NoLostWakeup survives WakeupReturn only because
\* the lock keeps every worker from pushing between the loop thread's last
\* test of functions_.empty() and its release of the lock.
IInv == TypeOK /\ CallLeft /\ LockHolder /\ FrontExists /\ NoLostWakeup

\* The type invariant is preserved by every step of every thread.
LEMMA TypeStep == TypeOK /\ CallLeft /\ FrontExists /\ [Next]_vars => TypeOK'
<1> SUFFICES ASSUME TypeOK, CallLeft, FrontExists, [Next]_vars PROVE TypeOK'
  OBVIOUS
<1> USE WorkersAssumption, SocketRoomAssumption, MaxCallsAssumption DEF TypeOK
<1>1. ASSUME NEW w \in Workers, ThreadCallEnter(w) PROVE TypeOK'
  BY <1>1 DEF ThreadCallEnter
<1>2. ASSUME NEW w \in Workers, ThreadCallLock(w) PROVE TypeOK'
  BY <1>2 DEF ThreadCallLock
<1>3. ASSUME NEW w \in Workers, ThreadCallPush(w) PROVE TypeOK'
  <2>1. <<w, issued[w]>> \in Functor
    BY DEF Functor
  <2>2. issued[w] + 1 \in 0 .. MaxCalls
    BY <1>3 DEF ThreadCallPush, CallLeft
  <2>3. QED
    BY <1>3, <2>1, <2>2 DEF ThreadCallPush
<1>4. ASSUME NEW w \in Workers, ThreadCallSend(w) PROVE TypeOK'
  BY <1>4 DEF ThreadCallSend, SendToken
<1>5. ASSUME NEW w \in Workers, WorkerExit(w) PROVE TypeOK'
  BY <1>5 DEF WorkerExit
<1>6. CASE WakeupRecv
  BY <1>6 DEF WakeupRecv
<1>7. CASE WakeupLock
  BY <1>7 DEF WakeupLock
<1>8. CASE WakeupCall
  BY <1>8 DEF WakeupCall
<1>9. CASE WakeupPop
  BY <1>9 DEF WakeupPop, FrontExists
<1>10. CASE WakeupReturn
  BY <1>10 DEF WakeupReturn
<1>11. ASSUME NEW w \in Workers, EiceFreeBegin(w) PROVE TypeOK'
  BY <1>11 DEF EiceFreeBegin
<1>12. CASE EiceFreeEnd
  BY <1>12 DEF EiceFreeEnd
<1>13. CASE UNCHANGED vars
  BY <1>13 DEF vars
<1>14. QED
  BY <1>1, <1>2, <1>3, <1>4, <1>5, <1>6, <1>7, <1>8, <1>9, <1>10, <1>11, <1>12, <1>13
  DEF Next, Wakeup, Worker

\* One step of any thread preserves the rest of the invariant.
LEMMA InvStep ==
  IInv /\ [Next]_vars => CallLeft' /\ LockHolder' /\ FrontExists' /\ NoLostWakeup'
<1> DEFINE Goal == CallLeft' /\ LockHolder' /\ FrontExists' /\ NoLostWakeup'
<1> SUFFICES ASSUME IInv, [Next]_vars PROVE Goal
  OBVIOUS
<1> USE WorkersAssumption, SocketRoomAssumption, MaxCallsAssumption
    DEF IInv, TypeOK, CallLeft, LockHolder, FrontExists, NoLostWakeup
<1>1. ASSUME NEW w \in Workers, ThreadCallEnter(w) PROVE Goal
  BY <1>1 DEF ThreadCallEnter
<1>2. ASSUME NEW w \in Workers, ThreadCallLock(w) PROVE Goal
  BY <1>2 DEF ThreadCallLock
<1>3. ASSUME NEW w \in Workers, ThreadCallPush(w) PROVE Goal
  <2>1. lock = w /\ loop \notin {"drain", "called"}
    BY <1>3 DEF ThreadCallPush
  <2>2. QED
    BY <1>3, <2>1 DEF ThreadCallPush
<1>4. ASSUME NEW w \in Workers, ThreadCallSend(w) PROVE Goal
  <2>1. tokens' > 0
    BY <1>4 DEF ThreadCallSend, SendToken
  <2>2. QED
    BY <1>4, <2>1 DEF ThreadCallSend
<1>5. ASSUME NEW w \in Workers, WorkerExit(w) PROVE Goal
  BY <1>5 DEF WorkerExit
<1>6. CASE WakeupRecv
  BY <1>6 DEF WakeupRecv
<1>7. CASE WakeupLock
  BY <1>7 DEF WakeupLock
<1>8. CASE WakeupCall
  BY <1>8 DEF WakeupCall
<1>9. CASE WakeupPop
  BY <1>9 DEF WakeupPop
<1>10. CASE WakeupReturn
  BY <1>10 DEF WakeupReturn
<1>11. ASSUME NEW w \in Workers, EiceFreeBegin(w) PROVE Goal
  BY <1>11 DEF EiceFreeBegin
<1>12. CASE EiceFreeEnd
  BY <1>12 DEF EiceFreeEnd
<1>13. CASE UNCHANGED vars
  BY <1>13 DEF vars
<1>14. QED
  BY <1>1, <1>2, <1>3, <1>4, <1>5, <1>6, <1>7, <1>8, <1>9, <1>10, <1>11, <1>12, <1>13
  DEF Next, Wakeup, Worker

\* The inductive invariant holds in every reachable state.
THEOREM Invariance == Spec => []IInv
<1>1. Init => IInv
  BY WorkersAssumption, SocketRoomAssumption, MaxCallsAssumption
  DEF Init, IInv, TypeOK, CallLeft, LockHolder, FrontExists, NoLostWakeup
<1>2. IInv /\ [Next]_vars => IInv'
  BY TypeStep, InvStep DEF IInv
<1>3. QED
  BY <1>1, <1>2, PTL DEF Spec

\* Type correctness of the queue, its lock and its socket.
THEOREM TypeCorrect == Spec => []TypeOK
<1>1. IInv => TypeOK
  BY DEF IInv
<1>2. QED
  BY <1>1, Invariance, PTL

\* functionsLock_ excludes the loop's drain from every worker's push.
THEOREM LockHolderAlways == Spec => []LockHolder
<1>1. IInv => LockHolder
  BY DEF IInv
<1>2. QED
  BY <1>1, Invariance, PTL

\* A queued functor is never left without a wakeup, whatever number of
\* workers share the socket and however small its buffer is.
THEOREM NoLostWakeupAlways == Spec => []NoLostWakeup
<1>1. IInv => NoLostWakeup
  BY DEF IInv
<1>2. QED
  BY <1>1, Invariance, PTL

\* Every step is a step of the ordered queue or leaves it alone: the push
\* accepts a functor, the call of the front runs it, the pop is invisible.
LEMMA QueueStep == IInv /\ [Next]_vars => [Q!Next]_(Q!vars)
<1> SUFFICES ASSUME IInv, [Next]_vars PROVE [Q!Next]_(Q!vars)
  OBVIOUS
<1> USE WorkersAssumption, MaxCallsAssumption DEF IInv, TypeOK, Q!vars
<1>1. ASSUME NEW w \in Workers, ThreadCallPush(w) PROVE Q!Next
  <2>1. loop # "called" /\ loop' # "called"
    BY <1>1 DEF ThreadCallPush, LockHolder
  <2>2. <<w, issued[w]>> \in Functor
    BY DEF Functor
  <2>3. Q!Accept(<<w, issued[w]>>)
    BY <1>1, <2>1 DEF ThreadCallPush, Q!Accept
  <2>4. QED
    BY <2>2, <2>3 DEF Q!Next
<1>2. CASE WakeupCall
  <2>1. Q!Run
    BY <1>2 DEF WakeupCall, Q!Run
  <2>2. QED
    BY <2>1 DEF Q!Next
<1>3. CASE WakeupPop
  BY <1>3 DEF WakeupPop
<1>4. ASSUME NEW w \in Workers,
             ThreadCallEnter(w) \/ ThreadCallLock(w) \/ ThreadCallSend(w) \/ WorkerExit(w)
      PROVE UNCHANGED Q!vars
  BY <1>4 DEF ThreadCallEnter, ThreadCallLock, ThreadCallSend, WorkerExit
<1>5. CASE WakeupRecv \/ WakeupLock \/ WakeupReturn
  BY <1>5 DEF WakeupRecv, WakeupLock, WakeupReturn
<1>6. ASSUME NEW w \in Workers, EiceFreeBegin(w) PROVE UNCHANGED Q!vars
  BY <1>6 DEF EiceFreeBegin
<1>7. CASE EiceFreeEnd
  BY <1>7 DEF EiceFreeEnd
<1>8. CASE UNCHANGED vars
  BY <1>8 DEF vars
<1>9. QED
  BY <1>1, <1>2, <1>3, <1>4, <1>5, <1>6, <1>7, <1>8 DEF Next, Wakeup, Worker

\* The mutex, the queue and the wakeup socket together implement CallQueue:
\* functors run in the order they were accepted, and none runs twice.
THEOREM Refinement == Spec => ImplementsCallQueue
<1>1. Init => Q!Init
  BY DEF Init, Q!Init
<1>2. QED
  BY <1>1, QueueStep, Invariance, PTL DEF Spec, ImplementsCallQueue, Q!Spec
==============================================================================
