--------------------------- MODULE EventThreadCall ---------------------------
(***************************************************************************)
(* EventThreadCall (libevent_thread_call.h): ICE worker threads hand       *)
(* functors to the libevent thread through a mutex-protected queue and a   *)
(* nonblocking socket pair that wakes the loop.                            *)
(*                                                                         *)
(* A worker runs threadCall: it takes functionsLock_, pushes, releases the *)
(* lock and only then writes one 8-byte token to wakeFd_[0]; a full socket *)
(* makes send fail and the failure is ignored.  The loop thread runs       *)
(* wakeupCallback when wakeFd_[1] is readable: it reads one token, takes   *)
(* the lock and runs every queued functor while holding it.                *)
(*                                                                         *)
(* The loop thread is also the one that frees an endpoint: eice_free       *)
(* raises thread_quit_flag and blocks until that endpoint's worker has     *)
(* left handle_events, where the worker may be in the middle of a          *)
(* threadCall.                                                             *)
(***************************************************************************)
EXTENDS Naturals, Sequences

CONSTANTS Workers,     \* the ICE worker threads, one per endpoint
          SocketRoom,  \* tokens the kernel buffers in the socket pair
          MaxCalls     \* bound of the model: calls issued by each worker

Main == "main"
Nobody == "nobody"

ASSUME WorkersAssumption == Main \notin Workers /\ Nobody \notin Workers
ASSUME SocketRoomAssumption == SocketRoom \in Nat \ {0}
ASSUME MaxCallsAssumption == MaxCalls \in Nat

VARIABLES
  functions,   \* functions_: the queue of functors
  lock,        \* holder of functionsLock_
  tokens,      \* tokens readable from wakeFd_[1]
  pc,          \* where each worker is in threadCall
  issued,      \* calls each worker has issued so far
  loop,        \* what the loop thread is doing
  quit,        \* the worker whose thread_quit_flag eice_free waits on
  executed     \* history: the functors run by the loop, in order

vars == <<functions, lock, tokens, pc, issued, loop, quit, executed>>

\* A functor is the bound call of one worker; its number tells it apart.
Functor == Workers \X (0 .. MaxCalls)

Init ==
  /\ functions = <<>>
  /\ lock = Nobody
  /\ tokens = 0
  /\ pc = [w \in Workers |-> "idle"]
  /\ issued = [w \in Workers |-> 0]
  /\ loop = "wait"
  /\ quit = Nobody
  /\ executed = <<>>

-------------------------------------------------------------------------------
(* threadCall, on a worker thread *)

\* AppServer::call from cb_on_ice_complete: the worker asks for the lock
ThreadCallEnter(w) ==
  /\ pc[w] = "idle"
  /\ issued[w] < MaxCalls
  /\ pc' = [pc EXCEPT ![w] = "enter"]
  /\ UNCHANGED <<functions, lock, tokens, issued, loop, quit, executed>>

\* std::unique_lock<std::mutex> ul(functionsLock_)
ThreadCallLock(w) ==
  /\ pc[w] = "enter"
  /\ lock = Nobody
  /\ lock' = w
  /\ pc' = [pc EXCEPT ![w] = "locked"]
  /\ UNCHANGED <<functions, tokens, issued, loop, quit, executed>>

\* functions_.push(f), and the lock is released at the end of the block
ThreadCallPush(w) ==
  /\ pc[w] = "locked"
  /\ functions' = Append(functions, <<w, issued[w]>>)
  /\ issued' = [issued EXCEPT ![w] = @ + 1]
  /\ lock' = Nobody
  /\ pc' = [pc EXCEPT ![w] = "pushed"]
  /\ UNCHANGED <<tokens, loop, quit, executed>>

\* ::send on the nonblocking socket; EAGAIN on a full socket is ignored
SendToken == tokens' = IF tokens < SocketRoom THEN tokens + 1 ELSE tokens

ThreadCallSend(w) ==
  /\ pc[w] = "pushed"
  /\ SendToken
  /\ pc' = [pc EXCEPT ![w] = "idle"]
  /\ UNCHANGED <<functions, lock, issued, loop, quit, executed>>

\* eice_worker_thread leaves its loop once thread_quit_flag is set; the flag
\* is read only between two handle_events, that is, outside threadCall
WorkerExit(w) ==
  /\ quit = w
  /\ pc[w] = "idle"
  /\ pc' = [pc EXCEPT ![w] = "exited"]
  /\ UNCHANGED <<functions, lock, tokens, issued, loop, quit, executed>>

-------------------------------------------------------------------------------
(* wakeupCallback, on the loop thread *)

\* the loop finds wakeFd_[1] readable and recv takes one token
WakeupRecv ==
  /\ loop = "wait"
  /\ tokens > 0
  /\ tokens' = tokens - 1
  /\ loop' = "woken"
  /\ UNCHANGED <<functions, lock, pc, issued, quit, executed>>

WakeupLock ==
  /\ loop = "woken"
  /\ lock = Nobody
  /\ lock' = Main
  /\ loop' = "drain"
  /\ UNCHANGED <<functions, tokens, pc, issued, quit, executed>>

\* functions_.front()(): the functor runs while it is still at the front
WakeupCall ==
  /\ loop = "drain"
  /\ functions # <<>>
  /\ executed' = Append(executed, Head(functions))
  /\ loop' = "called"
  /\ UNCHANGED <<functions, lock, tokens, pc, issued, quit>>

\* Mutant: one functor per token instead of all the queued ones.
WakeupPopOnePerToken ==
  /\ loop = "called"
  /\ functions' = Tail(functions)
  /\ lock' = Nobody
  /\ loop' = "wait"
  /\ UNCHANGED <<tokens, pc, issued, quit, executed>>

\* Mutant: the functor is not popped after it ran.
WakeupPopForgotten ==
  /\ loop = "called"
  /\ loop' = "drain"
  /\ UNCHANGED <<functions, lock, tokens, pc, issued, quit, executed>>

WakeupPop ==
  /\ loop = "called"
  /\ functions' = Tail(functions)
  /\ loop' = "drain"
  /\ UNCHANGED <<lock, tokens, pc, issued, quit, executed>>

\* functions_.empty(): leave the loop and release the lock
WakeupReturn ==
  /\ loop = "drain"
  /\ functions = <<>>
  /\ lock' = Nobody
  /\ loop' = "wait"
  /\ UNCHANGED <<functions, tokens, pc, issued, quit, executed>>

-------------------------------------------------------------------------------
(* eice_free, called by handlers of the loop thread *)

\* Mutant: a functor frees an endpoint, so the loop holds functionsLock_.
EiceFreeBeginInFunctor(w) ==
  /\ loop = "called"
  /\ pc[w] # "exited"
  /\ quit' = w
  /\ loop' = "join"
  /\ UNCHANGED <<functions, lock, tokens, pc, issued, executed>>

\* a command handler or timeout_cb drops a session: thread_quit_flag = 1
EiceFreeBegin(w) ==
  /\ loop = "wait"
  /\ pc[w] # "exited"
  /\ quit' = w
  /\ loop' = "join"
  /\ UNCHANGED <<functions, lock, tokens, pc, issued, executed>>

\* thread_exited_flag is seen and the thread joined
EiceFreeEnd ==
  /\ loop = "join"
  /\ pc[quit] = "exited"
  /\ quit' = Nobody
  /\ loop' = "wait"
  /\ UNCHANGED <<functions, lock, tokens, pc, issued, executed>>

-------------------------------------------------------------------------------
Worker(w) ==
  \/ ThreadCallEnter(w)
  \/ ThreadCallLock(w)
  \/ ThreadCallPush(w)
  \/ ThreadCallSend(w)
  \/ WorkerExit(w)

Wakeup == WakeupRecv \/ WakeupLock \/ WakeupCall \/ WakeupPop \/ WakeupReturn

Next ==
  \/ Wakeup
  \/ EiceFreeEnd
  \/ \E w \in Workers : Worker(w) \/ EiceFreeBegin(w)

Spec == Init /\ [][Next]_vars

(***************************************************************************)
(* The kernel schedules every thread, and the loop polls a readable        *)
(* socket.  Of the mutex only weak fairness is assumed: a worker may take  *)
(* it again and again before the loop thread does, which ends because a    *)
(* worker issues finitely many calls.  A worker need not start a call.     *)
(***************************************************************************)
Fairness ==
  /\ WF_vars(Wakeup)
  /\ WF_vars(EiceFreeEnd)
  /\ \A w \in Workers : /\ WF_vars(ThreadCallLock(w))
                        /\ WF_vars(ThreadCallPush(w))
                        /\ WF_vars(ThreadCallSend(w))
                        /\ WF_vars(WorkerExit(w))

FairSpec == Spec /\ Fairness

-------------------------------------------------------------------------------
(* Properties *)

TypeOK ==
  /\ functions \in Seq(Functor)
  /\ lock \in Workers \cup {Main, Nobody}
  /\ tokens \in 0 .. SocketRoom
  /\ pc \in [Workers -> {"idle", "enter", "locked", "pushed", "exited"}]
  /\ issued \in [Workers -> 0 .. MaxCalls]
  /\ loop \in {"wait", "woken", "drain", "called", "join"}
  /\ quit \in Workers \cup {Nobody}
  /\ executed \in Seq(Functor)

\* functionsLock_ is held exactly by the thread inside its critical section.
LockHolder ==
  /\ \A w \in Workers : lock = w <=> pc[w] = "locked"
  /\ lock = Main <=> loop \in {"drain", "called"}

\* A worker on its way to the queue has a call left to issue.
CallLeft == \A w \in Workers : pc[w] \in {"enter", "locked"} => issued[w] < MaxCalls

\* functions_ has a front whenever the loop pops it.
FrontExists == loop = "called" => functions # <<>>

(***************************************************************************)
(* No lost wakeup: while a functor is queued, the loop is already on its   *)
(* way to the queue, or a token is readable, or the worker that pushed has *)
(* still to write its token - although send failures are ignored and one   *)
(* token may stand for many functors.                                      *)
(***************************************************************************)
NoLostWakeup ==
  functions # <<>> =>
    \/ loop \in {"woken", "drain", "called"}
    \/ tokens > 0
    \/ \E w \in Workers : pc[w] = "pushed"

\* The queue, its lock and its wakeup socket implement an ordered queue that
\* runs every accepted functor once.
Q == INSTANCE CallQueue
       WITH pending <- IF loop = "called" THEN Tail(functions) ELSE functions

ImplementsCallQueue == Q!Spec

\* Every functor handed to threadCall is run by the loop thread.
EveryCallRuns ==
  \A w \in Workers : \A n \in 0 .. MaxCalls - 1 :
    issued[w] > n ~> \E i \in DOMAIN executed : executed[i] = <<w, n>>

\* A loop thread blocked in eice_free gets its worker back.
FreeReturns == loop = "join" ~> loop = "wait"
==============================================================================
