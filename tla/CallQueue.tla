------------------------------ MODULE CallQueue ------------------------------
(***************************************************************************)
(* What EventThreadCall promises to AppServer::call: a functor handed in   *)
(* by any thread is run by the event loop, in the order in which the       *)
(* functors were accepted, each of them once.                              *)
(***************************************************************************)
EXTENDS Sequences

CONSTANT Functor     \* the functors a thread may hand to the event loop

VARIABLES pending,   \* accepted and not yet run, oldest first
          executed   \* run by the event loop, in order

vars == <<pending, executed>>

Init == pending = <<>> /\ executed = <<>>

Accept(f) == pending' = Append(pending, f) /\ UNCHANGED executed

Run == /\ pending # <<>>
       /\ executed' = Append(executed, Head(pending))
       /\ pending' = Tail(pending)

Next == (\E f \in Functor : Accept(f)) \/ Run

Spec == Init /\ [][Next]_vars
==============================================================================
