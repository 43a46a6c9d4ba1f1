------------------------------ MODULE Endpoint -------------------------------
(***************************************************************************)
(* What an eice object promises to the service that uses it: the direct    *)
(* negotiation and the relay end at most once each, a direct success ends  *)
(* the relay at the same moment, and the application is called at most     *)
(* once, after the direct negotiation has ended by itself.  IceService     *)
(* builds on exactly this; module Eice implements it.                      *)
(***************************************************************************)
VARIABLES nego,   \* the direct negotiation: none, skipped, running, ok or failed
          conf,   \* the relay: none, pending, ok or failed
          called, \* the application was called
          alive   \* eice_free has not yet returned

vars == <<nego, conf, called, alive>>

Init == nego = "none" /\ conf \in {"none", "pending"} /\ called = FALSE /\ alive = TRUE

Start ==
  /\ alive /\ nego = "none"
  /\ nego' \in {"running", "skipped"}
  /\ UNCHANGED <<conf, called, alive>>

NegoComplete(r) ==
  /\ alive /\ nego = "running"
  /\ nego' = r
  /\ conf' = IF r = "ok" /\ conf = "pending" THEN "failed" ELSE conf
  /\ UNCHANGED <<called, alive>>

Call ==
  /\ alive /\ nego \in {"ok", "failed"} /\ ~called
  /\ called' = TRUE
  /\ UNCHANGED <<nego, conf, alive>>

NegoTimeout ==
  /\ alive /\ nego = "running"
  /\ nego' = "failed"
  /\ UNCHANGED <<conf, called, alive>>

ConfComplete(r) ==
  /\ alive /\ conf = "pending"
  /\ conf' = r
  /\ UNCHANGED <<nego, called, alive>>

Free ==
  /\ alive
  /\ alive' = FALSE
  /\ UNCHANGED <<nego, conf, called>>

Next ==
  \/ Start \/ Call \/ NegoTimeout \/ Free
  \/ \E r \in {"ok", "failed"} : NegoComplete(r) \/ ConfComplete(r)

Spec == Init /\ [][Next]_vars
==============================================================================
