------------------------- MODULE MCScheduledEvents -------------------------
(* Instances of ScheduledEvents for the model checker. *)
EXTENDS ScheduledEvents, TLC

CONSTANTS t1, t2, i1, i2

\* One goroutine in each of two instances.
OneEach == (t1 :> i1) @@ (t2 :> i2)
=============================================================================
