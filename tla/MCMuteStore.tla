---------------------------- MODULE MCMuteStore ----------------------------
(* Instances of MuteStore for the model checker. *)
EXTENDS MuteStore, TLC

CONSTANTS t1, t2, i1, i2

\* Two goroutines of one bot.
OneBot == (t1 :> i1) @@ (t2 :> i1)

\* One goroutine in each of two bots.
TwoBots == (t1 :> i1) @@ (t2 :> i2)
=============================================================================
