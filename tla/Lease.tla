--------------------------------- MODULE Lease ---------------------------------
(***************************************************************************)
(* What scheduled_events promises the instances that share a task: its row  *)
(* is a lease.  A goroutine takes it when it is free or has gone stale,     *)
(* nobody else holds it meanwhile, and it ends by recording the run or by   *)
(* giving up; last_fired_at never moves back.  A holder that dies leaves    *)
(* the lease taken until it goes stale.  All of it holds until something    *)
(* breaks the protocol, and nothing is promised from then on.               *)
(* ScheduledEvents is shown to implement it.                                *)
(***************************************************************************)
EXTENDS Integers

CONSTANTS Threads, Timeout

VARIABLES
    now,      \* the clock all goroutines read
    holders,  \* the goroutines that run the task
    since,    \* when the lease was taken, 0 when it is free
    fired,    \* the time recorded last
    broken    \* the protocol was broken

vars == <<now, holders, since, fired, broken>>

Free == since = 0

Stale == since + Timeout < now

Take(t) ==
    /\ holders = {}
    /\ Free \/ Stale
    /\ holders' = {t}
    /\ since' \in 1 .. now
    /\ UNCHANGED <<now, fired, broken>>

\* The run is recorded and the lease given back.
Complete(t) ==
    /\ t \in holders
    /\ holders' = holders \ {t}
    /\ since' = 0
    /\ fired' \in fired .. now
    /\ UNCHANGED <<now, broken>>

\* A panic: the lease is given back, nothing is recorded.
GiveBack(t) ==
    /\ t \in holders
    /\ holders' = holders \ {t}
    /\ since' = 0
    /\ UNCHANGED <<now, fired, broken>>

\* The process dies, or the last write fails: the lease stays taken.
Abandon(t) ==
    /\ t \in holders
    /\ holders' = holders \ {t}
    /\ UNCHANGED <<now, since, fired, broken>>

\* No run outlives its lease.
Tick ==
    /\ now' = now + 1
    /\ holders # {} => since + Timeout >= now'
    /\ UNCHANGED <<holders, since, fired, broken>>

Break == broken'

Init ==
    /\ now \in Nat
    /\ holders = {}
    /\ since = 0
    /\ fired = 0
    /\ broken = FALSE

Next ==
    \/ \E t \in Threads : Take(t) \/ Complete(t) \/ GiveBack(t) \/ Abandon(t)
    \/ Tick
    \/ Break

Spec == Init /\ [][Next]_vars
================================================================================
