---------------------------- MODULE ScheduledEvents ----------------------------
(***************************************************************************)
(* One scheduled task of the bot and its row in scheduled_events, shared by *)
(* every running instance (internal/bot/scheduler.go and the               *)
(* scheduled-event operations of internal/database/operations.go).         *)
(*                                                                         *)
(* The row's started_at is a lease on the task: a claim sets it when it is *)
(* null or older than Timeout, the end of the run clears it.  A goroutine  *)
(* looks at last_fired_at, decides, claims, runs and records in separate   *)
(* steps.  In webhook mode the goroutines are the triggers of the web      *)
(* endpoint, otherwise each instance has one that sleeps until the task is *)
(* due.                                                                    *)
(***************************************************************************)
EXTENDS Integers, FiniteSets

CONSTANTS
    Instances,   \* bot processes that share the database
    Threads,     \* goroutines that may run the task
    Home,        \* Home[t]: the process goroutine t belongs to
    Main,        \* the goroutines that run startScheduledTasks
    WebhookMode, \* instances whose tasks run only when triggered
    Kinds,       \* what the task may be: "daily", "interval"
    SeedOnFirstRun,
    Day,         \* a daily task occurs once in Day ticks
    Target,      \* the tick of the day at which it does
    Interval,    \* the period of an interval task
    MaxDelay,    \* missed_event_max_delay_minutes
    Timeout,     \* lock_timeout_minutes
    Remote,      \* the provider is remote: the reply to a write may be lost
    OtherConfig, \* instances whose configuration lacks the task may start
    Start,       \* the first reading of the clock
    MaxTime,     \* bound: the last one
    MaxFaults    \* bound: kinds of faults met in one behaviour

MaxAttempts == 3

ASSUME HomeAssumption == Home \in [Threads -> Instances]
ASSUME MainAssumption == Main \subseteq Threads
ASSUME KindsAssumption == Kinds \subseteq {"daily", "interval"} /\ Kinds # {}
ASSUME FlagsAssumption == {SeedOnFirstRun, Remote, OtherConfig} \subseteq BOOLEAN
ASSUME TimesAssumption ==
    /\ {Day, Target, Interval, MaxDelay, Timeout, Start, MaxTime, MaxFaults}
         \subseteq Nat
    /\ Target < Day
    /\ Interval > 0
    /\ Start >= Day + Interval

VARIABLES
    kind,    \* the task's kind, fixed
    now,     \* the clock all processes read
    row,     \* the task's row, or NoRow
    th,      \* th[t]: where goroutine t is, and its locals
    done,    \* history: daily occurrences that were run to the end
    again,   \* history: those that were run to the end twice
    faults   \* history: what has gone wrong so far

vars == <<kind, now, row, th, done, again, faults>>

-----------------------------------------------------------------------------
(* Data                                                                    *)

NoLock == 0       \* started_at IS NULL

NeverFired == 0   \* the zero time EnsureScheduledEventExists inserts

Rows == [present : BOOLEAN, fired : Int, started : Nat]

NoRow == [present |-> FALSE, fired |-> NeverFired, started |-> NoLock]

HasRow == row.present

Calls == {"none", "missed", "first", "timer"}

Steps == {"off", "idle", "look", "arm", "sleep", "due", "enter", "claim",
          "run", "record", "release", "seed"}

Local == [step : Steps, call : Calls, asOf : Nat, stamp : Nat, at : Int,
          tries : 0 .. MaxAttempts - 1, alarm : Int]

\* What can go wrong around a run: it outlives its lease; a reply is lost; the
\* row is missing; a write or a read fails; the process dies; goroutines look
\* at the task while another one is busy with it.
Faults == {"overran", "lost", "norow", "unwritten", "unread", "crash",
           "overlap"}

\* A goroutine that has nothing in hand.
Fresh(s) == [step |-> s, call |-> "none", asOf |-> 0, stamp |-> 0, at |-> 0,
             tries |-> 0, alarm |-> 0]

Reborn(t) == Fresh(IF t \in Main THEN "off" ELSE "idle")

At(t, s) == th[t].step = s

Webhook(t) == Home[t] \in WebhookMode

Resting(t) == th[t].step \in {"off", "idle", "sleep"}

\* Holds the lease, as far as it knows.
Holder(t) == th[t].step \in {"run", "record", "release"}

\* The occurrences of a daily task are at Target in every day.
TodayOccurrence(n) == (n - (n % Day)) + Target

MostRecent(n) ==
    IF TodayOccurrence(n) > n THEN TodayOccurrence(n) - Day
                              ELSE TodayOccurrence(n)

NextOccurrence(n) == MostRecent(n) + Day

\* The occurrence goroutine t runs the task for.
Occurrence(t) ==
    IF th[t].call = "missed" THEN MostRecent(th[t].asOf) ELSE th[t].alarm

Blame(S) ==
    /\ faults' = faults \cup S
    /\ Cardinality(faults') <= MaxFaults

\* Another goroutine is busy with the task while t begins.
Overlap(t) == IF \E u \in Threads \ {t} : ~Resting(u) THEN {"overlap"} ELSE {}

Move(t, s) == th' = [th EXCEPT ![t].step = s]

\* A ticker that was not served drops the ticks in between.
NextTick(alarm) == alarm + Interval * (((now - alarm) \div Interval) + 1)

\* What t does when its call is over.
After(t) ==
    IF Webhook(t) THEN Fresh("idle")
    ELSE IF th[t].call = "missed" THEN Fresh("arm")
    ELSE IF kind = "daily" THEN Fresh("arm")
    ELSE [Fresh("sleep") EXCEPT !.call = "timer",
              !.alarm = IF th[t].call = "timer" THEN th[t].alarm
                                                ELSE now + Interval]

Return(t) == th' = [th EXCEPT ![t] = After(t)]

-----------------------------------------------------------------------------
(* Writes that retryOnTransientError repeats                               *)

\* Mutation: one attempt too many.
LastTryLate(t) == th[t].tries = MaxAttempts

LastTry(t) == th[t].tries + 1 = MaxAttempts

Retried(t) == [th[t] EXCEPT !.tries = @ + 1]

\* Goroutine t writes `after`; goes to `then` when done.
Write(t, after, then) ==
    \/ /\ row' = after
       /\ th' = [th EXCEPT ![t] = then]
       /\ UNCHANGED faults
    \/ \E lost \in {FALSE, Remote} :
          /\ row' = IF lost THEN after ELSE row
          /\ th' = [th EXCEPT ![t] = IF LastTry(t) THEN then ELSE Retried(t)]
          /\ Blame((IF lost THEN {"lost"} ELSE {}) \cup
                   (IF LastTry(t) THEN {"unwritten"} ELSE {}))
    \/ /\ th' = [th EXCEPT ![t] = then]
       /\ Blame({"unwritten"})
       /\ UNCHANGED row

\* Mutation: INSERT OR REPLACE.
EnsuredAnew == [present |-> TRUE, fired |-> NeverFired, started |-> NoLock]

Ensured ==
    IF HasRow THEN row
    ELSE [present |-> TRUE, fired |-> NeverFired, started |-> NoLock]

Upserted(firedAt) ==
    [present |-> TRUE, fired |-> firedAt, started |-> NoLock]

\* Mutation: a failed run keeps its lock.
ReleasedNothing == row

Released == [row EXCEPT !.started = NoLock]

-----------------------------------------------------------------------------
(* startScheduledTasks                                                     *)

EnsureScheduledEventExists(t) ==
    /\ At(t, "off")
    /\ Write(t, Ensured,
             IF Webhook(t) THEN Fresh("idle")
             ELSE [Fresh("look") EXCEPT !.call = "missed", !.asOf = now])
    /\ UNCHANGED <<kind, now, done, again>>

\* An instance that is not configured for the task drops its row.
PruneScheduledEvents ==
    /\ OtherConfig
    /\ HasRow
    /\ row' = NoRow
    /\ Blame({"norow"})
    /\ UNCHANGED <<kind, now, th, done, again>>

\* A request to the webhook endpoint starts checkMissedEvents.
TriggerScheduledEvents(t) ==
    /\ Webhook(t)
    /\ At(t, "idle")
    /\ th' = [th EXCEPT ![t] = [Fresh("look") EXCEPT !.call = "missed",
                                                     !.asOf = now]]
    /\ Blame(Overlap(t))
    /\ UNCHANGED <<kind, now, row, done, again>>

-----------------------------------------------------------------------------
(* Is the task due?                                                        *)

\* Mutation: an occurrence that has been handled counts as missed.
MissedDayTooEager(asOf) ==
    /\ row.fired <= MostRecent(asOf)
    /\ asOf - MostRecent(asOf) <= MaxDelay

MissedDay(asOf) ==
    /\ row.fired < MostRecent(asOf)
    /\ asOf - MostRecent(asOf) <= MaxDelay

MissedInterval == row.fired + Interval <= now

\* checkMissedEvents; for an interval task, checkMissedIntervalEvent.
Look(t) ==
    /\ At(t, "look")
    /\ \/ /\ Return(t)                       \* the query failed, or is up to date
          /\ UNCHANGED faults
       \/ /\ HasRow
          /\ \/ kind = "daily" /\ MissedDay(th[t].asOf)
             \/ kind = "interval" /\ MissedInterval
          /\ Move(t, "enter")
          /\ Blame(Overlap(t))
       \/ /\ ~HasRow
          /\ kind = "daily" /\ SeedOnFirstRun
          /\ th' = [th EXCEPT ![t].step = "seed",
                              ![t].at = TodayOccurrence(th[t].asOf)]
          /\ Blame({"norow"})
    /\ UNCHANGED <<kind, now, row, done, again>>

\* The head of runScheduledTask's loop.
ArmDaily(t) ==
    /\ At(t, "arm")
    /\ kind = "daily"
    /\ th' = [th EXCEPT ![t] = [Fresh("sleep") EXCEPT !.call = "timer",
                                    !.alarm = NextOccurrence(now)]]
    /\ UNCHANGED <<kind, now, row, done, again, faults>>

\* runIntervalTask up to its ticker: a query that fails leaves the task to the
\* ticker, a missing row is seeded, an overdue run starts now, another waits.
ArmInterval(t) ==
    /\ At(t, "arm")
    /\ kind = "interval"
    /\ \/ /\ th' = [th EXCEPT ![t] = [Fresh("sleep") EXCEPT !.call = "timer",
                                                  !.alarm = now + Interval]]
          /\ UNCHANGED faults
       \/ /\ ~HasRow
          /\ th' = [th EXCEPT ![t] = [Fresh("seed") EXCEPT !.call = "first",
                                                           !.at = now]]
          /\ Blame({"norow"})
       \/ /\ HasRow /\ MissedInterval
          /\ th' = [th EXCEPT ![t] = [Fresh("enter") EXCEPT !.call = "first"]]
          /\ Blame(Overlap(t))
       \/ /\ HasRow /\ ~MissedInterval
          /\ th' = [th EXCEPT ![t] = [Fresh("sleep") EXCEPT !.call = "first",
                                          !.alarm = row.fired + Interval]]
          /\ UNCHANGED faults
    /\ UNCHANGED <<kind, now, row, done, again>>

RecordSeed(t) ==
    /\ At(t, "seed")
    /\ Write(t, Upserted(th[t].at), After(t))
    /\ UNCHANGED <<kind, now, done, again>>

\* The timer goes off, perhaps late.  An interval task does not look again.
Wake(t) ==
    /\ At(t, "sleep")
    /\ now >= th[t].alarm
    /\ IF kind = "daily"
       THEN Move(t, "due") /\ UNCHANGED faults
       ELSE /\ th' = [th EXCEPT ![t].step = "enter", ![t].alarm = NextTick(@)]
            /\ Blame(Overlap(t))
    /\ UNCHANGED <<kind, now, row, done, again>>

\* runScheduledTask skips an occurrence that has been handled.  A query that
\* fails does not stop it.
Due(t) ==
    /\ At(t, "due")
    /\ \/ /\ Move(t, "enter")
          /\ Blame(Overlap(t) \cup {"unread"})
       \/ /\ ~HasRow \/ row.fired < th[t].alarm
          /\ Move(t, "enter")
          /\ Blame(Overlap(t))
       \/ /\ HasRow /\ row.fired >= th[t].alarm
          /\ Return(t)
          /\ UNCHANGED faults
    /\ UNCHANGED <<kind, now, row, done, again>>

-----------------------------------------------------------------------------
(* executeWithLock                                                         *)

\* TryClaimScheduledEvent reads the clock once, before its attempts.
Enter(t) ==
    /\ At(t, "enter")
    /\ th' = [th EXCEPT ![t].step = "claim", ![t].stamp = now]
    /\ UNCHANGED <<kind, now, row, done, again, faults>>

\* Mutation: a lock is stale at once.
ClaimableEarly(stamp) ==
    HasRow /\ (row.started = NoLock \/ row.started < stamp)

\* The WHERE clause of the claim.
Claimable(stamp) ==
    HasRow /\ (row.started = NoLock \/ row.started + Timeout < stamp)

Claimed(stamp) ==
    IF Claimable(stamp) THEN [row EXCEPT !.started = stamp] ELSE row

\* A run whose lease has lasted too long by time n.
Late(t, n) == Holder(t) /\ th[t].stamp + Timeout < n

Claim(t) ==
    /\ At(t, "claim")
    /\ row' = Claimed(th[t].stamp)
    /\ IF Claimable(th[t].stamp)
       THEN /\ th' = [th EXCEPT ![t].step = "run", ![t].tries = 0]
            /\ Blame(IF th[t].stamp + Timeout < now THEN {"overran"} ELSE {})
       ELSE Return(t) /\ UNCHANGED faults
    /\ UNCHANGED <<kind, now, done, again>>

\* An attempt that ends with an error.  When only the reply was lost, the next
\* attempt meets the lock of the first.
ClaimFails(t) ==
    /\ At(t, "claim")
    /\ \E lost \in {FALSE, Remote}, transient \in BOOLEAN :
          /\ row' = IF lost THEN Claimed(th[t].stamp) ELSE row
          /\ IF transient /\ ~LastTry(t)
             THEN th' = [th EXCEPT ![t].tries = @ + 1]
             ELSE Return(t)
          /\ Blame(IF lost THEN {"lost"} ELSE {})
    /\ UNCHANGED <<kind, now, done, again>>

Ended(t) == IF kind = "daily" THEN {Occurrence(t)} ELSE {}

\* The task returns.
RunDone(t) ==
    /\ At(t, "run")
    /\ th' = [th EXCEPT ![t].step = "record", ![t].at = now]
    /\ done' = done \cup Ended(t)
    /\ again' = again \cup (done \cap Ended(t))
    /\ UNCHANGED <<kind, now, row, faults>>

\* The task panics; executeWithLock recovers.
RunPanics(t) ==
    /\ At(t, "run")
    /\ Move(t, "release")
    /\ UNCHANGED <<kind, now, row, done, again, faults>>

RecordEventFired(t) ==
    /\ At(t, "record")
    /\ Write(t, Upserted(th[t].at), After(t))
    /\ UNCHANGED <<kind, now, done, again>>

ReleaseScheduledEvent(t) ==
    /\ At(t, "release")
    /\ Write(t, Released, After(t))
    /\ UNCHANGED <<kind, now, done, again>>

-----------------------------------------------------------------------------
(* A process dies and starts again; time passes                            *)

Restart(i) ==
    /\ th' = [t \in Threads |-> IF Home[t] = i THEN Reborn(t) ELSE th[t]]
    /\ Blame(IF \E t \in Threads : Home[t] = i /\ Holder(t)
             THEN {"crash"} ELSE {})
    /\ UNCHANGED <<kind, now, row, done, again>>

Tick ==
    /\ now < MaxTime
    /\ now' = now + 1
    /\ Blame(IF \E t \in Threads : Late(t, now + 1) THEN {"overran"} ELSE {})
    /\ UNCHANGED <<kind, row, th, done, again>>

-----------------------------------------------------------------------------
Init ==
    /\ kind \in Kinds
    /\ now = Start
    /\ row = NoRow
    /\ th = [t \in Threads |-> Reborn(t)]
    /\ done = {}
    /\ again = {}
    /\ faults = {}

Proceed(t) ==
    \/ EnsureScheduledEventExists(t) \/ TriggerScheduledEvents(t)
    \/ Look(t) \/ ArmDaily(t) \/ ArmInterval(t) \/ RecordSeed(t)
    \/ Wake(t) \/ Due(t)
    \/ Enter(t) \/ Claim(t) \/ ClaimFails(t)
    \/ RunDone(t) \/ RunPanics(t)
    \/ RecordEventFired(t) \/ ReleaseScheduledEvent(t)

Next ==
    \/ \E t \in Threads : Proceed(t)
    \/ \E i \in Instances : Restart(i)
    \/ PruneScheduledEvents
    \/ Tick

Spec == Init /\ [][Next]_vars

-----------------------------------------------------------------------------
(* Properties                                                              *)

\* Every variable holds a value of its type.
TypeOK ==
    /\ kind \in Kinds
    /\ now \in Nat
    /\ row \in Rows
    /\ th \in [Threads -> Local]
    /\ done \subseteq Int
    /\ again \subseteq done
    /\ faults \subseteq Faults

\* "The claim fails if another instance already holds the lock"
\* (operations.go:1817): as long as no run outlives the lock timeout, no reply
\* is lost and the row is not pruned, no two goroutines of any instances run
\* the task at the same time, whatever crashes, panics, fails or is retried.
ExclusiveRun ==
    faults \cap {"overran", "lost", "norow"} = {}
       => \A t, u \in Threads : Holder(t) /\ Holder(u) => t = u

\* A lock is always somebody's: a run that ends, by returning or by a panic,
\* leaves none behind that would block the task until it goes stale, unless
\* its process died, its last write failed or its reply was lost.
LockAccounted ==
    /\ faults \cap {"overran", "lost", "norow", "unwritten", "crash"} = {}
    /\ row.started # NoLock
    => \E t \in Threads : Holder(t) /\ th[t].stamp = row.started

\* "Database-level locking prevents duplicate scheduled runs when more than
\* one instance is live" (README.md:157): with no other fault, an occurrence
\* of a daily task is run to its end at most once.
OncePerOccurrence == faults \subseteq {"overlap"} => again = {}

\* What holds of that: as long as, besides, no goroutine looks at the task
\* while another is busy with it, no occurrence is run twice, by whichever
\* mixture of restarts, missed-event checks, triggers and timers.
OnceUnlessOverlapping == faults = {} => again = {}

\* last_fired_at never moves back, although it is written by different
\* goroutines with times they read before their retries.
FiredForward ==
    [][faults' \cap {"overran", "lost", "norow"} = {}
          => row'.fired >= row.fired]_vars

\* The row of the task as the lease it is meant to be: who runs the task, since
\* when, and what was recorded last.  It stops being one when a run outlives
\* it, the reply to a claim or a write is lost, or the row is removed.
L == INSTANCE Lease WITH
         holders <- {t \in Threads : Holder(t)},
         since <- row.started,
         fired <- row.fired,
         broken <- faults \cap {"overran", "lost", "norow"} # {}

\* "Database-level locking" (README.md:157): start-up, missed-event checks,
\* timers, claims, retried writes, panics and restarts of all instances
\* together implement a lease that one goroutine at a time holds, that is
\* taken over only when stale, and whose record of the last run moves forward.
ImplementsLease == L!Spec
================================================================================
