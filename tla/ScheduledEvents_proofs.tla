------------------------ MODULE ScheduledEvents_proofs ------------------------
(***************************************************************************)
(* The lease on a scheduled task, for any number of instances and          *)
(* goroutines, any periods and any lock timeout.  As long as no run        *)
(* outlives its lease, no reply is lost and the row stays, a run's claim   *)
(* time is what the row says, and a claim that finds it there must wait.   *)
(* From this it follows that no occurrence is run twice (second part).     *)
(***************************************************************************)
EXTENDS ScheduledEvents, TLAPS

-----------------------------------------------------------------------------
(* The inductive invariant                                                 *)

Sound == faults \cap {"overran", "lost", "norow"} = {}

\* The clock has started; a claim is stamped with a time that has been.
Clocked ==
    /\ now > 0
    /\ \A t \in Threads : th[t].step \in {"claim", "run", "record", "release"}
                             => 0 < th[t].stamp /\ th[t].stamp <= now

\* A run's claim time is in the row, it is not late, and nobody is about to
\* overwrite the row with a seed.
Leased ==
    Sound => /\ \A t \in Threads : Holder(t) =>
                   /\ HasRow
                   /\ row.started = th[t].stamp
                   /\ ~Late(t, now)
             /\ \A t \in Threads : ~At(t, "seed")
             /\ ExclusiveRun

\* last_fired_at is a time that has been, and no later than the one about to
\* be recorded.
FiredPast ==
    /\ ~HasRow => row = NoRow
    /\ Sound => /\ row.fired <= now
                /\ \A t \in Threads : At(t, "record") =>
                      row.fired <= th[t].at /\ th[t].at <= now

SInv == TypeOK /\ Clocked /\ Leased /\ FiredPast /\ LockAccounted

-----------------------------------------------------------------------------
(* Values                                                                  *)

LEMMA TimesAreIntegers ==
    /\ Day \in Nat /\ Target \in Nat /\ Interval \in Nat /\ MaxDelay \in Nat
    /\ Timeout \in Nat /\ Start \in Nat /\ MaxTime \in Nat
    /\ Day > 0 /\ Interval > 0 /\ Start > 0
BY TimesAssumption

LEMMA FreshType == \A s \in Steps : Fresh(s) \in Local
BY DEF Fresh, Local, Calls, MaxAttempts

\* The occurrences of a daily task are times.
LEMMA OccurrenceType ==
    \A n \in Nat : /\ TodayOccurrence(n) \in Int
                   /\ MostRecent(n) \in Int
                   /\ NextOccurrence(n) \in Int
<1> SUFFICES ASSUME NEW n \in Nat
             PROVE  /\ TodayOccurrence(n) \in Int
                    /\ MostRecent(n) \in Int
                    /\ NextOccurrence(n) \in Int
    OBVIOUS
<1>1. n % Day \in Int
    BY TimesAreIntegers
<1>2. TodayOccurrence(n) \in Int
    BY <1>1, TimesAreIntegers DEF TodayOccurrence
<1> QED
    BY <1>2, TimesAreIntegers DEF MostRecent, NextOccurrence

\* What a goroutine does after a call is well typed, and holds no lease.
LEMMA AfterType ==
    ASSUME TypeOK, NEW t \in Threads
    PROVE  After(t) \in Local /\ After(t).step \in {"idle", "arm", "sleep"}
<1>1. /\ Fresh("idle") \in Local /\ Fresh("arm") \in Local
      /\ Fresh("sleep") \in Local
    BY FreshType DEF Steps
<1>2. now + Interval \in Int /\ th[t].alarm \in Int
    BY TimesAreIntegers DEF TypeOK, Local
<1>3. [Fresh("sleep") EXCEPT !.call = "timer",
          !.alarm = IF th[t].call = "timer" THEN th[t].alarm
                                            ELSE now + Interval] \in Local
    BY <1>1, <1>2 DEF Local, Calls
<1> QED
    BY <1>1, <1>3 DEF After, Fresh

\* A write, done, lost, retried or given up, is well typed.
LEMMA WriteType ==
    ASSUME TypeOK, NEW t \in Threads, NEW after \in Rows, NEW then \in Local,
           Write(t, after, then)
    PROVE  /\ row' \in Rows
           /\ th' \in [Threads -> Local]
           /\ faults' \subseteq Faults
<1>1. th[t] \in Local
    BY DEF TypeOK
<1>2. ~LastTry(t) => Retried(t) \in Local
    BY <1>1 DEF LastTry, Retried, Local, MaxAttempts
<1>3. CASE row' = after /\ th' = [th EXCEPT ![t] = then] /\ UNCHANGED faults
    BY <1>3 DEF TypeOK
<1>4. ASSUME NEW lost \in {FALSE, Remote},
             row' = (IF lost THEN after ELSE row),
             th' = [th EXCEPT ![t] = IF LastTry(t) THEN then ELSE Retried(t)],
             Blame((IF lost THEN {"lost"} ELSE {}) \cup
                   (IF LastTry(t) THEN {"unwritten"} ELSE {}))
      PROVE  /\ row' \in Rows
             /\ th' \in [Threads -> Local]
             /\ faults' \subseteq Faults
  <2>1. row' \in Rows
      BY <1>4 DEF TypeOK
  <2>2. th' \in [Threads -> Local]
    <3>1. CASE LastTry(t)
        BY <1>4, <3>1 DEF TypeOK
    <3>2. CASE ~LastTry(t)
        BY <1>2, <1>4, <3>2 DEF TypeOK
    <3> QED
        BY <3>1, <3>2
  <2>3. faults' \subseteq Faults
      BY <1>4 DEF Blame, TypeOK, Faults
  <2> QED
      BY <2>1, <2>2, <2>3
<1>5. CASE th' = [th EXCEPT ![t] = then] /\ Blame({"unwritten"})
           /\ UNCHANGED row
    BY <1>5 DEF Blame, TypeOK, Faults
<1> QED
    BY <1>3, <1>4, <1>5 DEF Write

\* Every step of a goroutine keeps every type.
LEMMA ProceedType ==
    ASSUME TypeOK, NEW t \in Threads, Proceed(t)
    PROVE  TypeOK'
<1> USE TimesAreIntegers
<1>0. th[t] \in Local
    BY DEF TypeOK
<1>1. After(t) \in Local
    BY AfterType
<1>2. \A s \in Steps : [th EXCEPT ![t].step = s] \in [Threads -> Local]
    BY DEF TypeOK, Local
<1>3. \A S \in SUBSET Faults : Blame(S) => faults' \subseteq Faults
    BY DEF Blame, TypeOK
<1>4. Overlap(t) \subseteq Faults
    BY DEF Overlap, Faults
<1>5. \A s \in Steps : Fresh(s) \in Local
    BY FreshType
<1>6. CASE EnsureScheduledEventExists(t)
  <2>1. Ensured \in Rows
      BY DEF Ensured, TypeOK, Rows, NeverFired, NoLock
  <2> DEFINE then == IF Webhook(t) THEN Fresh("idle")
                     ELSE [Fresh("look") EXCEPT !.call = "missed", !.asOf = now]
  <2>2. then \in Local
      BY <1>5 DEF Local, Steps, Calls, TypeOK
  <2>3. Write(t, Ensured, then)
      BY <1>6 DEF EnsureScheduledEventExists
  <2> HIDE DEF then
  <2> QED
      BY <1>6, <2>1, <2>2, <2>3, WriteType
      DEF EnsureScheduledEventExists, TypeOK
<1>7. CASE TriggerScheduledEvents(t)
  <2>1. [Fresh("look") EXCEPT !.call = "missed", !.asOf = now] \in Local
      BY <1>5 DEF Local, Steps, Calls, TypeOK
  <2> QED
      BY <1>7, <1>3, <1>4, <2>1 DEF TriggerScheduledEvents, TypeOK
<1>8. CASE Look(t)
  <2>1. TodayOccurrence(th[t].asOf) \in Int
      BY <1>0, OccurrenceType DEF Local
  <2>2. [th EXCEPT ![t].step = "seed", ![t].at = TodayOccurrence(th[t].asOf)]
          \in [Threads -> Local]
      BY <2>1, <1>0 DEF TypeOK, Local, Steps
  <2>3. th' \in [Threads -> Local]
      BY <1>8, <1>1, <1>2, <2>2 DEF Look, Return, Move, Steps, TypeOK
  <2>4. faults' \subseteq Faults
      BY <1>8, <1>3, <1>4 DEF Look, Faults, TypeOK
  <2> QED
      BY <1>8, <2>3, <2>4 DEF Look, TypeOK
<1>9. CASE ArmDaily(t)
  <2>1. [Fresh("sleep") EXCEPT !.call = "timer", !.alarm = NextOccurrence(now)]
          \in Local
      BY <1>5, OccurrenceType DEF Local, Steps, Calls, TypeOK
  <2> QED
      BY <1>9, <2>1 DEF ArmDaily, TypeOK
<1>10. CASE ArmInterval(t)
  <2>1. now + Interval \in Int /\ row.fired + Interval \in Int /\ now \in Int
      BY DEF TypeOK, Rows
  <2>2. /\ [Fresh("sleep") EXCEPT !.call = "timer", !.alarm = now + Interval]
               \in Local
        /\ [Fresh("seed") EXCEPT !.call = "first", !.at = now] \in Local
        /\ [Fresh("enter") EXCEPT !.call = "first"] \in Local
        /\ [Fresh("sleep") EXCEPT !.call = "first",
               !.alarm = row.fired + Interval] \in Local
      BY <2>1, <1>5 DEF Local, Steps, Calls
  <2>3. th' \in [Threads -> Local]
      BY <1>10, <2>2 DEF ArmInterval, TypeOK
  <2>4. faults' \subseteq Faults
      BY <1>10, <1>3, <1>4 DEF ArmInterval, Faults, TypeOK
  <2> QED
      BY <1>10, <2>3, <2>4 DEF ArmInterval, TypeOK
<1>11. CASE RecordSeed(t) \/ RecordEventFired(t)
  <2>1. Upserted(th[t].at) \in Rows
      BY <1>0 DEF Upserted, Rows, NoLock, Local
  <2> QED
      BY <1>1, <1>11, <2>1, WriteType DEF RecordSeed, RecordEventFired, TypeOK
<1>12. CASE Wake(t)
  <2>1. NextTick(th[t].alarm) \in Int
    <3>1. now - th[t].alarm \in Int
        BY <1>0 DEF TypeOK, Local
    <3>2. (now - th[t].alarm) \div Interval \in Int
        BY <3>1
    <3> QED
        BY <1>0, <3>2 DEF NextTick, Local
  <2>2. [th EXCEPT ![t].step = "enter", ![t].alarm = NextTick(@)]
          \in [Threads -> Local]
      BY <2>1, <1>0 DEF TypeOK, Local, Steps
  <2>3. th' \in [Threads -> Local]
      BY <1>12, <1>2, <2>2 DEF Wake, Move, Steps
  <2>4. faults' \subseteq Faults
      BY <1>12, <1>3, <1>4 DEF Wake, TypeOK
  <2> QED
      BY <1>12, <2>3, <2>4 DEF Wake, TypeOK
<1>13. CASE Due(t)
  <2>1. th' \in [Threads -> Local]
      BY <1>13, <1>1, <1>2 DEF Due, Move, Return, Steps, TypeOK
  <2>2. faults' \subseteq Faults
      BY <1>13, <1>3, <1>4 DEF Due, Faults, TypeOK
  <2> QED
      BY <1>13, <2>1, <2>2 DEF Due, TypeOK
<1>14. CASE Enter(t)
  <2>1. th' \in [Threads -> Local]
      BY <1>14, <1>0 DEF Enter, TypeOK, Local, Steps
  <2> QED
      BY <1>14, <2>1 DEF Enter, TypeOK
<1>15. Claimed(th[t].stamp) \in Rows
    BY <1>0 DEF Claimed, TypeOK, Rows, Local
<1>16. CASE Claim(t)
  <2>0. 0 \in 0 .. MaxAttempts - 1 /\ "run" \in Steps
      BY DEF Steps, MaxAttempts
  <2>1. [th EXCEPT ![t].step = "run", ![t].tries = 0] \in [Threads -> Local]
      BY <1>0, <2>0 DEF TypeOK, Local
  <2>2. th' \in [Threads -> Local]
      BY <1>16, <1>1, <2>1 DEF Claim, Return, TypeOK
  <2>3. faults' \subseteq Faults
      BY <1>16, <1>3 DEF Claim, Faults, TypeOK
  <2> QED
      BY <1>16, <1>15, <2>2, <2>3 DEF Claim, TypeOK
<1>17. CASE ClaimFails(t)
  <2>1. ~LastTry(t) => [th EXCEPT ![t].tries = @ + 1] \in [Threads -> Local]
      BY <1>0 DEF LastTry, TypeOK, Local, MaxAttempts
  <2>2. th' \in [Threads -> Local]
      BY <1>17, <1>1, <2>1 DEF ClaimFails, Return, TypeOK
  <2>3. faults' \subseteq Faults /\ row' \in Rows
      BY <1>17, <1>3, <1>15 DEF ClaimFails, Faults, TypeOK
  <2> QED
      BY <1>17, <2>2, <2>3 DEF ClaimFails, TypeOK
<1>18. CASE RunDone(t)
  <2>0. now \in Int
      BY DEF TypeOK
  <2>1. th' \in [Threads -> Local]
      BY <1>18, <1>0, <2>0 DEF RunDone, TypeOK, Local, Steps
  <2>2. Occurrence(t) \in Int
      BY <1>0, OccurrenceType DEF Occurrence, Local
  <2>3. done' \subseteq Int /\ again' \subseteq done'
      BY <1>18, <2>2 DEF RunDone, Ended, TypeOK
  <2> QED
      BY <1>18, <2>1, <2>3 DEF RunDone, TypeOK
<1>19. CASE RunPanics(t)
    BY <1>19, <1>2 DEF RunPanics, Move, TypeOK, Steps
<1>20. CASE ReleaseScheduledEvent(t)
  <2>1. Released \in Rows
      BY DEF Released, TypeOK, Rows, NoLock
  <2> QED
      BY <1>1, <1>20, <2>1, WriteType DEF ReleaseScheduledEvent, TypeOK
<1> QED
    BY <1>6, <1>7, <1>8, <1>9, <1>10, <1>11, <1>12, <1>13, <1>14, <1>16, <1>17,
       <1>18, <1>19, <1>20 DEF Proceed

-----------------------------------------------------------------------------
(* The lease                                                               *)

Rest == Clocked /\ Leased /\ FiredPast /\ LockAccounted

Stamped == {"claim", "run", "record", "release"}

Holding == {"run", "record", "release"}

\* Once a fault excuses everything, only the clock and the row's shape matter.
LEMMA Excused ==
    ASSUME ~Sound', Clocked', (~HasRow => row = NoRow)'
    PROVE  Rest'
BY DEF Rest, Sound, Leased, FiredPast, LockAccounted

\* A goroutine without a lease that moves without one, the row untouched.
LEMMA MovesUnheld ==
    ASSUME TypeOK, Rest, NEW t \in Threads, NEW l,
           th' = [th EXCEPT ![t] = l],
           row' = row, now' = now, faults \subseteq faults',
           ~Holder(t), l.step \notin Holding \cup {"seed"},
           l.step = "claim" => 0 < l.stamp /\ l.stamp <= now
    PROVE  Rest'
<1>1. th'[t] = l /\ \A u \in Threads \ {t} : th'[u] = th[u]
    BY DEF TypeOK
<1>2. ~Holder(t)' /\ ~At(t, "seed")' /\ ~At(t, "record")'
    BY <1>1 DEF Holder, At, Holding
<1>3. \A u \in Threads \ {t} : /\ Holder(u)' <=> Holder(u)
                               /\ At(u, "seed")' <=> At(u, "seed")
                               /\ At(u, "record")' <=> At(u, "record")
                               /\ Late(u, now)' <=> Late(u, now)
    BY <1>1 DEF Holder, At, Late
<1>4. Sound' => Sound
    BY DEF Sound
<1>5. Clocked'
    BY <1>1 DEF Rest, Clocked, Holding
<1>6. Leased'
    BY <1>1, <1>2, <1>3, <1>4 DEF Rest, Leased, ExclusiveRun, Sound, HasRow
<1>7. FiredPast'
    BY <1>1, <1>2, <1>3, <1>4 DEF Rest, FiredPast, HasRow
<1>8. LockAccounted'
    BY <1>1, <1>2, <1>3 DEF Rest, LockAccounted
<1> QED
    BY <1>5, <1>6, <1>7, <1>8 DEF Rest

\* A goroutine with the lease that keeps it, the row untouched.
LEMMA MovesHolding ==
    ASSUME TypeOK, Rest, NEW t \in Threads, NEW l,
           th' = [th EXCEPT ![t] = l],
           row' = row, now' = now, faults \subseteq faults',
           Holder(t), l.step \in Holding, l.stamp = th[t].stamp,
           l.step = "record" => \/ l.at = now
                                \/ At(t, "record") /\ l.at = th[t].at
    PROVE  Rest'
<1>1. th'[t] = l /\ \A u \in Threads \ {t} : th'[u] = th[u]
    BY DEF TypeOK
<1>2. Holder(t)' /\ ~At(t, "seed")'
    BY <1>1 DEF Holder, At, Holding
<1>3. \A u \in Threads : /\ Holder(u)' <=> Holder(u)
                         /\ th'[u].stamp = th[u].stamp
                         /\ Late(u, now)' <=> Late(u, now)
    BY <1>1, <1>2 DEF Holder, Late
<1>4. \A u \in Threads \ {t} : /\ At(u, "seed")' <=> At(u, "seed")
                               /\ At(u, "record")' <=> At(u, "record")
    BY <1>1 DEF At
<1>5. Sound' => Sound
    BY DEF Sound
<1>6. Clocked'
    BY <1>1 DEF Rest, Clocked, Holder, Holding
<1>7. Leased'
    BY <1>2, <1>3, <1>4, <1>5 DEF Rest, Leased, ExclusiveRun, Sound, HasRow
<1>8. FiredPast'
  <2>1. now \in Nat
      BY DEF TypeOK
  <2>2. At(t, "record")' => \/ th'[t].at = now
                            \/ At(t, "record") /\ th'[t].at = th[t].at
      BY <1>1 DEF At
  <2> QED
      BY <1>1, <1>4, <1>5, <2>1, <2>2 DEF Rest, FiredPast, HasRow
<1>9. LockAccounted'
    BY <1>3 DEF Rest, LockAccounted
<1> QED
    BY <1>6, <1>7, <1>8, <1>9 DEF Rest

\* A goroutine gives its lease up: it clears the row, or it could not.
LEMMA GivesUp ==
    ASSUME TypeOK, Rest, NEW t \in Threads, NEW l,
           th' = [th EXCEPT ![t] = l], now' = now, faults \subseteq faults',
           Holder(t), l.step \notin Stamped \cup {"seed"},
           \/ row' = row /\ "unwritten" \in faults'
           \/ /\ row'.present /\ row'.started = NoLock
              /\ \/ row'.fired = row.fired
                 \/ At(t, "record") /\ row'.fired = th[t].at
           \/ row = NoRow /\ row' = NoRow
    PROVE  Rest'
<1>1. th'[t] = l /\ \A u \in Threads \ {t} : th'[u] = th[u]
    BY DEF TypeOK
<1>2. ~Holder(t)' /\ ~At(t, "seed")' /\ ~At(t, "record")'
    BY <1>1 DEF Holder, At, Stamped
<1>3. \A u \in Threads \ {t} : /\ Holder(u)' <=> Holder(u)
                               /\ At(u, "seed")' <=> At(u, "seed")
                               /\ At(u, "record")' <=> At(u, "record")
    BY <1>1 DEF Holder, At
<1>4. Sound' => Sound
    BY DEF Sound
<1>5. Sound' => \A u \in Threads : ~Holder(u)'
    BY <1>2, <1>3, <1>4 DEF Rest, Leased, ExclusiveRun, Sound, HasRow
<1>6. Sound' => \A u \in Threads : ~At(u, "record")'
    BY <1>5 DEF Holder, At
<1>7. Clocked'
    BY <1>1 DEF Rest, Clocked, Stamped
<1>8. Leased'
    BY <1>2, <1>3, <1>4, <1>5 DEF Rest, Leased, ExclusiveRun, Sound, HasRow
<1>9. FiredPast'
  <2>1. (~HasRow => row = NoRow)'
      BY DEF Rest, FiredPast, HasRow, NoRow
  <2>2. Sound' => row'.fired <= now
      BY <1>4 DEF Rest, FiredPast, NoRow
  <2> QED
      BY <1>6, <2>1, <2>2 DEF FiredPast, HasRow
<1>10. LockAccounted'
    BY DEF LockAccounted, NoRow
<1> QED
    BY <1>7, <1>8, <1>9, <1>10 DEF Rest

\* A step that does not take or keep the lease keeps every stamp in the past.
LEMMA KeepsClocked ==
    ASSUME TypeOK, Clocked, NEW t \in Threads, NEW l,
           th' = [th EXCEPT ![t] = l], now' = now,
           l.step \in Stamped => 0 < l.stamp /\ l.stamp <= now
    PROVE  Clocked'
<1>1. th'[t] = l /\ \A u \in Threads \ {t} : th'[u] = th[u]
    BY DEF TypeOK
<1> QED
    BY <1>1 DEF Clocked, Stamped

\* A lease that can be claimed has no live holder.
LEMMA FreeWhenClaimable ==
    ASSUME TypeOK, Rest, Sound, NEW t \in Threads, At(t, "claim"),
           Claimable(th[t].stamp), NEW u \in Threads
    PROVE  ~Holder(u)
<1> SUFFICES ASSUME Holder(u) PROVE FALSE
    OBVIOUS
<1>0. /\ th[t] \in Local /\ now \in Nat /\ Timeout \in Nat
      /\ th[t].stamp <= now
    BY TimesAreIntegers DEF TypeOK, Rest, Clocked, At
<1>1. row.started = th[u].stamp /\ ~(th[u].stamp + Timeout < now)
    BY DEF Rest, Leased, Late
<1>2. 0 < th[u].stamp /\ th[u].stamp \in Nat
    BY DEF Rest, Clocked, Holder, TypeOK, Local
<1>3. row.started + Timeout < th[t].stamp
    BY <1>1, <1>2 DEF Claimable, NoLock
<1> QED
    BY <1>0, <1>1, <1>2, <1>3 DEF Local

\* The claim of a lease that is free or stale: in the latter case the run that
\* holds it has outlived it, so as long as none has, nobody runs.
LEMMA TakesLease ==
    ASSUME TypeOK, Rest, NEW t \in Threads, Claim(t), Claimable(th[t].stamp)
    PROVE  Rest'
<1> DEFINE l == [th[t] EXCEPT !.step = "run", !.tries = 0]
<1>0. th[t] \in Local /\ now \in Nat /\ Timeout \in Nat
    BY TimesAreIntegers DEF TypeOK
<1>1. /\ th' = [th EXCEPT ![t] = l]
      /\ l.step = "run" /\ l.stamp = th[t].stamp
    BY <1>0 DEF Claim, TypeOK, Local
<1> HIDE DEF l
<1>2. th'[t] = l /\ \A u \in Threads \ {t} : th'[u] = th[u]
    BY <1>1 DEF TypeOK
<1>3. /\ th[t].step = "claim" /\ now' = now /\ HasRow
      /\ row' = [row EXCEPT !.started = th[t].stamp]
      /\ faults \subseteq faults'
    BY DEF Claim, Claimed, Claimable, At, Blame
<1>4. /\ row'.present /\ row'.started = th[t].stamp /\ row'.fired = row.fired
    BY <1>3 DEF TypeOK, Rows, HasRow
<1>5. 0 < th[t].stamp /\ th[t].stamp <= now
    BY <1>3 DEF Rest, Clocked
<1>6. Sound' => Sound /\ ~(th[t].stamp + Timeout < now)
    BY <1>3 DEF Sound, Claim, Blame
<1>7. ASSUME Sound, NEW u \in Threads, Holder(u)
      PROVE  FALSE
    BY <1>3, <1>7, FreeWhenClaimable DEF At
<1>8. /\ Holder(t)' /\ ~At(t, "seed")' /\ ~At(t, "record")'
    BY <1>1, <1>2 DEF Holder, At
<1>9. \A u \in Threads \ {t} : /\ Holder(u)' <=> Holder(u)
                               /\ At(u, "seed")' <=> At(u, "seed")
                               /\ At(u, "record")' => Holder(u)
    BY <1>2 DEF Holder, At
<1>10. Clocked'
    BY <1>1, <1>3, <1>5, KeepsClocked DEF Rest
<1>11. Leased'
  <2>1. Sound' => \A u \in Threads : Holder(u)' => u = t
      BY <1>6, <1>7, <1>9
  <2>2. Sound' => ~Late(t, now)'
      BY <1>1, <1>2, <1>3, <1>6 DEF Late
  <2>3. Sound' => \A u \in Threads : ~At(u, "seed")'
      BY <1>6, <1>8, <1>9 DEF Rest, Leased
  <2> QED
      BY <1>1, <1>2, <1>4, <2>1, <2>2, <2>3 DEF Leased, ExclusiveRun, HasRow
<1>12. FiredPast'
  <2>1. Sound' => \A u \in Threads : ~At(u, "record")'
      BY <1>6, <1>7, <1>8, <1>9
  <2> QED
      BY <1>3, <1>4, <1>6, <2>1 DEF Rest, FiredPast, HasRow
<1>13. LockAccounted'
    BY <1>1, <1>2, <1>4, <1>8 DEF LockAccounted
<1> QED
    BY <1>10, <1>11, <1>12, <1>13 DEF Rest

\* The end of a run writes the row and gives the lease up, however often it
\* has to try and whether or not it succeeds.
LEMMA HolderWrites ==
    ASSUME TypeOK, Rest, NEW t \in Threads, NEW after,
           Write(t, after, After(t)), now' = now,
           \/ At(t, "record") /\ after = Upserted(th[t].at)
           \/ At(t, "release") /\ after = Released
    PROVE  Rest'
<1>0. th[t] \in Local /\ After(t).step \in {"idle", "arm", "sleep"}
    BY AfterType DEF TypeOK
<1>1. Holder(t) /\ After(t).step \notin Stamped \cup {"seed"}
    BY <1>0 DEF Holder, At, Stamped
<1>2. /\ Retried(t).step = th[t].step /\ Retried(t).stamp = th[t].stamp
      /\ Retried(t).at = th[t].at
    BY <1>0 DEF Retried, Local
<1>3. 0 < th[t].stamp /\ th[t].stamp <= now
    BY <1>1 DEF Rest, Clocked, Holder
<1>4. CASE row' = after /\ th' = [th EXCEPT ![t] = After(t)]
           /\ UNCHANGED faults
  <2>1. \/ /\ row'.present /\ row'.started = NoLock
           /\ \/ row'.fired = row.fired
              \/ At(t, "record") /\ row'.fired = th[t].at
        \/ row = NoRow /\ row' = NoRow
    <3>1. CASE At(t, "record") /\ after = Upserted(th[t].at)
        BY <1>4, <3>1 DEF Upserted
    <3>2. CASE At(t, "release") /\ after = Released
      <4>1. row' = [row EXCEPT !.started = NoLock] /\ row \in Rows
          BY <1>4, <3>2 DEF Released, TypeOK
      <4>2. CASE HasRow
          BY <4>1, <4>2 DEF HasRow, Rows
      <4>3. CASE ~HasRow
        <5>1. row = NoRow
            BY <4>3 DEF Rest, FiredPast
        <5> QED
            BY <4>1, <5>1 DEF NoRow
      <4> QED
          BY <4>2, <4>3
    <3> QED
        BY <3>1, <3>2
  <2> QED
      BY <1>1, <1>4, <2>1, GivesUp
<1>5. ASSUME NEW lost \in {FALSE, Remote},
             row' = (IF lost THEN after ELSE row),
             th' = [th EXCEPT ![t] =
                       IF LastTry(t) THEN After(t) ELSE Retried(t)],
             Blame((IF lost THEN {"lost"} ELSE {}) \cup
                   (IF LastTry(t) THEN {"unwritten"} ELSE {}))
      PROVE  Rest'
  <2>1. faults \subseteq faults'
      BY <1>5 DEF Blame
  <2>2. CASE lost
    <3>1. ~Sound'
        BY <1>5, <2>2 DEF Blame, Sound
    <3>2. Clocked'
      <4>1. CASE LastTry(t)
          BY <1>1, <1>5, <4>1, KeepsClocked DEF Rest
      <4>2. CASE ~LastTry(t)
          BY <1>2, <1>3, <1>5, <4>2, KeepsClocked DEF Rest
      <4> QED
          BY <4>1, <4>2
    <3>3. (~HasRow => row = NoRow)'
        BY <1>5, <2>2
        DEF Upserted, Released, HasRow, Rest, FiredPast, NoRow, TypeOK, Rows
    <3> QED
        BY <3>1, <3>2, <3>3, Excused
  <2>3. CASE ~lost /\ LastTry(t)
    <3>1. row' = row /\ "unwritten" \in faults'
        BY <1>5, <2>3 DEF Blame
    <3> QED
        BY <1>1, <1>5, <2>1, <2>3, <3>1, GivesUp
  <2>4. CASE ~lost /\ ~LastTry(t)
    <3>1. row' = row /\ th' = [th EXCEPT ![t] = Retried(t)]
        BY <1>5, <2>4
    <3>2. /\ Retried(t).step \in Holding
          /\ Retried(t).step = "record" => At(t, "record")
        BY <1>1, <1>2 DEF Holder, Holding, At
    <3> QED
        BY <1>1, <1>2, <2>1, <3>1, <3>2, MovesHolding
  <2> QED
      BY <2>2, <2>3, <2>4
<1>6. CASE th' = [th EXCEPT ![t] = After(t)] /\ Blame({"unwritten"})
           /\ UNCHANGED row
  <2>1. faults \subseteq faults' /\ "unwritten" \in faults'
      BY <1>6 DEF Blame
  <2> QED
      BY <1>1, <1>6, <2>1, GivesUp
<1> QED
    BY <1>4, <1>5, <1>6 DEF Write

\* The row that a starting process inserts is added only where there is none,
\* and nobody runs then.
LEMMA EnsureKeeps ==
    ASSUME TypeOK, Rest, NEW t \in Threads, EnsureScheduledEventExists(t)
    PROVE  Rest'
<1> DEFINE then == IF Webhook(t) THEN Fresh("idle")
                   ELSE [Fresh("look") EXCEPT !.call = "missed", !.asOf = now]
<1>0. th[t] \in Local /\ then.step \in {"idle", "look"}
    BY DEF TypeOK, Fresh
<1>1. Write(t, Ensured, then) /\ now' = now
    BY DEF EnsureScheduledEventExists
<1> HIDE DEF then
<1>2. ~Holder(t) /\ th[t].step = "off"
    BY DEF EnsureScheduledEventExists, At, Holder
<1>3. /\ Retried(t).step = "off"
      /\ then.step \notin Stamped \cup {"seed"}
    BY <1>0, <1>2 DEF Retried, Local, Stamped
<1>4. CASE row' = Ensured /\ th' = [th EXCEPT ![t] = then] /\ UNCHANGED faults
  <2>1. CASE HasRow
    <3>1. row' = row
        BY <1>4, <2>1 DEF Ensured
    <3> QED
        BY <1>1, <1>2, <1>3, <1>4, <3>1, MovesUnheld DEF Holding, Stamped
  <2>2. CASE ~HasRow
    <3>1. row' = [present |-> TRUE, fired |-> NeverFired, started |-> NoLock]
        BY <1>4, <2>2 DEF Ensured
    <3>2. th'[t] = then /\ \A u \in Threads \ {t} : th'[u] = th[u]
        BY <1>4 DEF TypeOK
    <3>3. Sound' => \A u \in Threads : ~Holder(u)' /\ ~At(u, "seed")'
      <4>1. Sound' => Sound
          BY <1>4 DEF Sound
      <4>2. Sound => \A u \in Threads : ~Holder(u) /\ ~At(u, "seed")
          BY <2>2 DEF Rest, Leased
      <4>3. ~Holder(t)' /\ ~At(t, "seed")'
          BY <1>3, <3>2 DEF Holder, At, Stamped
      <4>4. \A u \in Threads \ {t} : /\ Holder(u)' <=> Holder(u)
                                     /\ At(u, "seed")' <=> At(u, "seed")
          BY <3>2 DEF Holder, At
      <4> QED
          BY <4>1, <4>2, <4>3, <4>4
    <3>4. Clocked'
        BY <1>1, <1>3, <1>4, KeepsClocked DEF Rest
    <3>5. Leased'
        BY <3>3 DEF Leased, ExclusiveRun, Sound
    <3>6. FiredPast'
      <4>1. Sound' => \A u \in Threads : ~At(u, "record")'
          BY <3>3 DEF Holder, At
      <4>2. row'.fired = 0 /\ row'.present
          BY <3>1 DEF NeverFired
      <4>3. now' \in Nat
          BY <1>1 DEF TypeOK
      <4> QED
          BY <4>1, <4>2, <4>3 DEF FiredPast, HasRow
    <3>7. LockAccounted'
        BY <3>1 DEF LockAccounted
    <3> QED
        BY <3>4, <3>5, <3>6, <3>7 DEF Rest
  <2> QED
      BY <2>1, <2>2
<1>5. ASSUME NEW lost \in {FALSE, Remote},
             row' = (IF lost THEN Ensured ELSE row),
             th' = [th EXCEPT ![t] = IF LastTry(t) THEN then ELSE Retried(t)],
             Blame((IF lost THEN {"lost"} ELSE {}) \cup
                   (IF LastTry(t) THEN {"unwritten"} ELSE {}))
      PROVE  Rest'
  <2> DEFINE l == IF LastTry(t) THEN then ELSE Retried(t)
  <2>1. th' = [th EXCEPT ![t] = l] /\ l.step \notin Stamped \cup {"seed"}
      BY <1>3, <1>5 DEF Stamped
  <2> HIDE DEF l
  <2>2. CASE lost
    <3>1. ~Sound'
        BY <1>5, <2>2 DEF Blame, Sound
    <3>2. Clocked'
        BY <1>1, <2>1, KeepsClocked DEF Rest
    <3>3. (~HasRow => row = NoRow)'
        BY <1>5, <2>2 DEF Ensured, HasRow
    <3> QED
        BY <3>1, <3>2, <3>3, Excused
  <2>3. CASE ~lost
    <3>1. row' = row /\ faults \subseteq faults'
        BY <1>5, <2>3 DEF Blame
    <3> QED
        BY <1>1, <1>2, <2>1, <3>1, MovesUnheld DEF Holding, Stamped
  <2> QED
      BY <2>2, <2>3
<1>6. CASE th' = [th EXCEPT ![t] = then] /\ Blame({"unwritten"})
           /\ UNCHANGED row
  <2>1. faults \subseteq faults'
      BY <1>6 DEF Blame
  <2> QED
      BY <1>1, <1>2, <1>3, <1>6, <2>1, MovesUnheld DEF Holding, Stamped
<1> QED
    BY <1>1, <1>4, <1>5, <1>6 DEF Write

-----------------------------------------------------------------------------
(* Invariance                                                              *)

\* Every step of a goroutine keeps the lease.
LEMMA ProceedRest ==
    ASSUME TypeOK, Rest, NEW t \in Threads, Proceed(t)
    PROVE  Rest'
<1>0. /\ th[t] \in Local /\ now \in Nat /\ now > 0
      /\ After(t).step \in {"idle", "arm", "sleep"}
    BY AfterType DEF TypeOK, Rest, Clocked
<1>1. \A s : [th EXCEPT ![t].step = s] = [th EXCEPT ![t] =
                                            [th[t] EXCEPT !.step = s]]
    OBVIOUS
<1>2. \A S : Blame(S) => faults \subseteq faults'
    BY DEF Blame
<1>3. ASSUME NEW l, th' = [th EXCEPT ![t] = l], ~Holder(t),
             l.step \notin Stamped \cup {"seed"},
             row' = row, now' = now, faults \subseteq faults'
      PROVE  Rest'
    BY <1>3, MovesUnheld DEF Stamped, Holding
<1>4. ASSUME NEW s \in {"due", "enter"}, Move(t, s), ~Holder(t),
             row' = row, now' = now, faults \subseteq faults'
      PROVE  Rest'
  <2>1. [th[t] EXCEPT !.step = s].step = s
      BY <1>0 DEF Local
  <2> QED
      BY <1>1, <1>3, <1>4, <2>1 DEF Move, Stamped
<1>5. ASSUME Return(t), ~Holder(t), row' = row, now' = now,
             faults \subseteq faults'
      PROVE  Rest'
    BY <1>0, <1>3, <1>5 DEF Return, Stamped
\* A row that is missing while somebody looks for it has been pruned.
<1>6. ASSUME NEW l, th' = [th EXCEPT ![t] = l], l.step = "seed",
             row' = row, now' = now, Blame({"norow"})
      PROVE  Rest'
  <2>1. ~Sound'
      BY <1>6 DEF Blame, Sound
  <2>2. Clocked'
      BY <1>6, KeepsClocked DEF Rest, Stamped
  <2>3. (~HasRow => row = NoRow)'
      BY <1>6 DEF Rest, FiredPast, HasRow
  <2> QED
      BY <2>1, <2>2, <2>3, Excused
<1>7. CASE EnsureScheduledEventExists(t)
    BY <1>7, EnsureKeeps
<1>8. CASE TriggerScheduledEvents(t)
  <2>1. [Fresh("look") EXCEPT !.call = "missed", !.asOf = now].step = "look"
      BY DEF Fresh
  <2>2. ~Holder(t)
      BY <1>8 DEF TriggerScheduledEvents, At, Holder
  <2> QED
      BY <1>2, <1>3, <1>8, <2>1, <2>2 DEF TriggerScheduledEvents, Stamped
<1>9. CASE Look(t)
  <2>1. ~Holder(t) /\ row' = row /\ now' = now
      BY <1>9 DEF Look, At, Holder
  <2>2. CASE Return(t) /\ UNCHANGED faults
      BY <1>5, <2>1, <2>2
  <2>3. CASE Move(t, "enter") /\ Blame(Overlap(t))
      BY <1>2, <1>4, <2>1, <2>3
  <2>4. ASSUME th' = [th EXCEPT ![t].step = "seed",
                          ![t].at = TodayOccurrence(th[t].asOf)],
               Blame({"norow"})
        PROVE  Rest'
    <3> DEFINE l == [th[t] EXCEPT !.step = "seed",
                                  !.at = TodayOccurrence(th[t].asOf)]
    <3>1. th' = [th EXCEPT ![t] = l] /\ l.step = "seed"
        BY <1>0, <2>4 DEF TypeOK, Local
    <3> HIDE DEF l
    <3> QED
        BY <1>6, <2>1, <2>4, <3>1
  <2> QED
      BY <1>9, <2>2, <2>3, <2>4 DEF Look
<1>10. CASE ArmDaily(t)
  <2>1. [Fresh("sleep") EXCEPT !.call = "timer",
            !.alarm = NextOccurrence(now)].step = "sleep"
      BY DEF Fresh
  <2>2. ~Holder(t)
      BY <1>10 DEF ArmDaily, At, Holder
  <2> QED
      BY <1>3, <1>10, <2>1, <2>2 DEF ArmDaily, Stamped
<1>11. CASE ArmInterval(t)
  <2>1. ~Holder(t) /\ row' = row /\ now' = now
      BY <1>11 DEF ArmInterval, At, Holder
  <2>2. ASSUME th' = [th EXCEPT ![t] = [Fresh("sleep") EXCEPT !.call = "timer",
                                            !.alarm = now + Interval]],
               UNCHANGED faults
        PROVE  Rest'
    <3>1. [Fresh("sleep") EXCEPT !.call = "timer",
              !.alarm = now + Interval].step = "sleep"
        BY DEF Fresh
    <3> QED
        BY <1>3, <2>1, <2>2, <3>1 DEF Stamped
  <2>3. ASSUME th' = [th EXCEPT ![t] = [Fresh("seed") EXCEPT !.call = "first",
                                                             !.at = now]],
               Blame({"norow"})
        PROVE  Rest'
    <3>1. [Fresh("seed") EXCEPT !.call = "first", !.at = now].step = "seed"
        BY DEF Fresh
    <3> QED
        BY <1>6, <2>1, <2>3, <3>1
  <2>4. ASSUME th' = [th EXCEPT ![t] = [Fresh("enter") EXCEPT !.call = "first"]],
               Blame(Overlap(t))
        PROVE  Rest'
    <3>1. [Fresh("enter") EXCEPT !.call = "first"].step = "enter"
        BY DEF Fresh
    <3> QED
        BY <1>2, <1>3, <2>1, <2>4, <3>1 DEF Stamped
  <2>5. ASSUME th' = [th EXCEPT ![t] = [Fresh("sleep") EXCEPT !.call = "first",
                                            !.alarm = row.fired + Interval]],
               UNCHANGED faults
        PROVE  Rest'
    <3>1. [Fresh("sleep") EXCEPT !.call = "first",
              !.alarm = row.fired + Interval].step = "sleep"
        BY DEF Fresh
    <3> QED
        BY <1>3, <2>1, <2>5, <3>1 DEF Stamped
  <2> QED
      BY <1>11, <2>2, <2>3, <2>4, <2>5 DEF ArmInterval
<1>12. CASE RecordSeed(t)
  <2>1. At(t, "seed") /\ Write(t, Upserted(th[t].at), After(t)) /\ now' = now
      BY <1>12 DEF RecordSeed
  <2>2. ~Sound' /\ faults \subseteq faults'
    <3>1. ~Sound
        BY <2>1 DEF Rest, Leased
    <3>2. faults \subseteq faults'
        BY <2>1 DEF Write, Blame
    <3> QED
        BY <3>1, <3>2 DEF Sound
  <2>3. PICK l : /\ th' = [th EXCEPT ![t] = l]
                 /\ l \in {After(t), Retried(t)}
      BY <2>1 DEF Write
  <2>4. l.step \notin Stamped
      BY <1>0, <2>1, <2>3 DEF Retried, At, Stamped, Local
  <2>5. Clocked'
      BY <2>1, <2>3, <2>4, KeepsClocked DEF Rest
  <2>6. row' = row \/ row' = Upserted(th[t].at)
      BY <2>1 DEF Write
  <2>7. (~HasRow => row = NoRow)'
      BY <2>6 DEF Upserted, HasRow, Rest, FiredPast
  <2> QED
      BY <2>2, <2>5, <2>7, Excused
<1>13. CASE Wake(t)
  <2>1. ~Holder(t) /\ row' = row /\ now' = now
      BY <1>13 DEF Wake, At, Holder
  <2>2. CASE Move(t, "due") /\ UNCHANGED faults
      BY <1>4, <2>1, <2>2
  <2>3. ASSUME th' = [th EXCEPT ![t].step = "enter", ![t].alarm = NextTick(@)],
               Blame(Overlap(t))
        PROVE  Rest'
    <3> DEFINE l == [th[t] EXCEPT !.step = "enter", !.alarm = NextTick(@)]
    <3>1. th' = [th EXCEPT ![t] = l] /\ l.step = "enter"
        BY <1>0, <2>3 DEF TypeOK, Local
    <3> HIDE DEF l
    <3> QED
        BY <1>2, <1>3, <2>1, <2>3, <3>1 DEF Stamped
  <2> QED
      BY <1>13, <2>2, <2>3 DEF Wake
<1>14. CASE Due(t)
  <2>1. ~Holder(t) /\ row' = row /\ now' = now /\ faults \subseteq faults'
      BY <1>2, <1>14 DEF Due, At, Holder
  <2> QED
      BY <1>4, <1>5, <1>14, <2>1 DEF Due
<1>15. CASE Enter(t)
  <2> DEFINE l == [th[t] EXCEPT !.step = "claim", !.stamp = now]
  <2>1. th' = [th EXCEPT ![t] = l] /\ l.step = "claim" /\ l.stamp = now
      BY <1>0, <1>15 DEF Enter, TypeOK, Local
  <2> HIDE DEF l
  <2>2. ~Holder(t)
      BY <1>15 DEF Enter, At, Holder
  <2>3. row' = row /\ now' = now /\ faults \subseteq faults'
      BY <1>15 DEF Enter
  <2>4. l.step \notin Holding \cup {"seed"} /\ 0 < l.stamp /\ l.stamp <= now
      BY <1>0, <2>1 DEF Holding
  <2> QED
      BY <2>1, <2>2, <2>3, <2>4, MovesUnheld
<1>16. CASE Claim(t)
  <2>1. CASE Claimable(th[t].stamp)
      BY <1>16, <2>1, TakesLease
  <2>2. CASE ~Claimable(th[t].stamp)
    <3>1. ~Holder(t) /\ row' = row /\ now' = now /\ Return(t) /\ faults' = faults
        BY <1>16, <2>2 DEF Claim, Claimed, At, Holder
    <3> QED
        BY <1>5, <3>1
  <2> QED
      BY <2>1, <2>2
<1>17. CASE ClaimFails(t)
  <2>1. /\ ~Holder(t) /\ now' = now /\ th[t].step = "claim"
        /\ 0 < th[t].stamp /\ th[t].stamp <= now
      BY <1>17 DEF ClaimFails, At, Holder, Rest, Clocked
  <2>2. PICK lost \in {FALSE, Remote}, transient \in BOOLEAN :
            /\ row' = IF lost THEN Claimed(th[t].stamp) ELSE row
            /\ IF transient /\ ~LastTry(t)
               THEN th' = [th EXCEPT ![t].tries = @ + 1]
               ELSE Return(t)
            /\ Blame(IF lost THEN {"lost"} ELSE {})
      BY <1>17 DEF ClaimFails
  <2>3. PICK l : /\ th' = [th EXCEPT ![t] = l]
                 /\ l \in {After(t), [th[t] EXCEPT !.tries = @ + 1]}
      BY <2>2 DEF Return
  <2>4. /\ l.step \notin {"run", "record", "release", "seed"}
        /\ l.step = "claim" => 0 < l.stamp /\ l.stamp <= now
      BY <1>0, <2>1, <2>3 DEF Local
  <2>5. CASE lost
    <3>1. ~Sound'
        BY <2>2, <2>5 DEF Blame, Sound
    <3>2. Clocked'
        BY <2>1, <2>3, <2>4, KeepsClocked DEF Rest, Stamped
    <3>3. (~HasRow => row = NoRow)'
        BY <2>2, <2>5
        DEF Claimed, Claimable, HasRow, Rest, FiredPast, TypeOK, Rows
    <3> QED
        BY <3>1, <3>2, <3>3, Excused
  <2>6. CASE ~lost
    <3>1. row' = row /\ faults \subseteq faults'
        BY <1>2, <2>2, <2>6
    <3> QED
        BY <2>1, <2>3, <2>4, <3>1, MovesUnheld DEF Holding
  <2> QED
      BY <2>5, <2>6
<1>18. CASE RunDone(t)
  <2> DEFINE l == [th[t] EXCEPT !.step = "record", !.at = now]
  <2>1. /\ th' = [th EXCEPT ![t] = l]
        /\ l.step = "record" /\ l.at = now /\ l.stamp = th[t].stamp
      BY <1>0, <1>18 DEF RunDone, TypeOK, Local
  <2> HIDE DEF l
  <2>2. Holder(t)
      BY <1>18 DEF RunDone, At, Holder
  <2> QED
      BY <1>18, <2>1, <2>2, MovesHolding DEF RunDone, Holding
<1>19. CASE RunPanics(t)
  <2> DEFINE l == [th[t] EXCEPT !.step = "release"]
  <2>1. /\ th' = [th EXCEPT ![t] = l]
        /\ l.step = "release" /\ l.stamp = th[t].stamp
      BY <1>0, <1>1, <1>19 DEF RunPanics, Move, Local
  <2> HIDE DEF l
  <2>2. Holder(t)
      BY <1>19 DEF RunPanics, At, Holder
  <2> QED
      BY <1>19, <2>1, <2>2, MovesHolding DEF RunPanics, Holding
<1>20. CASE RecordEventFired(t)
    BY <1>20, HolderWrites DEF RecordEventFired
<1>21. CASE ReleaseScheduledEvent(t)
    BY <1>21, HolderWrites DEF ReleaseScheduledEvent
<1> QED
    BY <1>7, <1>8, <1>9, <1>10, <1>11, <1>12, <1>13, <1>14, <1>15, <1>16,
       <1>17, <1>18, <1>19, <1>20, <1>21 DEF Proceed

\* A process that dies holding the lease leaves a lock behind, and a fault.
LEMMA RestartRest ==
    ASSUME TypeOK, Rest, NEW i \in Instances, Restart(i)
    PROVE  Rest' /\ TypeOK'
<1>1. /\ th' = [t \in Threads |-> IF Home[t] = i THEN Reborn(t) ELSE th[t]]
      /\ row' = row /\ now' = now /\ kind' = kind
      /\ done' = done /\ again' = again
      /\ faults \subseteq faults' /\ faults' \subseteq faults \cup {"crash"}
      /\ (\E t \in Threads : Home[t] = i /\ Holder(t)) => "crash" \in faults'
    BY DEF Restart, Blame
<1>2. \A t \in Threads : Reborn(t) \in Local
                         /\ Reborn(t).step \in {"off", "idle"}
    BY FreshType DEF Reborn, Fresh, Steps
<1>3. \A t \in Threads : th'[t] = IF Home[t] = i THEN Reborn(t) ELSE th[t]
    BY <1>1
<1>4. TypeOK'
    BY <1>1, <1>2 DEF TypeOK, Faults
<1>5. \A t \in Threads : /\ Holder(t)' => Holder(t) /\ th'[t] = th[t]
                         /\ At(t, "seed")' => At(t, "seed")
                         /\ At(t, "record")' => At(t, "record") /\ th'[t] = th[t]
    BY <1>2, <1>3 DEF Holder, At
<1>6. Sound' => Sound
    BY <1>1 DEF Sound
<1>7. Clocked'
    BY <1>1, <1>2, <1>3 DEF Rest, Clocked
<1>8. Leased'
  <2>1. \A t \in Threads : Late(t, now)' => Late(t, now)
      BY <1>1, <1>5 DEF Late
  <2> QED
      BY <1>1, <1>5, <1>6, <2>1 DEF Rest, Leased, ExclusiveRun, Sound, HasRow
<1>9. FiredPast'
    BY <1>1, <1>5, <1>6 DEF Rest, FiredPast, HasRow
<1>10. LockAccounted'
  <2>1. ASSUME "crash" \notin faults', NEW t \in Threads, Holder(t)
        PROVE  Holder(t)' /\ th'[t].stamp = th[t].stamp
      BY <1>1, <1>3, <2>1 DEF Holder
  <2> QED
      BY <1>1, <2>1 DEF Rest, LockAccounted
<1> QED
    BY <1>4, <1>7, <1>8, <1>9, <1>10 DEF Rest

\* The clock ticks: a lease that runs out is a fault.
LEMMA TickRest ==
    ASSUME TypeOK, Rest, Tick
    PROVE  Rest' /\ TypeOK'
<1>1. /\ now' = now + 1 /\ row' = row /\ th' = th /\ kind' = kind
      /\ done' = done /\ again' = again
      /\ faults \subseteq faults' /\ faults' \subseteq faults \cup {"overran"}
      /\ (\E t \in Threads : Late(t, now + 1)) => "overran" \in faults'
    BY DEF Tick, Blame
<1>2. now \in Nat /\ now' \in Nat /\ now < now'
    BY <1>1 DEF TypeOK
<1>3. TypeOK'
    BY <1>1, <1>2 DEF TypeOK, Faults
<1>4. Sound' => Sound
    BY <1>1 DEF Sound
<1>5. Clocked'
  <2>1. \A t \in Threads : th[t].stamp \in Nat
      BY DEF TypeOK, Local
  <2> QED
      BY <1>1, <1>2, <2>1 DEF Rest, Clocked
<1>6. Leased'
  <2>1. \A t \in Threads : Sound' => ~Late(t, now)'
      BY <1>1 DEF Late, Holder, Sound
  <2>2. \A t \in Threads : /\ Holder(t)' <=> Holder(t)
                           /\ At(t, "seed")' <=> At(t, "seed")
      BY <1>1 DEF Holder, At
  <2> QED
      BY <1>1, <1>4, <2>1, <2>2
      DEF Rest, Leased, ExclusiveRun, Sound, HasRow
<1>7. FiredPast'
  <2>1. row.fired \in Int /\ \A t \in Threads : th[t].at \in Int
      BY DEF TypeOK, Rows, Local
  <2> QED
      BY <1>1, <1>2, <1>4, <2>1 DEF Rest, FiredPast, HasRow, At
<1>8. LockAccounted'
    BY <1>1 DEF Rest, LockAccounted, Holder
<1> QED
    BY <1>3, <1>5, <1>6, <1>7, <1>8 DEF Rest

\* An instance of another configuration drops the row.
LEMMA PruneRest ==
    ASSUME TypeOK, Rest, PruneScheduledEvents
    PROVE  Rest' /\ TypeOK'
<1>1. /\ row' = NoRow /\ th' = th /\ now' = now /\ kind' = kind
      /\ done' = done /\ again' = again
      /\ faults' = faults \cup {"norow"}
    BY DEF PruneScheduledEvents, Blame
<1>2. TypeOK'
    BY <1>1 DEF TypeOK, NoRow, Rows, NeverFired, NoLock, Faults
<1>3. ~Sound' /\ Clocked' /\ (~HasRow => row = NoRow)'
    BY <1>1 DEF Sound, Rest, Clocked
<1> QED
    BY <1>2, <1>3, Excused

LEMMA InitSInv == Init => SInv
<1> SUFFICES ASSUME Init PROVE SInv
    OBVIOUS
<1>1. \A t \in Threads : Reborn(t) \in Local
                         /\ Reborn(t).step \in {"off", "idle"}
    BY FreshType DEF Reborn, Fresh, Steps
<1>2. TypeOK
    BY <1>1, TimesAreIntegers
    DEF Init, TypeOK, NoRow, Rows, NeverFired, NoLock, Faults
<1>3. Clocked
    BY <1>1, TimesAreIntegers DEF Init, Clocked
<1>4. Leased
    BY <1>1 DEF Init, Leased, Holder, At, ExclusiveRun
<1>5. FiredPast
    BY <1>1, TimesAreIntegers DEF Init, FiredPast, At, NoRow, NeverFired
<1>6. LockAccounted
    BY DEF Init, LockAccounted, NoRow
<1> QED
    BY <1>2, <1>3, <1>4, <1>5, <1>6 DEF SInv

LEMMA NextSInv == SInv /\ [Next]_vars => SInv'
<1> SUFFICES ASSUME SInv, [Next]_vars PROVE SInv'
    OBVIOUS
<1>1. TypeOK /\ Rest
    BY DEF SInv, Rest
<1>2. ASSUME NEW t \in Threads, Proceed(t)
      PROVE  Rest' /\ TypeOK'
    BY <1>1, <1>2, ProceedRest, ProceedType
<1>3. ASSUME NEW i \in Instances, Restart(i)
      PROVE  Rest' /\ TypeOK'
    BY <1>1, <1>3, RestartRest
<1>4. CASE PruneScheduledEvents
    BY <1>1, <1>4, PruneRest DEF SInv, Rest
<1>5. CASE Tick
    BY <1>1, <1>5, TickRest DEF SInv, Rest
<1>6. CASE UNCHANGED vars
    BY <1>1, <1>6
    DEF SInv, Rest, vars, TypeOK, Clocked, Leased, FiredPast, LockAccounted,
        ExclusiveRun, Sound, HasRow, Holder, At, Late
<1> QED
    BY <1>2, <1>3, <1>4, <1>5, <1>6 DEF Next, SInv, Rest

\* The invariant is an invariant of the specification.
THEOREM Invariance == Spec => []SInv
BY InitSInv, NextSInv, PTL DEF Spec

-----------------------------------------------------------------------------
(* What the lease promises                                                 *)

\* Every reachable value is of its type.
THEOREM TypeCorrect == Spec => []TypeOK
BY Invariance, PTL DEF SInv

\* The claim is a lock: while no run outlives its lease, no reply is lost and
\* the row stays, at most one goroutine of all instances runs the task.
THEOREM LeaseExclusive == Spec => []ExclusiveRun
<1>1. SInv => ExclusiveRun
    BY DEF SInv, Leased, ExclusiveRun, Sound
<1> QED
    BY <1>1, Invariance, PTL

\* A lock in the row belongs to a run that is under way: nobody waits for a
\* run that is over, unless a fault kept the lock from being released.
THEOREM LeaseAccounted == Spec => []LockAccounted
BY Invariance, PTL DEF SInv

\* A step that writes last_fired_at writes a time no earlier than the one it
\* replaces.
LEMMA WritesForward ==
    ASSUME SInv, NEW t \in Threads, Proceed(t), Sound'
    PROVE  row'.fired >= row.fired
<1>1. /\ row \in Rows /\ row.fired \in Int /\ th[t] \in Local
      /\ (~HasRow => row = NoRow)
    BY DEF SInv, TypeOK, Rows, FiredPast
<1>2. Sound
  <2>1. \A S : Blame(S) => faults \subseteq faults'
      BY DEF Blame
  <2>2. faults \subseteq faults'
      BY <2>1
      DEF Proceed, EnsureScheduledEventExists, TriggerScheduledEvents, Look,
          ArmDaily, ArmInterval, RecordSeed, Wake, Due, Enter, Claim,
          ClaimFails, RunDone, RunPanics, RecordEventFired,
          ReleaseScheduledEvent, Write
  <2> QED
      BY <2>2 DEF Sound
<1>3. \A after, then : Write(t, after, then) => row' \in {row, after}
    BY DEF Write
<1>4. ASSUME row' = row
      PROVE  row'.fired >= row.fired
    BY <1>1, <1>4
<1>5. CASE EnsureScheduledEventExists(t)
  <2>1. row' \in {row, Ensured}
      BY <1>3, <1>5 DEF EnsureScheduledEventExists
  <2> QED
      BY <1>1, <1>4, <2>1 DEF Ensured, NoRow, NeverFired
<1>6. CASE RecordSeed(t)
    BY <1>2, <1>6 DEF RecordSeed, SInv, Leased
<1>7. CASE RecordEventFired(t)
  <2>1. row' \in {row, Upserted(th[t].at)}
      BY <1>3, <1>7 DEF RecordEventFired
  <2>2. row.fired <= th[t].at /\ th[t].at \in Int
      BY <1>1, <1>2, <1>7 DEF RecordEventFired, SInv, FiredPast, Local
  <2> QED
      BY <1>1, <1>4, <2>1, <2>2 DEF Upserted
<1>8. CASE ReleaseScheduledEvent(t)
  <2>1. row' \in {row, Released}
      BY <1>3, <1>8 DEF ReleaseScheduledEvent
  <2>2. Released.fired = row.fired
      BY <1>1 DEF Released, Rows
  <2> QED
      BY <1>1, <1>4, <2>1, <2>2
<1>9. CASE Claim(t) \/ ClaimFails(t)
  <2>1. row' \in {row, Claimed(th[t].stamp)}
      BY <1>9 DEF Claim, ClaimFails
  <2>2. Claimed(th[t].stamp).fired = row.fired
      BY <1>1 DEF Claimed, Rows
  <2> QED
      BY <1>1, <1>4, <2>1, <2>2
<1>10. CASE \/ TriggerScheduledEvents(t) \/ Look(t) \/ ArmDaily(t)
            \/ ArmInterval(t) \/ Wake(t) \/ Due(t) \/ Enter(t) \/ RunDone(t)
            \/ RunPanics(t)
    BY <1>4, <1>10
    DEF TriggerScheduledEvents, Look, ArmDaily, ArmInterval, Wake, Due, Enter,
        RunDone, RunPanics
<1> QED
    BY <1>5, <1>6, <1>7, <1>8, <1>9, <1>10 DEF Proceed

\* last_fired_at never moves back.
THEOREM NeverBackwards == Spec => FiredForward
<1>1. SInv /\ [Next]_vars
        => [faults' \cap {"overran", "lost", "norow"} = {}
              => row'.fired >= row.fired]_vars
  <2> SUFFICES ASSUME SInv, Next, Sound'
               PROVE  row'.fired >= row.fired
      BY DEF Sound
  <2>1. row.fired \in Int
      BY DEF SInv, TypeOK, Rows
  <2>2. CASE \E t \in Threads : Proceed(t)
      BY <2>2, WritesForward
  <2>3. CASE \E i \in Instances : Restart(i)
      BY <2>1, <2>3 DEF Restart
  <2>4. CASE PruneScheduledEvents
      BY <2>4 DEF PruneScheduledEvents, Blame, Sound
  <2>5. CASE Tick
      BY <2>1, <2>5 DEF Tick
  <2> QED
      BY <2>2, <2>3, <2>4, <2>5 DEF Next
<1> QED
    BY <1>1, Invariance, PTL DEF Spec, FiredForward

-----------------------------------------------------------------------------
(* The row implements the lease                                            *)

Running == {t \in Threads : Holder(t)}

\* Nothing is promised after a step that breaks the protocol.
LEMMA BreakStep == ~Sound' => L!Next
BY DEF Sound, L!Next, L!Break

\* A step that leaves the lease alone.
LEMMA Untouched ==
    ASSUME Running' = Running, now' = now, row'.started = row.started,
           row'.fired = row.fired, Sound, Sound'
    PROVE  UNCHANGED L!vars
BY DEF Running, Sound, L!vars

\* One goroutine moves; the others run the task or not, as before.
LEMMA OneMoves ==
    ASSUME TypeOK, NEW t \in Threads, NEW l, th' = [th EXCEPT ![t] = l]
    PROVE  /\ l.step \in Holding /\ Holder(t) => Running' = Running
           /\ l.step \notin Holding /\ ~Holder(t) => Running' = Running
           /\ l.step \notin Holding => Running' = Running \ {t}
           /\ l.step \in Holding /\ Running = {} => Running' = {t}
<1>1. th'[t] = l /\ \A u \in Threads \ {t} : th'[u] = th[u]
    BY DEF TypeOK
<1>2. \A u \in Threads \ {t} : Holder(u)' <=> Holder(u)
    BY <1>1 DEF Holder
<1>3. Holder(t)' <=> l.step \in Holding
    BY <1>1 DEF Holder, Holding
<1> QED
    BY <1>2, <1>3 DEF Running

\* A goroutine that does not run the task, and does not begin to.
LEMMA BesideLease ==
    ASSUME SInv, NEW t \in Threads, NEW l, th' = [th EXCEPT ![t] = l],
           ~Holder(t), l.step \notin Holding,
           row'.started = row.started, row'.fired = row.fired, now' = now,
           Sound, Sound'
    PROVE  UNCHANGED L!vars
<1>1. Running' = Running
    BY OneMoves DEF SInv
<1> QED
    BY <1>1, Untouched

\* The end of a run, recorded or given back, or left for the lease to expire.
LEMMA EndOfLease ==
    ASSUME SInv, NEW t \in Threads, Holder(t), NEW after,
           Write(t, after, After(t)), now' = now, Sound, Sound',
           after.started = 0,
           \/ after.fired \in row.fired .. now
           \/ after.fired = row.fired
    PROVE  [L!Next]_(L!vars)
<1>0. /\ th[t] \in Local /\ row \in Rows
      /\ After(t).step \notin Holding
      /\ Retried(t).step = th[t].step
    BY AfterType DEF SInv, TypeOK, Holding, Retried, Local
<1>1. CASE row' = after /\ th' = [th EXCEPT ![t] = After(t)]
  <2>1. Running' = Running \ {t} /\ t \in Running
      BY <1>0, <1>1, OneMoves DEF SInv, Running
  <2>2. L!Complete(t) \/ L!GiveBack(t)
      BY <1>1, <2>1 DEF L!Complete, L!GiveBack, Running, Sound
  <2> QED
      BY <2>2 DEF L!Next
<1>2. CASE row' = row /\ th' = [th EXCEPT ![t] = After(t)]
  <2>1. Running' = Running \ {t} /\ t \in Running
      BY <1>0, <1>2, OneMoves DEF SInv, Running
  <2>2. L!Abandon(t)
      BY <1>2, <2>1 DEF L!Abandon, Running, Sound
  <2> QED
      BY <2>2 DEF L!Next
<1>3. CASE row' = row /\ th' = [th EXCEPT ![t] = Retried(t)]
  <2>1. Retried(t).step \in Holding
      BY <1>0 DEF Holder, Holding
  <2>2. Running' = Running
      BY <1>3, <2>1, OneMoves DEF SInv
  <2> QED
      BY <1>3, <2>2, Untouched
<1>4. ASSUME NEW lost \in {FALSE, Remote},
             row' = (IF lost THEN after ELSE row),
             th' = [th EXCEPT ![t] =
                       IF LastTry(t) THEN After(t) ELSE Retried(t)],
             Blame((IF lost THEN {"lost"} ELSE {}) \cup
                   (IF LastTry(t) THEN {"unwritten"} ELSE {}))
      PROVE  [L!Next]_(L!vars)
  <2>1. ~lost
      BY <1>4 DEF Blame, Sound
  <2> QED
      BY <1>2, <1>3, <1>4, <2>1
<1> QED
    BY <1>1, <1>2, <1>4 DEF Write

\* Every step of a goroutine is a step of the lease or leaves it alone.
LEMMA ProceedImplements ==
    ASSUME SInv, NEW t \in Threads, Proceed(t), Sound, Sound'
    PROVE  [L!Next]_(L!vars)
<1>0. /\ th[t] \in Local /\ row \in Rows /\ now \in Nat /\ TypeOK /\ Rest
      /\ After(t).step \in {"idle", "arm", "sleep"}
      /\ \A s \in Steps : Fresh(s).step = s
      /\ Timeout \in Nat
    BY AfterType, TimesAreIntegers DEF SInv, Rest, TypeOK, Fresh
<1>1. ASSUME NEW l, th' = [th EXCEPT ![t] = l], ~Holder(t),
             l.step \notin Holding, row' = row, now' = now
      PROVE  [L!Next]_(L!vars)
    BY <1>1, BesideLease
<1>2. ASSUME Return(t), ~Holder(t), row' = row, now' = now
      PROVE  [L!Next]_(L!vars)
    BY <1>0, <1>1, <1>2 DEF Return, Holding
<1>3. ASSUME NEW s \in {"due", "enter"}, Move(t, s), ~Holder(t), row' = row,
             now' = now
      PROVE  [L!Next]_(L!vars)
  <2>1. th' = [th EXCEPT ![t] = [th[t] EXCEPT !.step = s]]
      BY <1>3 DEF Move
  <2>2. [th[t] EXCEPT !.step = s].step \notin Holding
      BY <1>0 DEF Local, Holding
  <2> QED
      BY <1>1, <1>3, <2>1, <2>2
<1>4. CASE EnsureScheduledEventExists(t)
  <2> DEFINE then == IF Webhook(t) THEN Fresh("idle")
                     ELSE [Fresh("look") EXCEPT !.call = "missed", !.asOf = now]
  <2>1. then.step \notin Holding /\ Retried(t).step = th[t].step
      BY <1>0 DEF Fresh, Holding, Retried, Local
  <2>2. Write(t, Ensured, then) /\ now' = now /\ ~Holder(t)
      BY <1>4 DEF EnsureScheduledEventExists, Holder, At
  <2> HIDE DEF then
  <2>3. PICK l : th' = [th EXCEPT ![t] = l] /\ l \in {then, Retried(t)}
      BY <2>2 DEF Write
  <2>4. row' \in {row, Ensured}
      BY <2>2 DEF Write
  <2>5. Ensured.started = row.started /\ Ensured.fired = row.fired
      BY DEF Ensured, SInv, FiredPast, NoRow, NeverFired, NoLock
  <2>6. l.step \notin Holding
      BY <2>1, <2>2, <2>3 DEF Holder, Holding
  <2>7. row'.started = row.started /\ row'.fired = row.fired
      BY <2>4, <2>5
  <2> QED
      BY <2>2, <2>3, <2>6, <2>7, BesideLease
<1>5. CASE TriggerScheduledEvents(t)
  <2>1. [Fresh("look") EXCEPT !.call = "missed", !.asOf = now].step = "look"
      BY DEF Fresh
  <2>2. ~Holder(t)
      BY <1>5 DEF TriggerScheduledEvents, At, Holder
  <2> QED
      BY <1>1, <1>5, <2>1, <2>2 DEF TriggerScheduledEvents, Holding
<1>6. CASE Look(t)
  <2>1. ~Holder(t) /\ row' = row /\ now' = now
      BY <1>6 DEF Look, At, Holder
  <2>2. ASSUME th' = [th EXCEPT ![t].step = "seed",
                          ![t].at = TodayOccurrence(th[t].asOf)]
        PROVE  [L!Next]_(L!vars)
    <3> DEFINE l == [th[t] EXCEPT !.step = "seed",
                                  !.at = TodayOccurrence(th[t].asOf)]
    <3>1. th' = [th EXCEPT ![t] = l] /\ l.step = "seed"
        BY <1>0, <2>2 DEF TypeOK, Local
    <3> HIDE DEF l
    <3> QED
        BY <1>1, <2>1, <3>1 DEF Holding
  <2> QED
      BY <1>2, <1>3, <1>6, <2>1, <2>2 DEF Look
<1>7. CASE ArmDaily(t)
  <2>1. [Fresh("sleep") EXCEPT !.call = "timer",
            !.alarm = NextOccurrence(now)].step = "sleep"
      BY DEF Fresh
  <2>2. ~Holder(t)
      BY <1>7 DEF ArmDaily, At, Holder
  <2> QED
      BY <1>1, <1>7, <2>1, <2>2 DEF ArmDaily, Holding
<1>8. CASE ArmInterval(t)
  <2>1. ~Holder(t) /\ row' = row /\ now' = now
      BY <1>8 DEF ArmInterval, At, Holder
  <2>2. PICK l : /\ th' = [th EXCEPT ![t] = l]
                 /\ l \in {[Fresh("sleep") EXCEPT !.call = "timer",
                               !.alarm = now + Interval],
                           [Fresh("seed") EXCEPT !.call = "first", !.at = now],
                           [Fresh("enter") EXCEPT !.call = "first"],
                           [Fresh("sleep") EXCEPT !.call = "first",
                               !.alarm = row.fired + Interval]}
      BY <1>8 DEF ArmInterval
  <2>3. l.step \notin Holding
      BY <2>2 DEF Fresh, Holding
  <2> QED
      BY <1>1, <2>1, <2>2, <2>3
<1>9. CASE RecordSeed(t)
    BY <1>9 DEF RecordSeed, SInv, Leased
<1>10. CASE Wake(t)
  <2>1. ~Holder(t) /\ row' = row /\ now' = now
      BY <1>10 DEF Wake, At, Holder
  <2>2. ASSUME th' = [th EXCEPT ![t].step = "enter", ![t].alarm = NextTick(@)]
        PROVE  [L!Next]_(L!vars)
    <3> DEFINE l == [th[t] EXCEPT !.step = "enter", !.alarm = NextTick(@)]
    <3>1. th' = [th EXCEPT ![t] = l] /\ l.step = "enter"
        BY <1>0, <2>2 DEF TypeOK, Local
    <3> HIDE DEF l
    <3> QED
        BY <1>1, <2>1, <3>1 DEF Holding
  <2> QED
      BY <1>3, <1>10, <2>1, <2>2 DEF Wake
<1>11. CASE Due(t)
  <2>1. ~Holder(t) /\ row' = row /\ now' = now
      BY <1>11 DEF Due, At, Holder
  <2> QED
      BY <1>2, <1>3, <1>11, <2>1 DEF Due
<1>12. CASE Enter(t)
  <2> DEFINE l == [th[t] EXCEPT !.step = "claim", !.stamp = now]
  <2>1. th' = [th EXCEPT ![t] = l] /\ l.step = "claim"
      BY <1>0, <1>12 DEF Enter, TypeOK, Local
  <2> HIDE DEF l
  <2>2. ~Holder(t) /\ row' = row /\ now' = now
      BY <1>12 DEF Enter, At, Holder
  <2> QED
      BY <1>1, <2>1, <2>2 DEF Holding
<1>13. CASE Claim(t) /\ Claimable(th[t].stamp)
  <2> DEFINE l == [th[t] EXCEPT !.step = "run", !.tries = 0]
  <2>1. /\ th' = [th EXCEPT ![t] = l] /\ l.step = "run"
        /\ row' = [row EXCEPT !.started = th[t].stamp] /\ now' = now
        /\ At(t, "claim")
      BY <1>0, <1>13 DEF Claim, Claimed, TypeOK, Local
  <2> HIDE DEF l
  <2>2. Running = {}
      BY <1>0, <1>13, <2>1, FreeWhenClaimable DEF Running
  <2>3. Running' = {t}
      BY <1>0, <2>1, <2>2, OneMoves DEF Holding
  <2>4. row'.started = th[t].stamp /\ row'.fired = row.fired
      BY <1>0, <2>1 DEF Rows
  <2>5. 0 < th[t].stamp /\ th[t].stamp <= now /\ th[t].stamp \in Nat
      BY <1>0, <2>1 DEF Rest, Clocked, At, Local
  <2>6. row.started = 0 \/ row.started + Timeout < now
      BY <1>0, <1>13, <2>5 DEF Claimable, NoLock, Rows
  <2>7. L!Take(t)
      BY <1>0, <2>1, <2>2, <2>3, <2>4, <2>5, <2>6
      DEF L!Take, L!Free, L!Stale, Running, Sound
  <2> QED
      BY <2>7 DEF L!Next
<1>14. CASE Claim(t) /\ ~Claimable(th[t].stamp)
  <2>1. ~Holder(t) /\ row' = row /\ now' = now /\ Return(t)
      BY <1>14 DEF Claim, Claimed, At, Holder
  <2> QED
      BY <1>2, <2>1
<1>15. CASE ClaimFails(t)
  <2>1. ~Holder(t) /\ now' = now /\ th[t].step = "claim"
      BY <1>15 DEF ClaimFails, At, Holder
  <2>2. PICK l : /\ th' = [th EXCEPT ![t] = l]
                 /\ l \in {After(t), [th[t] EXCEPT !.tries = @ + 1]}
      BY <1>15 DEF ClaimFails, Return
  <2>3. l.step \notin Holding
      BY <1>0, <2>1, <2>2 DEF Local, Holding
  <2>4. row' = row
      BY <1>15 DEF ClaimFails, Blame, Sound
  <2> QED
      BY <1>1, <2>1, <2>2, <2>3, <2>4
<1>16. CASE RunDone(t) \/ RunPanics(t)
  <2>1. PICK l : /\ th' = [th EXCEPT ![t] = l]
                 /\ l \in {[th[t] EXCEPT !.step = "record", !.at = now],
                           [th[t] EXCEPT !.step = "release"]}
    <3>1. CASE RunDone(t)
        BY <1>0, <3>1 DEF RunDone, TypeOK
    <3>2. CASE RunPanics(t)
        BY <1>0, <3>2 DEF RunPanics, Move, TypeOK
    <3> QED
        BY <1>16, <3>1, <3>2
  <2>2. l.step \in Holding
      BY <1>0, <2>1 DEF Local, Holding
  <2>3. Holder(t) /\ row' = row /\ now' = now
      BY <1>16 DEF RunDone, RunPanics, At, Holder
  <2>4. Running' = Running
      BY <1>0, <2>1, <2>2, <2>3, OneMoves
  <2> QED
      BY <2>3, <2>4, Untouched
<1>17. CASE RecordEventFired(t)
  <2>1. /\ Holder(t) /\ Write(t, Upserted(th[t].at), After(t)) /\ now' = now
        /\ At(t, "record")
      BY <1>17 DEF RecordEventFired, At, Holder
  <2>2. row.fired <= th[t].at /\ th[t].at <= now
      BY <2>1 DEF SInv, FiredPast
  <2>3. Upserted(th[t].at).started = 0
        /\ Upserted(th[t].at).fired \in row.fired .. now
      BY <1>0, <2>2 DEF Upserted, NoLock, Local, Rows
  <2> QED
      BY <2>1, <2>3, EndOfLease
<1>18. CASE ReleaseScheduledEvent(t)
  <2>1. Holder(t) /\ Write(t, Released, After(t)) /\ now' = now
      BY <1>18 DEF ReleaseScheduledEvent, At, Holder
  <2>2. Released.started = 0 /\ Released.fired = row.fired
      BY <1>0 DEF Released, NoLock, Rows
  <2> QED
      BY <2>1, <2>2, EndOfLease
<1> QED
    BY <1>4, <1>5, <1>6, <1>7, <1>8, <1>9, <1>10, <1>11, <1>12, <1>13, <1>14,
       <1>15, <1>16, <1>17, <1>18 DEF Proceed

\* A process that dies leaves its lease taken.
LEMMA RestartImplements ==
    ASSUME SInv, NEW i \in Instances, Restart(i), Sound, Sound'
    PROVE  [L!Next]_(L!vars)
<1>1. /\ \A t \in Threads : th'[t] = IF Home[t] = i THEN Reborn(t) ELSE th[t]
      /\ row' = row /\ now' = now
    BY DEF Restart
<1>2. \A t \in Threads : Reborn(t).step \in {"off", "idle"}
    BY DEF Reborn, Fresh
<1>3. \A t \in Threads : Holder(t)' <=> Holder(t) /\ Home[t] # i
    BY <1>1, <1>2 DEF Holder
<1>4. CASE \E t \in Threads : Home[t] = i /\ Holder(t)
  <2>1. PICK t \in Threads : Home[t] = i /\ Holder(t)
      BY <1>4
  <2>2. \A u \in Threads : Holder(u) => u = t
      BY <2>1 DEF SInv, Leased, ExclusiveRun, Sound
  <2>3. t \in Running /\ Running' = Running \ {t}
      BY <1>3, <2>1, <2>2 DEF Running
  <2>4. L!Abandon(t)
      BY <1>1, <2>3 DEF L!Abandon, Running, Sound
  <2> QED
      BY <2>4 DEF L!Next
<1>5. CASE ~\E t \in Threads : Home[t] = i /\ Holder(t)
  <2>1. Running' = Running
      BY <1>3, <1>5 DEF Running
  <2> QED
      BY <1>1, <2>1, Untouched
<1> QED
    BY <1>4, <1>5

\* While the protocol is kept, time passes only as long as the run has its
\* lease.
LEMMA TickImplements ==
    ASSUME SInv, SInv', Tick, Sound, Sound'
    PROVE  L!Next
<1>1. now' = now + 1 /\ row' = row /\ th' = th
    BY DEF Tick
<1>2. Running' = Running
    BY <1>1 DEF Running, Holder
<1>3. ASSUME NEW t \in Threads, Holder(t)
      PROVE  row.started + Timeout >= now'
  <2>1. row'.started = th'[t].stamp /\ ~Late(t, now)' /\ Holder(t)'
      BY <1>1, <1>3 DEF SInv, Leased, Holder
  <2>2. /\ row'.started \in Nat /\ Timeout \in Nat /\ now' \in Nat
      BY TimesAreIntegers DEF SInv, TypeOK, Rows
  <2> QED
      BY <1>1, <2>1, <2>2 DEF Late
<1>4. L!Tick
    BY <1>1, <1>2, <1>3 DEF L!Tick, Running, Sound
<1> QED
    BY <1>4 DEF L!Next

\* The faults of a behaviour only add up.
LEMMA FaultsStay == [Next]_vars /\ Sound' => Sound
<1>1. \A S : Blame(S) => faults \subseteq faults'
    BY DEF Blame
<1>2. \A t, after, then : Write(t, after, then) => faults \subseteq faults'
    BY <1>1 DEF Write
<1>3. \A t \in Threads : Proceed(t) => faults \subseteq faults'
    BY <1>1, <1>2
    DEF Proceed, EnsureScheduledEventExists, TriggerScheduledEvents, Look,
        ArmDaily, ArmInterval, RecordSeed, Wake, Due, Enter, Claim,
        ClaimFails, RunDone, RunPanics, RecordEventFired, ReleaseScheduledEvent
<1>4. [Next]_vars => faults \subseteq faults'
    BY <1>1, <1>3 DEF Next, Restart, PruneScheduledEvents, Tick, vars
<1> QED
    BY <1>4 DEF Sound

\* The row, the claim and what the scheduler does around them implement the
\* lease: for any instances, goroutines, periods and lock timeout.
THEOREM LeaseImplemented == Spec => ImplementsLease
<1>1. Init => L!Init
  <2> SUFFICES ASSUME Init PROVE L!Init
      OBVIOUS
  <2>1. \A t \in Threads : th[t].step \in {"off", "idle"}
      BY DEF Init, Reborn, Fresh
  <2>2. Running = {}
      BY <2>1 DEF Running, Holder
  <2>3. now \in Nat /\ row.started = 0 /\ row.fired = 0 /\ faults = {}
      BY TimesAreIntegers DEF Init, NoRow, NoLock, NeverFired
  <2> QED
      BY <2>2, <2>3 DEF L!Init, Running
<1>2. SInv /\ SInv' /\ [Next]_vars => [L!Next]_(L!vars)
  <2> SUFFICES ASSUME SInv, SInv', [Next]_vars
               PROVE  [L!Next]_(L!vars)
      OBVIOUS
  <2>1. CASE ~Sound'
      BY <2>1, BreakStep
  <2>2. CASE Sound'
    <3>1. Sound
        BY <2>2, FaultsStay
    <3>2. CASE \E t \in Threads : Proceed(t)
        BY <2>2, <3>1, <3>2, ProceedImplements
    <3>3. CASE \E i \in Instances : Restart(i)
        BY <2>2, <3>1, <3>3, RestartImplements
    <3>4. CASE PruneScheduledEvents
        BY <2>2, <3>4 DEF PruneScheduledEvents, Blame, Sound
    <3>5. CASE Tick
        BY <2>2, <3>1, <3>5, TickImplements
    <3>6. CASE UNCHANGED vars
      <4>1. Running' = Running
          BY <3>6 DEF vars, Running, Holder
      <4> QED
          BY <2>2, <3>1, <3>6, <4>1, Untouched DEF vars
    <3> QED
        BY <3>2, <3>3, <3>4, <3>5, <3>6 DEF Next
  <2> QED
      BY <2>1, <2>2
<1> QED
    BY <1>1, <1>2, Invariance, PTL DEF Spec, ImplementsLease, L!Spec

-----------------------------------------------------------------------------
(***************************************************************************)
(* No occurrence of a daily task is run twice, for any number of instances *)
(* and goroutines and any periods, as long as nothing fails and nobody     *)
(* looks at the task while another is busy with it.  The argument goes     *)
(* beside that of the lease: whoever has decided to run an occurrence has  *)
(* seen that last_fired_at is before it, everything that was run is in     *)
(* last_fired_at or about to be, and one goroutine at a time is between    *)
(* the two.                                                                *)
(***************************************************************************)

BusySteps == {"enter", "claim", "run", "record", "release"}

TakenSteps == {"enter", "claim", "run"}

Busy(t) == th[t].step \in BusySteps

\* Has decided to run the task, and has not run it yet.
Taken(t) == th[t].step \in TakenSteps

\* The occurrence that a goroutine with locals l runs the task for.
Occ(l) == IF l.call = "missed" THEN MostRecent(l.asOf) ELSE l.alarm

\* A goroutine with locals l is after an occurrence that has been.
Timed(l) ==
    kind = "daily" =>
        /\ l.step = "look" => l.call = "missed" /\ l.asOf <= now
        /\ l.step = "sleep" => l.call = "timer"
        /\ l.step = "due" => l.call = "timer" /\ l.alarm <= now
        /\ l.step \in TakenSteps =>
              IF l.call = "missed" THEN l.asOf <= now ELSE l.alarm <= now

Recorded(o) == o <= row.fired \/ \E t \in Threads : At(t, "record") /\ o <= th[t].at

OneBusy == \A t, u \in Threads : Busy(t) /\ Busy(u) => t = u

NoneTwice ==
    /\ again = {}
    /\ done # {} => HasRow
    /\ kind = "daily" => \A o \in done : /\ Recorded(o)
                                         /\ \A t \in Threads : Taken(t) => Occ(th[t]) # o

OInv ==
    /\ \A t \in Threads : Timed(th[t])
    /\ kind = "interval" => done = {} /\ again = {}
    /\ faults = {} => OneBusy /\ NoneTwice

-----------------------------------------------------------------------------
(* Values                                                                  *)

LEMMA OccurrenceIsOcc == \A t \in Threads : Occurrence(t) = Occ(th[t])
BY DEF Occurrence, Occ

\* The latest occurrence has been.
LEMMA MostRecentPast == \A n \in Nat : MostRecent(n) <= n
<1> SUFFICES ASSUME NEW n \in Nat PROVE MostRecent(n) <= n
    OBVIOUS
<1>1. TodayOccurrence(n) \in Int /\ n % Day \in 0 .. Day - 1
    BY OccurrenceType, TimesAreIntegers
<1>2. Day \in Nat /\ Target \in Nat /\ Target < Day
    BY TimesAssumption
<1>3. TodayOccurrence(n) - Day <= n
    BY <1>1, <1>2 DEF TodayOccurrence
<1> QED
    BY <1>1, <1>3 DEF MostRecent

LEMMA OccPast ==
    ASSUME TypeOK, NEW l \in Local, Timed(l), kind = "daily", l.step \in TakenSteps
    PROVE  Occ(l) \in Int /\ Occ(l) <= now
<1>1. l.asOf \in Nat /\ l.alarm \in Int /\ now \in Nat
    BY DEF TypeOK, Local
<1>2. MostRecent(l.asOf) \in Int /\ MostRecent(l.asOf) <= l.asOf
    BY <1>1, OccurrenceType, MostRecentPast
<1> QED
    BY <1>1, <1>2 DEF Timed, Occ

LEMMA BlameNothing ==
    ASSUME NEW S, Blame(S)
    PROVE  faults \subseteq faults' /\ (faults' = {} => faults = {} /\ S = {})
BY DEF Blame

\* What a write does when nothing goes wrong.
LEMMA WriteMoves ==
    ASSUME TypeOK, NEW t \in Threads, NEW after, NEW then, Write(t, after, then)
    PROVE  /\ faults \subseteq faults' /\ row' \in {row, after}
           /\ \E l \in {then, Retried(t)} :
                 /\ th' = [th EXCEPT ![t] = l]
                 /\ faults' = {} => \/ l = then /\ row' = after
                                    \/ l = Retried(t) /\ row' = row
<1>1. CASE row' = after /\ th' = [th EXCEPT ![t] = then] /\ UNCHANGED faults
    BY <1>1
<1>2. ASSUME NEW lost \in {FALSE, Remote},
             row' = (IF lost THEN after ELSE row),
             th' = [th EXCEPT ![t] = IF LastTry(t) THEN then ELSE Retried(t)],
             Blame((IF lost THEN {"lost"} ELSE {}) \cup
                   (IF LastTry(t) THEN {"unwritten"} ELSE {}))
      PROVE  /\ faults \subseteq faults' /\ row' \in {row, after}
             /\ \E l \in {then, Retried(t)} :
                   /\ th' = [th EXCEPT ![t] = l]
                   /\ faults' = {} => \/ l = then /\ row' = after
                                      \/ l = Retried(t) /\ row' = row
  <2>1. faults \subseteq faults' /\ (faults' = {} => ~lost /\ ~LastTry(t))
      BY <1>2 DEF Blame
  <2> QED
      BY <1>2, <2>1
<1>3. CASE th' = [th EXCEPT ![t] = then] /\ Blame({"unwritten"}) /\ UNCHANGED row
  <2>1. faults \subseteq faults' /\ faults' # {}
      BY <1>3 DEF Blame
  <2> QED
      BY <1>3, <2>1
<1> QED
    BY <1>1, <1>2, <1>3 DEF Write

-----------------------------------------------------------------------------
(* What keeps the invariant                                                *)

\* A goroutine that does not take the task up, and has recorded its run when it leaves it.
LEMMA GoesOn ==
    ASSUME TypeOK, OInv, NEW t \in Threads, NEW l,
           th' = [th EXCEPT ![t] = l],
           kind' = kind, now' = now, done' = done, again' = again,
           faults \subseteq faults', Timed(l), row' \in Rows,
           faults' = {} =>
               /\ HasRow => row'.present /\ row.fired <= row'.fired
               /\ l.step \in BusySteps => Busy(t)
               /\ l.step \in TakenSteps => Taken(t) /\ Occ(l) = Occ(th[t])
               /\ At(t, "record") => \/ l.step = "record" /\ l.at = th[t].at
                                     \/ th[t].at <= row'.fired
    PROVE  OInv'
<1>1. th'[t] = l /\ \A u \in Threads \ {t} : th'[u] = th[u]
    BY DEF TypeOK
<1>2. \A u \in Threads : Timed(th[u])'
    BY <1>1 DEF OInv, Timed
<1>3. ASSUME faults' = {} PROVE OneBusy'
  <2>1. faults = {}
      BY <1>3
  <2>2. \A u \in Threads : Busy(u)' => Busy(u)
      BY <1>1, <1>3 DEF Busy
  <2> QED
      BY <2>1, <2>2 DEF OInv, OneBusy
<1>4. ASSUME faults' = {} PROVE NoneTwice'
  <2>1. NoneTwice
      BY <1>4 DEF OInv
  <2>2. done # {} => HasRow'
      BY <1>4, <2>1 DEF NoneTwice, HasRow
  <2>3. ASSUME kind = "daily", NEW o \in done PROVE Recorded(o)'
    <3>1. Recorded(o) /\ HasRow
        BY <2>1, <2>3 DEF NoneTwice
    <3>2. o \in Int /\ row.fired \in Int /\ row'.fired \in Int /\ row.fired <= row'.fired
        BY <1>4, <3>1 DEF TypeOK, Rows
    <3>3. CASE o <= row.fired
        BY <3>2, <3>3 DEF Recorded
    <3>4. ASSUME NEW u \in Threads, At(u, "record"), o <= th[u].at PROVE Recorded(o)'
      <4>1. th[u].at \in Int
          BY DEF TypeOK, Local
      <4>2. CASE u = t /\ th[t].at <= row'.fired
          BY <3>2, <3>4, <4>1, <4>2 DEF Recorded
      <4>3. CASE th'[u].step = "record" /\ th'[u].at = th[u].at
          BY <3>4, <4>3 DEF Recorded, At
      <4> QED
          BY <1>1, <1>4, <3>4, <4>2, <4>3 DEF At
    <3> QED
        BY <3>1, <3>3, <3>4 DEF Recorded
  <2>4. ASSUME kind = "daily", NEW o \in done, NEW u \in Threads, Taken(u)'
        PROVE  Occ(th'[u]) # o
    <3>1. Taken(u) /\ Occ(th'[u]) = Occ(th[u])
        BY <1>1, <1>4, <2>4 DEF Taken
    <3> QED
        BY <2>1, <2>4, <3>1 DEF NoneTwice
  <2> QED
      BY <2>1, <2>2, <2>3, <2>4 DEF NoneTwice, Occ, MostRecent, TodayOccurrence
<1> QED
    BY <1>2, <1>3, <1>4 DEF OInv

\* A goroutine takes the task up, which it has found due while nobody else was busy.
LEMMA TakesUp ==
    ASSUME TypeOK, OInv, NEW t \in Threads, NEW l, ~Busy(t),
           th' = [th EXCEPT ![t] = l], l.step = "enter",
           kind' = kind, now' = now, done' = done, again' = again, row' = row,
           faults \subseteq faults', Timed(l), Occ(l) \in Int,
           faults' = {} =>
               /\ Overlap(t) = {}
               /\ kind = "daily" /\ HasRow => row.fired < Occ(l)
    PROVE  OInv'
<1>1. th'[t] = l /\ \A u \in Threads \ {t} : th'[u] = th[u]
    BY DEF TypeOK
<1>2. \A u \in Threads : Timed(th[u])'
    BY <1>1 DEF OInv, Timed
<1>3. ASSUME faults' = {}, NEW u \in Threads \ {t} PROVE ~Busy(u) /\ ~Busy(u)'
    BY <1>1, <1>3 DEF Overlap, Resting, Busy, BusySteps
<1>4. ASSUME faults' = {} PROVE OneBusy'
    BY <1>3, <1>4 DEF OneBusy
<1>5. ASSUME faults' = {} PROVE NoneTwice'
  <2>1. NoneTwice
      BY <1>5 DEF OInv
  <2>2. ASSUME kind = "daily", NEW o \in done
        PROVE  o <= row.fired /\ o \in Int /\ row.fired \in Int /\ row.fired < Occ(l)
    <3>1. \A u \in Threads : ~At(u, "record")
        BY <1>3, <1>5 DEF At, Busy, BusySteps
    <3> QED
        BY <1>5, <2>1, <2>2, <3>1 DEF NoneTwice, Recorded, TypeOK, Rows
  <2>3. ASSUME kind = "daily", NEW o \in done PROVE Recorded(o)'
      BY <2>2, <2>3 DEF Recorded
  <2>4. ASSUME kind = "daily", NEW o \in done, NEW u \in Threads, Taken(u)'
        PROVE  Occ(th'[u]) # o
    <3>1. u = t
        BY <1>3, <1>5, <2>4 DEF Taken, Busy, TakenSteps, BusySteps
    <3> QED
        BY <1>1, <2>2, <2>4, <3>1
  <2> QED
      BY <2>1, <2>3, <2>4 DEF NoneTwice, HasRow, Occ, MostRecent, TodayOccurrence
<1> QED
    BY <1>2, <1>4, <1>5 DEF OInv

\* The task returns: its occurrence was not among those that had been run.
LEMMA RunDoneKeeps ==
    ASSUME SInv, OInv, NEW t \in Threads, RunDone(t)
    PROVE  OInv'
<1> USE DEF SInv
<1> DEFINE l == [th[t] EXCEPT !.step = "record", !.at = now]
<1>0. th[t] \in Local /\ now \in Nat
    BY DEF TypeOK
<1>1. /\ th' = [th EXCEPT ![t] = l] /\ l.step = "record" /\ l.at = now
      /\ th[t].step = "run"
      /\ kind' = kind /\ now' = now /\ row' = row /\ faults' = faults
      /\ done' = done \cup Ended(t) /\ again' = again \cup (done \cap Ended(t))
    BY <1>0 DEF RunDone, At, TypeOK, Local
<1> HIDE DEF l
<1>2. th'[t] = l /\ \A u \in Threads \ {t} : th'[u] = th[u]
    BY <1>1 DEF TypeOK
<1>3. \A u \in Threads : Timed(th[u])'
    BY <1>1, <1>2 DEF OInv, Timed, TakenSteps
<1>4. Busy(t) /\ Taken(t)
    BY <1>1 DEF Busy, BusySteps, Taken, TakenSteps
<1>5. kind \in {"daily", "interval"}
    BY KindsAssumption DEF TypeOK
<1>6. kind = "interval" => done' = {} /\ again' = {}
    BY <1>1 DEF OInv, Ended
<1>7. ASSUME faults' = {} PROVE OneBusy'
    BY <1>1, <1>2, <1>4, <1>7 DEF OInv, OneBusy, Busy
<1>8. ASSUME faults' = {} PROVE NoneTwice'
  <2>1. OneBusy /\ NoneTwice
      BY <1>1, <1>8 DEF OInv
  <2>2. \A u \in Threads : ~Taken(u)'
      BY <1>1, <1>2, <1>4, <2>1 DEF OneBusy, Busy, BusySteps, Taken, TakenSteps
  <2>3. CASE kind = "interval"
      BY <1>1, <1>6, <2>3 DEF NoneTwice
  <2>4. CASE kind = "daily"
    <3>1. Ended(t) = {Occ(th[t])} /\ Occ(th[t]) \in Int /\ Occ(th[t]) <= now
        BY <1>0, <1>4, <2>4, OccPast, OccurrenceIsOcc DEF Ended, OInv, Taken
    <3>2. again' = {}
        BY <1>1, <1>4, <2>1, <2>4, <3>1 DEF NoneTwice
    <3>3. HasRow'
        BY <1>1, <1>8 DEF Leased, Sound, Holder, HasRow
    <3>4. At(t, "record")' /\ th'[t].at = now
        BY <1>1, <1>2 DEF At
    <3>5. ASSUME NEW o \in done' PROVE Recorded(o)'
      <4>1. CASE o = Occ(th[t])
          BY <3>1, <3>4, <4>1 DEF Recorded
      <4>2. CASE o \in done
        <5>1. \A u \in Threads : ~At(u, "record")
            BY <1>1, <1>4, <2>1 DEF OneBusy, At, Busy, BusySteps
        <5> QED
            BY <1>1, <2>1, <2>4, <4>2, <5>1 DEF NoneTwice, Recorded
      <4> QED
          BY <1>1, <3>1, <4>1, <4>2
    <3> QED
        BY <1>1, <2>2, <3>2, <3>3, <3>5 DEF NoneTwice
  <2> QED
      BY <1>5, <2>3, <2>4
<1> QED
    BY <1>1, <1>3, <1>6, <1>7, <1>8 DEF OInv

\* What a goroutine does after a call: it does not take the task up.
LEMMA AfterTimed ==
    ASSUME TypeOK, NEW t \in Threads
    PROVE  Timed(After(t)) /\ After(t).step \in {"idle", "arm", "sleep"}
<1>1. After(t).step \in {"idle", "arm", "sleep"}
    BY AfterType
<1>2. kind = "daily" => After(t).step # "sleep"
    BY DEF After, Fresh
<1> QED
    BY <1>1, <1>2 DEF Timed, TakenSteps

\* A goroutine that is not busy with the task, or ceases to be, and leaves the row alone.
LEMMA StandsBy ==
    ASSUME TypeOK, OInv, NEW t \in Threads, NEW l, ~At(t, "record"),
           th' = [th EXCEPT ![t] = l], l.step \notin BusySteps,
           kind' = kind, now' = now, done' = done, again' = again,
           faults \subseteq faults', Timed(l), row' \in Rows,
           row'.present = row.present /\ row'.fired = row.fired
    PROVE  OInv'
<1>1. row.fired \in Int /\ l.step \notin TakenSteps
    BY DEF TypeOK, Rows, BusySteps, TakenSteps
<1>2. faults' = {} =>
          /\ HasRow => row'.present /\ row.fired <= row'.fired
          /\ l.step \in BusySteps => Busy(t)
          /\ l.step \in TakenSteps => Taken(t) /\ Occ(l) = Occ(th[t])
          /\ At(t, "record") => \/ l.step = "record" /\ l.at = th[t].at
                                \/ th[t].at <= row'.fired
    BY <1>1 DEF HasRow
<1> QED
    BY <1>2, GoesOn

LEMMA Returns ==
    ASSUME TypeOK, OInv, NEW t \in Threads, ~At(t, "record"), Return(t),
           kind' = kind, now' = now, done' = done, again' = again,
           faults \subseteq faults', row' \in Rows,
           row'.present = row.present /\ row'.fired = row.fired
    PROVE  OInv'
<1>1. Timed(After(t)) /\ After(t).step \in {"idle", "arm", "sleep"}
    BY AfterTimed
<1>2. th' = [th EXCEPT ![t] = After(t)] /\ After(t).step \notin BusySteps
    BY <1>1 DEF Return, BusySteps
<1> QED
    BY <1>1, <1>2, StandsBy

-----------------------------------------------------------------------------
(* The steps of a goroutine                                                *)

LEMMA LookOnce ==
    ASSUME SInv, OInv, NEW t \in Threads, Look(t)
    PROVE  OInv'
<1> USE DEF SInv
<1>0. /\ th[t] \in Local /\ row \in Rows /\ th[t].step = "look"
      /\ kind' = kind /\ now' = now /\ done' = done /\ again' = again /\ row' = row
    BY DEF Look, TypeOK, At
<1>1. CASE Return(t) /\ UNCHANGED faults
    BY <1>0, <1>1, Returns DEF At
<1>2. CASE /\ HasRow /\ Move(t, "enter") /\ Blame(Overlap(t))
           /\ \/ kind = "daily" /\ MissedDay(th[t].asOf)
              \/ kind = "interval" /\ MissedInterval
  <2> DEFINE l == [th[t] EXCEPT !.step = "enter"]
  <2>1. /\ th' = [th EXCEPT ![t] = l] /\ l.step = "enter"
        /\ l.call = th[t].call /\ l.asOf = th[t].asOf /\ l.alarm = th[t].alarm
      BY <1>0, <1>2 DEF Move, Local, TypeOK
  <2> HIDE DEF l
  <2>2. th[t].asOf \in Nat /\ th[t].alarm \in Int /\ MostRecent(th[t].asOf) \in Int
      BY <1>0, OccurrenceType DEF Local
  <2>3. Timed(l) /\ Occ(l) \in Int
      BY <1>0, <2>1, <2>2 DEF OInv, Timed, Occ
  <2>4. faults \subseteq faults' /\ (faults' = {} => Overlap(t) = {})
      BY <1>2, BlameNothing
  <2>5. kind = "daily" => row.fired < Occ(l)
      BY <1>0, <1>2, <2>1 DEF MissedDay, OInv, Timed, Occ
  <2>6. ~Busy(t)
      BY <1>0 DEF Busy, BusySteps
  <2> QED
      BY <1>0, <2>1, <2>3, <2>4, <2>5, <2>6, TakesUp
<1>3. CASE /\ th' = [th EXCEPT ![t].step = "seed",
                               ![t].at = TodayOccurrence(th[t].asOf)]
           /\ Blame({"norow"})
  <2> DEFINE l == [th[t] EXCEPT !.step = "seed", !.at = TodayOccurrence(th[t].asOf)]
  <2>1. th' = [th EXCEPT ![t] = l] /\ l.step = "seed"
      BY <1>0, <1>3 DEF Local, TypeOK
  <2> HIDE DEF l
  <2>2. faults \subseteq faults' /\ faults' # {}
      BY <1>3, BlameNothing
  <2>3. Timed(l)
      BY <2>1 DEF Timed, TakenSteps
  <2> QED
      BY <1>0, <2>1, <2>2, <2>3, GoesOn
<1> QED
    BY <1>1, <1>2, <1>3 DEF Look

LEMMA ArmOnce ==
    ASSUME SInv, OInv, NEW t \in Threads, ArmDaily(t) \/ ArmInterval(t)
    PROVE  OInv'
<1> USE DEF SInv
<1>0. /\ th[t] \in Local /\ row \in Rows /\ row.fired \in Int /\ th[t].step = "arm"
      /\ kind' = kind /\ now' = now /\ done' = done /\ again' = again /\ row' = row
    BY DEF ArmDaily, ArmInterval, TypeOK, Rows, At
<1>1. ASSUME NEW l, th' = [th EXCEPT ![t] = l], l.step \in {"sleep", "seed"},
             kind = "daily" => l.step = "sleep" /\ l.call = "timer",
             faults \subseteq faults'
      PROVE  OInv'
  <2>1. Timed(l)
      BY <1>1 DEF Timed, TakenSteps
  <2>2. l.step \notin BusySteps /\ ~At(t, "record")
      BY <1>0, <1>1 DEF BusySteps, At
  <2> QED
      BY <1>0, <1>1, <2>1, <2>2, StandsBy
<1>2. CASE ArmDaily(t)
  <2> DEFINE l == [Fresh("sleep") EXCEPT !.call = "timer", !.alarm = NextOccurrence(now)]
  <2>1. th' = [th EXCEPT ![t] = l] /\ l.step = "sleep" /\ l.call = "timer"
      BY <1>2 DEF ArmDaily, Fresh
  <2> HIDE DEF l
  <2> QED
      BY <1>1, <1>2, <2>1 DEF ArmDaily
<1>3. ASSUME ArmInterval(t), NEW c \in {"timer", "first"}, NEW a \in Int,
             th' = [th EXCEPT ![t] = [Fresh("sleep") EXCEPT !.call = c, !.alarm = a]],
             UNCHANGED faults
      PROVE  OInv'
  <2> DEFINE l == [Fresh("sleep") EXCEPT !.call = c, !.alarm = a]
  <2>1. l.step = "sleep" /\ kind # "daily"
      BY <1>3 DEF ArmInterval, Fresh
  <2> HIDE DEF l
  <2> QED
      BY <1>1, <1>3, <2>1 DEF l
<1>4. CASE /\ kind = "interval" /\ Blame({"norow"})
           /\ th' = [th EXCEPT ![t] = [Fresh("seed") EXCEPT !.call = "first", !.at = now]]
  <2> DEFINE l == [Fresh("seed") EXCEPT !.call = "first", !.at = now]
  <2>1. l.step = "seed" /\ faults \subseteq faults'
      BY <1>4, BlameNothing DEF Fresh
  <2> HIDE DEF l
  <2> QED
      BY <1>1, <1>4, <2>1 DEF l
<1>5. CASE /\ kind = "interval" /\ Blame(Overlap(t))
           /\ th' = [th EXCEPT ![t] = [Fresh("enter") EXCEPT !.call = "first"]]
  <2> DEFINE l == [Fresh("enter") EXCEPT !.call = "first"]
  <2>1. l.step = "enter" /\ l.call = "first" /\ l.alarm = 0
      BY DEF Fresh
  <2>2. th' = [th EXCEPT ![t] = l]
      BY <1>5
  <2> HIDE DEF l
  <2>3. Timed(l) /\ Occ(l) \in Int /\ ~Busy(t)
      BY <1>0, <1>5, <2>1 DEF Timed, Occ, Busy, BusySteps
  <2>4. faults \subseteq faults' /\ (faults' = {} => Overlap(t) = {})
      BY <1>5, BlameNothing
  <2> QED
      BY <1>0, <1>5, <2>1, <2>2, <2>3, <2>4, TakesUp
<1>6. now + Interval \in Int /\ row.fired + Interval \in Int
    BY <1>0, TimesAreIntegers DEF TypeOK
<1> QED
    BY <1>2, <1>3, <1>4, <1>5, <1>6 DEF ArmInterval

LEMMA WakeOnce ==
    ASSUME SInv, OInv, NEW t \in Threads, Wake(t)
    PROVE  OInv'
<1> USE DEF SInv
<1>0. /\ th[t] \in Local /\ row \in Rows /\ row.fired \in Int /\ th[t].step = "sleep"
      /\ th[t].alarm <= now /\ th[t].alarm \in Int /\ now \in Nat
      /\ kind' = kind /\ now' = now /\ done' = done /\ again' = again /\ row' = row
    BY DEF Wake, TypeOK, Rows, At, Local
<1>1. CASE kind = "daily"
  <2> DEFINE l == [th[t] EXCEPT !.step = "due"]
  <2>1. /\ th' = [th EXCEPT ![t] = l] /\ l.step = "due" /\ faults' = faults
        /\ l.call = th[t].call /\ l.alarm = th[t].alarm
      BY <1>0, <1>1 DEF Wake, Move, Local, TypeOK
  <2> HIDE DEF l
  <2>2. Timed(l)
      BY <1>0, <1>1, <2>1 DEF OInv, Timed, TakenSteps
  <2>3. l.step \notin BusySteps /\ ~At(t, "record") /\ faults \subseteq faults'
      BY <1>0, <2>1 DEF BusySteps, At
  <2> QED
      BY <1>0, <2>1, <2>2, <2>3, StandsBy
<1>2. CASE kind # "daily"
  <2> DEFINE l == [th[t] EXCEPT !.step = "enter", !.alarm = NextTick(@)]
  <2>1. th' = [th EXCEPT ![t] = l] /\ l.step = "enter" /\ l.asOf \in Nat
      BY <1>0, <1>2 DEF Wake, Local, TypeOK
  <2>2. l.alarm \in Int
    <3>1. (now - th[t].alarm) \div Interval \in Int
        BY <1>0, TimesAreIntegers
    <3> QED
        BY <1>0, <3>1, TimesAreIntegers DEF NextTick, Local
  <2> HIDE DEF l
  <2>3. Timed(l) /\ Occ(l) \in Int /\ ~Busy(t)
      BY <1>0, <1>2, <2>1, <2>2, OccurrenceType DEF Timed, Occ, Busy, BusySteps
  <2>4. faults \subseteq faults' /\ (faults' = {} => Overlap(t) = {})
      BY <1>2, BlameNothing DEF Wake
  <2> QED
      BY <1>0, <1>2, <2>1, <2>3, <2>4, TakesUp
<1> QED
    BY <1>1, <1>2

LEMMA DueOnce ==
    ASSUME SInv, OInv, NEW t \in Threads, Due(t)
    PROVE  OInv'
<1> USE DEF SInv
<1>0. /\ th[t] \in Local /\ row \in Rows /\ row.fired \in Int /\ th[t].step = "due"
      /\ th[t].alarm \in Int /\ th[t].asOf \in Nat
      /\ kind' = kind /\ now' = now /\ done' = done /\ again' = again /\ row' = row
    BY DEF Due, TypeOK, Rows, At, Local
<1>1. CASE /\ Move(t, "enter")
           /\ \/ Blame(Overlap(t) \cup {"unread"})
              \/ (~HasRow \/ row.fired < th[t].alarm) /\ Blame(Overlap(t))
  <2> DEFINE l == [th[t] EXCEPT !.step = "enter"]
  <2>1. /\ th' = [th EXCEPT ![t] = l] /\ l.step = "enter"
        /\ l.call = th[t].call /\ l.alarm = th[t].alarm /\ l.asOf = th[t].asOf
      BY <1>0, <1>1 DEF Move, Local, TypeOK
  <2> HIDE DEF l
  <2>2. Timed(l) /\ Occ(l) \in Int /\ ~Busy(t)
      BY <1>0, <2>1, OccurrenceType DEF OInv, Timed, Occ, Busy, BusySteps
  <2>3. /\ faults \subseteq faults'
        /\ faults' = {} => Overlap(t) = {} /\ (HasRow => row.fired < th[t].alarm)
      BY <1>1, BlameNothing
  <2>4. kind = "daily" => Occ(l) = th[t].alarm
      BY <1>0, <2>1 DEF OInv, Timed, Occ
  <2> QED
      BY <1>0, <2>1, <2>2, <2>3, <2>4, TakesUp
<1>2. CASE Return(t) /\ UNCHANGED faults
    BY <1>0, <1>2, Returns DEF At
<1> QED
    BY <1>1, <1>2 DEF Due

\* A goroutine that is busy with the task goes on to another step of its call.
LEMMA BusyOnce ==
    ASSUME SInv, OInv, NEW t \in Threads, NEW l \in Local, Busy(t), ~At(t, "record"),
           th' = [th EXCEPT ![t] = l], l.step \in BusySteps,
           l.step \in TakenSteps => Taken(t),
           l.call = th[t].call, l.asOf = th[t].asOf, l.alarm = th[t].alarm,
           kind' = kind, now' = now, done' = done, again' = again,
           faults \subseteq faults', row' \in Rows,
           row'.present = row.present, row'.fired = row.fired
    PROVE  OInv'
<1>1. TypeOK /\ row.fired \in Int
    BY DEF SInv, TypeOK, Rows
<1>2. Timed(l) /\ Occ(l) = Occ(th[t])
    BY DEF OInv, Timed, Taken, BusySteps, Occ
<1>3. faults' = {} =>
          /\ HasRow => row'.present /\ row.fired <= row'.fired
          /\ l.step \in BusySteps => Busy(t)
          /\ l.step \in TakenSteps => Taken(t) /\ Occ(l) = Occ(th[t])
          /\ At(t, "record") => \/ l.step = "record" /\ l.at = th[t].at
                                \/ th[t].at <= row'.fired
    BY <1>1, <1>2 DEF HasRow
<1> QED
    BY <1>1, <1>2, <1>3, GoesOn

LEMMA ClaimOnce ==
    ASSUME SInv, OInv, NEW t \in Threads, Enter(t) \/ Claim(t) \/ ClaimFails(t)
    PROVE  OInv'
<1> USE DEF SInv
<1>0. /\ th[t] \in Local /\ row \in Rows /\ th[t].step \in {"enter", "claim"}
      /\ now \in Nat
      /\ kind' = kind /\ now' = now /\ done' = done /\ again' = again
    BY DEF Enter, Claim, ClaimFails, TypeOK, At
<1>1. /\ Claimed(th[t].stamp) \in Rows
      /\ Claimed(th[t].stamp).present = row.present
      /\ Claimed(th[t].stamp).fired = row.fired
    BY <1>0 DEF Claimed, Rows, Local
<1>2. Busy(t) /\ Taken(t) /\ ~At(t, "record")
    BY <1>0 DEF Busy, Taken, BusySteps, TakenSteps, At
<1>3. row' \in {row, Claimed(th[t].stamp)} /\ faults \subseteq faults'
    BY BlameNothing DEF Enter, Claim, ClaimFails
<1>4. row' \in Rows /\ row'.present = row.present /\ row'.fired = row.fired
    BY <1>0, <1>1, <1>3
<1>5. CASE Return(t)
    BY <1>0, <1>2, <1>3, <1>4, <1>5, Returns
<1>6. ASSUME NEW l \in Local, th' = [th EXCEPT ![t] = l], l.step \in {"claim", "run"},
             l.call = th[t].call, l.asOf = th[t].asOf, l.alarm = th[t].alarm
      PROVE  OInv'
    BY <1>0, <1>2, <1>3, <1>4, <1>6, BusyOnce DEF BusySteps
<1>7. CASE Enter(t)
  <2> DEFINE l == [th[t] EXCEPT !.step = "claim", !.stamp = now]
  <2>1. /\ l \in Local /\ th' = [th EXCEPT ![t] = l] /\ l.step = "claim"
        /\ l.call = th[t].call /\ l.asOf = th[t].asOf /\ l.alarm = th[t].alarm
      BY <1>0, <1>7 DEF Enter, Local, TypeOK, Steps
  <2> HIDE DEF l
  <2> QED
      BY <1>6, <2>1
<1>8. CASE Claim(t) /\ ~Return(t)
  <2> DEFINE l == [th[t] EXCEPT !.step = "run", !.tries = 0]
  <2>0. 0 \in 0 .. MaxAttempts - 1 /\ "run" \in Steps
      BY DEF MaxAttempts, Steps
  <2>1. /\ l \in Local /\ l.step = "run"
        /\ l.call = th[t].call /\ l.asOf = th[t].asOf /\ l.alarm = th[t].alarm
      BY <1>0, <2>0 DEF Local
  <2>2. th' = [th EXCEPT ![t] = l]
      BY <1>0, <1>8 DEF Claim, TypeOK
  <2> HIDE DEF l
  <2> QED
      BY <1>6, <2>1, <2>2
<1>9. CASE ClaimFails(t) /\ ~Return(t)
  <2> DEFINE l == [th[t] EXCEPT !.tries = @ + 1]
  <2>1. /\ l \in Local /\ th' = [th EXCEPT ![t] = l] /\ l.step = "claim"
        /\ l.call = th[t].call /\ l.asOf = th[t].asOf /\ l.alarm = th[t].alarm
      BY <1>0, <1>9 DEF ClaimFails, LastTry, Local, TypeOK, At, MaxAttempts
  <2> HIDE DEF l
  <2> QED
      BY <1>6, <2>1
<1> QED
    BY <1>5, <1>7, <1>8, <1>9

LEMMA WritesOnce ==
    ASSUME SInv, OInv, NEW t \in Threads, row' \in Rows,
           \/ EnsureScheduledEventExists(t) \/ RecordSeed(t)
           \/ RecordEventFired(t) \/ ReleaseScheduledEvent(t)
    PROVE  OInv'
<1> USE DEF SInv
<1>0. /\ th[t] \in Local /\ th[t].at \in Int /\ row \in Rows /\ row.fired \in Int
      /\ kind' = kind /\ now' = now /\ done' = done /\ again' = again /\ now \in Nat
    BY DEF EnsureScheduledEventExists, RecordSeed, RecordEventFired,
           ReleaseScheduledEvent, TypeOK, Rows, Local
<1>1. /\ Retried(t).step = th[t].step /\ Retried(t).call = th[t].call
      /\ Retried(t).asOf = th[t].asOf /\ Retried(t).alarm = th[t].alarm
      /\ Retried(t).at = th[t].at
    BY <1>0 DEF Retried, Local
<1>2. Timed(After(t)) /\ After(t).step \in {"idle", "arm", "sleep"}
    BY AfterTimed
<1>3. Timed(Retried(t)) /\ Occ(Retried(t)) = Occ(th[t])
    BY <1>1 DEF OInv, Timed, Occ
<1>4. ASSUME NEW after, NEW then, Write(t, after, then), Timed(then),
             then.step \in {"idle", "arm", "sleep", "look"},
             faults = {} => /\ HasRow => after.present /\ row.fired <= after.fired
                            /\ At(t, "record") => th[t].at <= after.fired
      PROVE  OInv'
  <2>1. PICK l \in {then, Retried(t)} :
             /\ th' = [th EXCEPT ![t] = l]
             /\ faults' = {} => \/ l = then /\ row' = after
                                \/ l = Retried(t) /\ row' = row
      BY <1>4, WriteMoves
  <2>2. faults \subseteq faults'
      BY <1>4, WriteMoves
  <2>3. Timed(l)
      BY <1>3, <1>4
  <2>4. ASSUME faults' = {}, l = then, row' = after
        PROVE  /\ HasRow => row'.present /\ row.fired <= row'.fired
               /\ l.step \notin BusySteps
               /\ At(t, "record") => th[t].at <= row'.fired
      BY <1>4, <2>2, <2>4 DEF BusySteps
  <2>5. ASSUME faults' = {}, l = Retried(t), row' = row
        PROVE  /\ HasRow => row'.present /\ row.fired <= row'.fired
               /\ l.step \in BusySteps => Busy(t)
               /\ l.step \in TakenSteps => Taken(t) /\ Occ(l) = Occ(th[t])
               /\ At(t, "record") => l.step = "record" /\ l.at = th[t].at
      BY <1>0, <1>1, <1>3, <2>5 DEF HasRow, Busy, Taken, At
  <2>6. faults' = {} =>
            /\ HasRow => row'.present /\ row.fired <= row'.fired
            /\ l.step \in BusySteps => Busy(t)
            /\ l.step \in TakenSteps => Taken(t) /\ Occ(l) = Occ(th[t])
            /\ At(t, "record") => \/ l.step = "record" /\ l.at = th[t].at
                                  \/ th[t].at <= row'.fired
      BY <2>1, <2>4, <2>5 DEF BusySteps, TakenSteps
  <2> QED
      BY <1>0, <2>1, <2>2, <2>3, <2>6, GoesOn
<1>5. CASE EnsureScheduledEventExists(t)
  <2> DEFINE then == IF Webhook(t) THEN Fresh("idle")
                     ELSE [Fresh("look") EXCEPT !.call = "missed", !.asOf = now]
  <2>1. Write(t, Ensured, then) /\ ~At(t, "record")
      BY <1>5 DEF EnsureScheduledEventExists, At
  <2>2. /\ then.step \in {"idle", "look"}
        /\ then.step = "look" => then.call = "missed" /\ then.asOf = now
      BY DEF Fresh
  <2> HIDE DEF then
  <2>3. Timed(then)
      BY <1>0, <2>2 DEF Timed, TakenSteps
  <2>4. HasRow => Ensured = row
      BY DEF Ensured
  <2> QED
      BY <1>0, <1>4, <2>1, <2>2, <2>3, <2>4 DEF HasRow
<1>6. CASE RecordSeed(t)
  <2>1. faults # {}
      BY <1>6 DEF RecordSeed, Leased, Sound
  <2> QED
      BY <1>2, <1>4, <1>6, <2>1 DEF RecordSeed
<1>7. CASE RecordEventFired(t)
  <2>1. faults = {} => row.fired <= th[t].at
      BY <1>7 DEF RecordEventFired, FiredPast, Sound
  <2>2. Upserted(th[t].at).present /\ Upserted(th[t].at).fired = th[t].at
      BY DEF Upserted
  <2> QED
      BY <1>0, <1>2, <1>4, <1>7, <2>1, <2>2 DEF RecordEventFired
<1>8. CASE ReleaseScheduledEvent(t)
  <2>1. Released.present = row.present /\ Released.fired = row.fired
      BY <1>0 DEF Released, Rows
  <2>2. ~At(t, "record")
      BY <1>8 DEF ReleaseScheduledEvent, At
  <2> QED
      BY <1>0, <1>2, <1>4, <1>8, <2>1, <2>2 DEF ReleaseScheduledEvent, HasRow
<1> QED
    BY <1>5, <1>6, <1>7, <1>8

LEMMA ProceedOnce ==
    ASSUME SInv, OInv, NEW t \in Threads, Proceed(t)
    PROVE  OInv'
<1>0. TypeOK /\ row' \in Rows /\ th[t] \in Local /\ row \in Rows
    BY ProceedType DEF SInv, TypeOK
<1>1. CASE TriggerScheduledEvents(t)
  <2> DEFINE l == [Fresh("look") EXCEPT !.call = "missed", !.asOf = now]
  <2>1. /\ th' = [th EXCEPT ![t] = l] /\ l.step = "look" /\ l.call = "missed" /\ l.asOf = now
      BY <1>1 DEF TriggerScheduledEvents, Fresh
  <2> HIDE DEF l
  <2>2. Timed(l)
      BY <1>0, <2>1 DEF Timed, TakenSteps, TypeOK
  <2>3. faults \subseteq faults' /\ ~At(t, "record") /\ row.fired \in Int
        /\ row' = row /\ kind' = kind /\ now' = now /\ done' = done /\ again' = again
      BY <1>0, <1>1, BlameNothing DEF TriggerScheduledEvents, At, Rows
  <2>4. l.step \notin BusySteps
      BY <2>1 DEF BusySteps
  <2> QED
      BY <1>0, <2>1, <2>2, <2>3, <2>4, StandsBy
<1>2. CASE RunPanics(t)
  <2> DEFINE l == [th[t] EXCEPT !.step = "release"]
  <2>1. /\ l \in Local /\ th' = [th EXCEPT ![t] = l] /\ l.step = "release"
        /\ l.call = th[t].call /\ l.asOf = th[t].asOf /\ l.alarm = th[t].alarm
      BY <1>0, <1>2 DEF RunPanics, Move, TypeOK, Local, Steps
  <2> HIDE DEF l
  <2>2. /\ Busy(t) /\ ~At(t, "record") /\ row' = row /\ kind' = kind /\ now' = now
        /\ done' = done /\ again' = again /\ faults' = faults
      BY <1>2 DEF RunPanics, Busy, BusySteps, At
  <2> QED
      BY <1>0, <2>1, <2>2, BusyOnce DEF BusySteps, TakenSteps
<1> QED
    BY <1>0, <1>1, <1>2, WritesOnce, LookOnce, ArmOnce, WakeOnce, DueOnce, ClaimOnce,
       RunDoneKeeps DEF Proceed

-----------------------------------------------------------------------------
(* The invariant                                                           *)

LEMMA RestartOnce ==
    ASSUME SInv, OInv, NEW i \in Instances, Restart(i)
    PROVE  OInv'
<1>1. /\ row' = row /\ kind' = kind /\ now' = now /\ done' = done /\ again' = again
      /\ th' = [t \in Threads |-> IF Home[t] = i THEN Reborn(t) ELSE th[t]]
      /\ faults \subseteq faults'
      /\ faults' = {} => \A t \in Threads : Home[t] = i => ~Holder(t)
    BY DEF Restart, Blame
<1>2. ASSUME NEW t \in Threads
      PROVE  \/ th'[t] = th[t]
             \/ th'[t].step \in {"off", "idle"} /\ Home[t] = i
    BY <1>1 DEF Reborn, Fresh
<1>3. \A t \in Threads : Timed(th[t])'
    BY <1>1, <1>2 DEF OInv, Timed, TakenSteps
<1>4. \A t \in Threads : /\ Busy(t)' => Busy(t) /\ th'[t] = th[t]
                         /\ Taken(t)' => Taken(t) /\ th'[t] = th[t]
    BY <1>2 DEF Busy, Taken, BusySteps, TakenSteps
<1>5. ASSUME faults' = {}, NEW t \in Threads, At(t, "record")
      PROVE  At(t, "record")' /\ th'[t] = th[t]
    BY <1>1, <1>2, <1>5 DEF At, Holder
<1>6. faults' = {} => OneBusy'
    BY <1>1, <1>4 DEF OInv, OneBusy
<1>7. ASSUME faults' = {} PROVE NoneTwice'
  <2>1. NoneTwice
      BY <1>1, <1>7 DEF OInv
  <2>2. ASSUME kind = "daily", NEW o \in done PROVE Recorded(o)'
      BY <1>1, <1>5, <1>7, <2>1, <2>2 DEF NoneTwice, Recorded
  <2>3. ASSUME kind = "daily", NEW o \in done, NEW t \in Threads, Taken(t)'
        PROVE  Occ(th'[t]) # o
      BY <1>4, <2>1, <2>3 DEF NoneTwice
  <2> QED
      BY <1>1, <2>1, <2>2, <2>3 DEF NoneTwice, HasRow, Occ, MostRecent, TodayOccurrence
<1> QED
    BY <1>1, <1>3, <1>6, <1>7 DEF OInv

LEMMA TickOnce ==
    ASSUME SInv, OInv, Tick
    PROVE  OInv'
<1>1. /\ now' = now + 1 /\ now \in Nat /\ row' = row /\ th' = th /\ kind' = kind
      /\ done' = done /\ again' = again /\ faults \subseteq faults'
    BY DEF Tick, Blame, SInv, TypeOK
<1>2. ASSUME NEW t \in Threads PROVE Timed(th[t])'
  <2>1. th[t].asOf \in Nat /\ th[t].alarm \in Int
      BY DEF SInv, TypeOK, Local
  <2> QED
      BY <1>1, <2>1 DEF OInv, Timed
<1>3. faults' = {} => OneBusy' /\ NoneTwice'
    BY <1>1 DEF OInv, OneBusy, NoneTwice, Busy, Taken, Recorded, HasRow, At, Occ,
                MostRecent, TodayOccurrence
<1> QED
    BY <1>1, <1>2, <1>3 DEF OInv

LEMMA InitOnce == Init => OInv
<1> SUFFICES ASSUME Init PROVE OInv
    OBVIOUS
<1>1. \A t \in Threads : th[t].step \in {"off", "idle"}
    BY DEF Init, Reborn, Fresh
<1> QED
    BY <1>1 DEF Init, OInv, Timed, OneBusy, NoneTwice, Busy, Taken, BusySteps, TakenSteps

LEMMA NextOnce == SInv /\ OInv /\ [Next]_vars => OInv'
<1> SUFFICES ASSUME SInv, OInv, [Next]_vars PROVE OInv'
    OBVIOUS
<1>1. CASE PruneScheduledEvents
  <2>1. /\ now' = now /\ th' = th /\ kind' = kind /\ done' = done /\ again' = again
        /\ faults' # {}
      BY <1>1 DEF PruneScheduledEvents, Blame
  <2> QED
      BY <2>1 DEF OInv, Timed
<1>2. CASE UNCHANGED vars
    BY <1>2 DEF vars, OInv, Timed, OneBusy, NoneTwice, Busy, Taken, Recorded, HasRow, At,
                Occ, MostRecent, TodayOccurrence
<1> QED
    BY <1>1, <1>2, ProceedOnce, RestartOnce, TickOnce DEF Next

\* For any number of instances and goroutines and any periods: while nothing fails and no
\* goroutine looks at the task as another is busy with it, no mixture of start-ups, missed-event
\* checks, triggers and timers runs an occurrence of a daily task twice.
\* (checkMissedEvents, runScheduledTask, executeWithLock)
THEOREM OncePerDay == Spec => []OnceUnlessOverlapping
<1>1. Init => SInv /\ OInv
    BY InitSInv, InitOnce
<1>2. (SInv /\ OInv) /\ [Next]_vars => (SInv /\ OInv)'
    BY NextSInv, NextOnce
<1>3. SInv /\ OInv => OnceUnlessOverlapping
    BY DEF OInv, NoneTwice, OnceUnlessOverlapping
<1> QED
    BY <1>1, <1>2, <1>3, PTL DEF Spec
=============================================================================
