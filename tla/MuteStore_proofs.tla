--------------------------- MODULE MuteStore_proofs ---------------------------
(***************************************************************************)
(* Safety of the mute store for every number of keys, goroutines and bot   *)
(* processes.  The argument follows one mute's identity: at any time it is *)
(* in at most one place, namely in an Add that has not committed, in the   *)
(* table, in the hands of the call that removed it, or reported.           *)
(*                                                                         *)
(* The second part is about the cache: while the calls of a process follow *)
(* each other, it differs from the table by what the one call under way    *)
(* has changed in the table and not yet in the cache.  The third is about  *)
(* the flag that an unmute returns.                                        *)
(***************************************************************************)
EXTENDS MuteStore, TLAPS

-----------------------------------------------------------------------------
(* The inductive invariant                                                 *)

Pending(t) == At(t, {"Add"}, "tx")

\* Rows carry identities that were issued, each at most once.
RowsIssued ==
    /\ \A r \in rows : r.id \in Ids /\ r.id < nextId
    /\ \A r, s \in rows : r.id = s.id => r = s

\* An Add's identity is its own until the transaction commits.
PendingOwned ==
    \A t \in Threads : Pending(t) =>
        /\ th[t].rec.id \in Ids
        /\ th[t].rec.id < nextId
        /\ th[t].rec.id \notin IdsOf(rows)
        /\ credited[th[t].rec.id] = 0
        /\ \A u \in Threads : th[t].rec.id \notin th[u].taken
        /\ \A u \in Threads : Pending(u) /\ th[u].rec.id = th[t].rec.id
                                 => u = t

\* What a call has removed is gone, held by no other call, not yet reported.
TakenOwned ==
    \A t \in Threads : \A id \in th[t].taken :
        /\ id < nextId
        /\ id \notin IdsOf(rows)
        /\ credited[id] = 0
        /\ \A u \in Threads : id \in th[u].taken => u = t

\* Only issued identities are reported.
CreditIssued == \A id \in Ids : credited[id] > 0 => id < nextId

Owned == /\ RowsIssued
         /\ PendingOwned
         /\ TakenOwned
         /\ CreditIssued
         /\ LiftReportedOnce

\* A lookup's query uses a reading of the clock that lies in the past.
AsOfPast == \A t \in Threads : th[t].asOf <= now

IInv == TypeOK /\ OneRecordPerKey /\ Owned /\ AsOfPast

-----------------------------------------------------------------------------
(* Values                                                                  *)

\* A goroutine between calls has well-typed locals.
LEMMA OutsideType ==
    \A a \in Answers : Outside(a) \in Local
<1> SUFFICES ASSUME NEW a \in Answers PROVE Outside(a) \in Local
    OBVIOUS
<1>1. AnyKey \in Keys
    BY KeysAssumption DEF AnyKey
<1>2. OnlyKey(AnyKey) \in Record
    BY <1>1, BoundsAssumption DEF OnlyKey, Record
<1> QED
    BY <1>2 DEF Outside, Local, Calls, Steps, MaxAttempts

\* A lookup key stands for a record that is not in the table.
LEMMA OnlyKeyType ==
    \A k \in Keys : OnlyKey(k) \in Record
BY BoundsAssumption DEF OnlyKey, Record

\* Removing the records of a key keeps the others, with their identities.
LEMMA IdsOfSubset ==
    ASSUME NEW S, NEW T \in SUBSET S
    PROVE  IdsOf(T) \subseteq IdsOf(S)
BY DEF IdsOf

-----------------------------------------------------------------------------
(* Type correctness                                                        *)

\* The shapes th takes: a return, a next step, and the next key of a round.
LEMMA LocalSteps ==
    ASSUME TypeOK, NEW t \in Threads
    PROVE  /\ \A s \in Steps : [th EXCEPT ![t].step = s] \in [Threads -> Local]
           /\ \A a \in Answers : [th EXCEPT ![t] = Outside(a)]
                                     \in [Threads -> Local]
           /\ LiftNext(t) => th' \in [Threads -> Local]
<1>1. \A s \in Steps : [th EXCEPT ![t].step = s] \in [Threads -> Local]
    BY DEF TypeOK, Local
<1>2. \A a \in Answers : [th EXCEPT ![t] = Outside(a)] \in [Threads -> Local]
    BY OutsideType DEF TypeOK
<1>3. ASSUME LiftNext(t) PROVE th' \in [Threads -> Local]
  <2>1. CASE th[t].todo = {} /\ Return(t, "none")
      BY <2>1, <1>2 DEF Return, Answers
  <2>2. ASSUME NEW k \in th[t].todo,
               th' = [th EXCEPT ![t] = [Outside("none") EXCEPT
                         !.call = "Expire", !.step = "exec",
                         !.rec = OnlyKey(k), !.todo = th[t].todo \ {k}]]
        PROVE  th' \in [Threads -> Local]
    <3>1. th[t] \in Local
        BY DEF TypeOK
    <3>2. k \in Keys /\ th[t].todo \ {k} \in SUBSET Keys
        BY <3>1 DEF Local
    <3>3. Outside("none") \in Local
        BY OutsideType DEF Answers
    <3>4. OnlyKey(k) \in Record
        BY <3>2, OnlyKeyType
    <3>5. [Outside("none") EXCEPT !.call = "Expire", !.step = "exec",
             !.rec = OnlyKey(k), !.todo = th[t].todo \ {k}] \in Local
        BY <3>2, <3>3, <3>4 DEF Local, Calls, Steps
    <3> QED
        BY <2>2, <3>5 DEF TypeOK
  <2> QED
      BY <1>3, <2>1, <2>2 DEF LiftNext
<1> QED
    BY <1>1, <1>2, <1>3

\* A set of rows has a set of issued identities.
LEMMA RowIdsType ==
    ASSUME RowsIssued, NEW S \in SUBSET rows
    PROVE  IdsOf(S) \in SUBSET Ids
BY DEF RowsIssued, IdsOf

\* Dying with the process keeps every type.
LEMMA RebornType ==
    ASSUME TypeOK, NEW i \in Instances, Reborn(i)
    PROVE  TypeOK'
<1>1. th' \in [Threads -> Local]
    BY OutsideType DEF TypeOK, Reborn, Answers
<1>2. cache' \in [Instances -> SUBSET Record]
    BY DEF TypeOK, Reborn, Live
<1> QED
    BY <1>1, <1>2 DEF TypeOK, Reborn

\* A panic on the nil map keeps every type.
LEMMA NilMapPanicType ==
    ASSUME TypeOK, NEW t \in Threads, NilMapPanic(t)
    PROVE  TypeOK'
<1>1. Home[t] \in Instances
    BY HomeAssumption
<1>2. CASE t \in Recovering
    BY <1>2, LocalSteps DEF NilMapPanic, Return, TypeOK, Answers
<1>3. CASE t \notin Recovering
    BY <1>1, <1>3, RebornType DEF NilMapPanic
<1> QED
    BY <1>2, <1>3

\* The start of a call keeps every type.
LEMMA BeginType ==
    ASSUME TypeOK, NEW t \in Threads, Begin(t)
    PROVE  TypeOK'
<1>1. ASSUME NEW c \in Calls, NEW s \in Steps, NEW r \in Record,
             Enter(t, c, s, r)
      PROVE  /\ th' \in [Threads -> Local]
             /\ disturbed' \in [Instances -> BOOLEAN]
  <2>1. [Outside("none") EXCEPT !.call = c, !.step = s, !.rec = r] \in Local
      BY OutsideType DEF Local, Answers
  <2>2. th' \in [Threads -> Local]
      BY <1>1, <2>1 DEF Enter, TypeOK
  <2>3. disturbed' \in [Instances -> BOOLEAN]
      BY <1>1 DEF Enter, TypeOK
  <2> QED
      BY <2>2, <2>3
<1>2. ASSUME NEW k \in Keys, NEW u \in 1 .. MaxTime + 1, BeginAdd(t, k, u)
      PROVE  TypeOK'
  <2>1. [key |-> k, id |-> nextId, until |-> u] \in Record
      BY <1>2, BoundsAssumption DEF BeginAdd, Record, TypeOK
  <2>2. th' \in [Threads -> Local] /\ disturbed' \in [Instances -> BOOLEAN]
      BY <1>1, <1>2, <2>1 DEF BeginAdd, Calls, Steps
  <2>3. nextId' \in 1 .. MaxMutes + 1
      BY <1>2, BoundsAssumption DEF BeginAdd, TypeOK
  <2> QED
      BY <1>2, <2>2, <2>3 DEF BeginAdd, TypeOK
<1>3. ASSUME NEW k \in Keys, BeginGet(t, k)
      PROVE  TypeOK'
  <2>1. th' \in [Threads -> Local] /\ disturbed' \in [Instances -> BOOLEAN]
      BY <1>1, <1>3, OnlyKeyType DEF BeginGet, Calls, Steps
  <2> QED
      BY <1>3, <2>1 DEF BeginGet, TypeOK
<1>4. ASSUME NEW k \in Keys, BeginUnmute(t, k)
      PROVE  TypeOK'
  <2>1. th' \in [Threads -> Local] /\ disturbed' \in [Instances -> BOOLEAN]
      BY <1>1, <1>4, OnlyKeyType DEF BeginUnmute, Calls, Steps
  <2> QED
      BY <1>4, <2>1 DEF BeginUnmute, TypeOK
<1>5. ASSUME NEW c \in {"List", "Expire"}, BeginScan(t, c)
      PROVE  TypeOK'
  <2>1. OnlyKey(AnyKey) \in Record
      BY OnlyKeyType, KeysAssumption DEF AnyKey
  <2>2. th' \in [Threads -> Local] /\ disturbed' \in [Instances -> BOOLEAN]
      BY <1>1, <1>5, <2>1 DEF BeginScan, Calls, Steps
  <2> QED
      BY <1>5, <2>2 DEF BeginScan, TypeOK
<1> QED
    BY <1>2, <1>3, <1>4, <1>5 DEF Begin

\* Every step of a call keeps every type.
LEMMA ProceedType ==
    ASSUME TypeOK, RowsIssued, NEW t \in Threads, Proceed(t)
    PROVE  TypeOK'
<1> USE LocalSteps
<1> DEFINE i == Home[t]
<1>0. i \in Instances /\ th[t] \in Local
    BY HomeAssumption DEF TypeOK
<1>1. CASE CheckLoaded(t)
    BY <1>1 DEF CheckLoaded, Goto, TypeOK, Steps
<1>2. CASE LoadQuery(t)
  <2>1. PICK S \in SUBSET Live(rows, now) :
           /\ th' = [th EXCEPT ![t].step = "publish", ![t].snap = S]
           /\ disturbed' = [disturbed EXCEPT ![Home[t]] =
                              @ \/ S # Live(rows, now)]
      BY <1>2 DEF LoadQuery
  <2>2. S \in SUBSET Record
      BY <2>1 DEF Live, TypeOK
  <2>3. th' \in [Threads -> Local]
      BY <2>1, <2>2, <1>0 DEF TypeOK, Local, Steps
  <2>4. disturbed' \in [Instances -> BOOLEAN]
      BY <2>1 DEF TypeOK
  <2> QED
      BY <1>2, <2>3, <2>4 DEF LoadQuery, TypeOK
<1>3. CASE LoadFails(t)
    BY <1>3 DEF LoadFails, Goto, TypeOK, Steps
<1>4. CASE LoadPublish(t)
  <2>1. th' \in [Threads -> Local]
      BY <1>4, <1>0 DEF LoadPublish, TypeOK, Local, Steps
  <2>2. cache' \in [Instances -> SUBSET Record]
      BY <1>4, <1>0 DEF LoadPublish, CacheWrite, TypeOK, Local
  <2> QED
      BY <1>4, <2>1, <2>2 DEF LoadPublish, TypeOK
<1> DEFINE rec == th[t].rec
<1>5. rec \in Record
    BY <1>0 DEF Local
<1>6. Replaced(rec) \subseteq Record
    BY <1>5 DEF Replaced, OfKey, TypeOK
<1>7. CASE AddCommit(t)
    BY <1>7, <1>6 DEF AddCommit, Goto, DisturbOthers, TypeOK, Steps
<1>8. CASE AddFails(t)
    BY <1>8, <1>6 DEF AddFails, Return, DisturbAll, TypeOK, Answers
<1>9. Put(cache[i], rec) \subseteq Record
    BY <1>0, <1>5 DEF Put, TypeOK
<1>10. CASE AddUse(t)
  <2>1. CASE loaded[Home[t]]
      BY <1>10, <1>9, <1>0, <2>1 DEF AddUse, CacheWrite, Return, TypeOK, Answers
  <2>2. CASE ~loaded[Home[t]]
      BY <1>10, <2>2, NilMapPanicType DEF AddUse
  <2> QED
      BY <2>1, <2>2
<1>11. CASE GetUse(t)
  <2>1. th' \in [Threads -> Local]
    <3>1. CASE Return(t, "muted")
        BY <3>1 DEF Return, Answers
    <3>2. CASE th' = [th EXCEPT ![t].step = "ask", ![t].asOf = now]
        BY <3>2, <1>0 DEF TypeOK, Local, Steps
    <3> QED
        BY <1>11, <3>1, <3>2 DEF GetUse
  <2> QED
      BY <1>11, <2>1 DEF GetUse, TypeOK
<1>12. CASE GetAsk(t)
  <2>1. th' \in [Threads -> Local]
    <3>1. ASSUME NEW r \in Live(OfKey(rows, rec.key), th[t].asOf),
                 th' = [th EXCEPT ![t].step = "backfill", ![t].rec = r]
          PROVE  th' \in [Threads -> Local]
      <4>1. r \in Record
          BY DEF Live, OfKey, TypeOK
      <4> QED
          BY <3>1, <4>1, <1>0 DEF TypeOK, Local, Steps
    <3>2. CASE Return(t, "unmuted") \/ Return(t, "error")
        BY <3>2 DEF Return, Answers
    <3> QED
        BY <1>12, <3>1, <3>2 DEF GetAsk
  <2> QED
      BY <1>12, <2>1 DEF GetAsk, TypeOK
<1>13. CASE GetBackfill(t)
  <2>1. CASE loaded[Home[t]]
      BY <1>13, <1>9, <1>0, <2>1 DEF GetBackfill, CacheWrite, Return, TypeOK,
                                     Answers
  <2>2. CASE ~loaded[Home[t]]
      BY <1>13, <2>2, NilMapPanicType DEF GetBackfill
  <2> QED
      BY <2>1, <2>2
<1> DEFINE hit == OfKey(rows, th[t].rec.key)
<1>14. IdsOf(hit) \subseteq Ids /\ rows \ hit \subseteq Record
    BY RowIdsType DEF OfKey, TypeOK
<1>15. CASE LiftExec(t)
  <2>1. th' \in [Threads -> Local]
      BY <1>15, <1>0, <1>14 DEF LiftExec, TypeOK, Local, Steps
  <2> QED
      BY <1>15, <1>14, <2>1 DEF LiftExec, DisturbOthers, TypeOK
<1>16. CASE LiftTransient(t)
  <2>1. PICK lost \in BOOLEAN :
          /\ rows' = IF lost THEN rows \ hit ELSE rows
          /\ IF lost THEN DisturbAll ELSE UNCHANGED disturbed
          /\ IF LastTry(t)
             THEN LiftNext(t)
             ELSE th' = [th EXCEPT ![t].tries = @ + 1,
                    ![t].gone = IF lost THEN @ \cup IdsOf(hit) ELSE @]
      BY <1>16 DEF LiftTransient
  <2>2. th' \in [Threads -> Local]
    <3>1. CASE LastTry(t)
        BY <2>1, <3>1
    <3>2. CASE ~LastTry(t)
      <4>1. th[t].tries + 1 \in 0 .. MaxAttempts - 1
          BY <3>2, <1>0 DEF LastTry, Local, MaxAttempts
      <4>2. th' = [th EXCEPT ![t].tries = th[t].tries + 1, ![t].gone =
                      IF lost THEN th[t].gone \cup IdsOf(hit) ELSE th[t].gone]
          BY <2>1, <3>2
      <4>3. (IF lost THEN th[t].gone \cup IdsOf(hit) ELSE th[t].gone)
               \in SUBSET Ids
          BY <1>0, <1>14 DEF Local
      <4> HIDE DEF hit
      <4> QED
          BY <4>1, <4>2, <4>3, <1>0 DEF TypeOK, Local
    <3> QED
        BY <3>1, <3>2
  <2>3. rows' \subseteq Record /\ disturbed' \in [Instances -> BOOLEAN]
      BY <2>1, <1>14 DEF TypeOK, DisturbAll
  <2> QED
      BY <1>16, <2>2, <2>3 DEF LiftTransient, TypeOK
<1>17. CASE LiftFails(t)
    BY <1>17 DEF LiftFails, TypeOK
<1>18. CASE LiftForget(t)
  <2>1. credited' \in [Ids -> Nat]
      BY <1>18 DEF LiftForget, TypeOK
  <2>2. cache' \in [Instances -> SUBSET Record]
      BY <1>18, <1>0 DEF LiftForget, CacheWrite, TypeOK
  <2> QED
      BY <1>18, <2>1, <2>2 DEF LiftForget, TypeOK
<1>19. CASE ListUse(t)
    BY <1>19 DEF ListUse, Return, TypeOK, Answers
<1>20. CASE ExpireUse(t)
  <2> DEFINE keys == {r.key : r \in Expired(Home[t])}
  <2>1. keys \subseteq Keys
      BY <1>0 DEF Expired, TypeOK, Record
  <2>2. th' \in [Threads -> Local]
    <3>1. CASE Return(t, "none")
        BY <3>1 DEF Return, Answers
    <3>2. ASSUME NEW k \in keys,
                 th' = [th EXCEPT ![t].step = "exec", ![t].rec = OnlyKey(k),
                                  ![t].todo = keys \ {k}]
          PROVE  th' \in [Threads -> Local]
      <4>1. OnlyKey(k) \in Record /\ keys \ {k} \in SUBSET Keys
          BY <2>1, OnlyKeyType
      <4> HIDE DEF keys
      <4> QED
          BY <3>2, <4>1, <1>0 DEF TypeOK, Local, Steps
    <3> QED
        BY <1>20, <3>1, <3>2 DEF ExpireUse
  <2> QED
      BY <1>20, <2>2 DEF ExpireUse, TypeOK
<1> QED
    BY <1>1, <1>2, <1>3, <1>4, <1>7, <1>8, <1>10, <1>11, <1>12, <1>13, <1>15,
       <1>16, <1>17, <1>18, <1>19, <1>20 DEF Proceed

-----------------------------------------------------------------------------
(* Identities                                                              *)

\* A step that at most removes rows, holdings and pending transactions.
Quiet ==
    /\ rows' \subseteq rows
    /\ nextId' = nextId
    /\ credited' = credited
    /\ \A u \in Threads :
          /\ th'[u].taken \subseteq th[u].taken
          /\ Pending(u)' => Pending(u) /\ th'[u].rec = th[u].rec

\* Such a step leaves every identity in at most one place.
LEMMA QuietKeeps ==
    ASSUME OneRecordPerKey, Owned, Quiet
    PROVE  OneRecordPerKey' /\ Owned'
<1>1. OneRecordPerKey' /\ RowsIssued'
    BY DEF OneRecordPerKey, Owned, RowsIssued, Quiet, Ids
<1>2. IdsOf(rows)' \subseteq IdsOf(rows)
    BY DEF Quiet, IdsOf
<1>3. PendingOwned'
    BY <1>2 DEF PendingOwned, Owned, Quiet, Ids
<1>4. TakenOwned'
    BY <1>2 DEF TakenOwned, Owned, Quiet, Ids
<1>5. CreditIssued' /\ LiftReportedOnce'
    BY <1>2 DEF CreditIssued, LiftReportedOnce, Owned, Quiet, Ids
<1> QED
    BY <1>1, <1>3, <1>4, <1>5 DEF Owned

\* What one goroutine's step does to th alone.
LEMMA OneMoves ==
    ASSUME TypeOK, NEW t \in Threads, NEW l,
           th' = [th EXCEPT ![t] = l]
    PROVE  /\ th'[t] = l
           /\ \A u \in Threads \ {t} : th'[u] = th[u]
BY DEF TypeOK

\* A goroutine outside the store holds nothing.
LEMMA OutsideHolds ==
    \A a : /\ Outside(a).taken = {}
           /\ Outside(a).call = "none"
           /\ Outside(a).asOf = 0
BY DEF Outside

\* A call that returns or goes on to its next key lets its holdings go.
LEMMA LiftNextHolds ==
    ASSUME TypeOK, NEW t \in Threads, LiftNext(t)
    PROVE  /\ th'[t].taken = {} /\ th'[t].call # "Add" /\ th'[t].asOf = 0
           /\ \A u \in Threads \ {t} : th'[u] = th[u]
<1>1. CASE th[t].todo = {} /\ Return(t, "none")
    BY <1>1, OneMoves, OutsideHolds DEF Return
<1>2. ASSUME NEW k \in th[t].todo,
             th' = [th EXCEPT ![t] = [Outside("none") EXCEPT
                       !.call = "Expire", !.step = "exec",
                       !.rec = OnlyKey(k), !.todo = th[t].todo \ {k}]]
      PROVE  /\ th'[t].taken = {} /\ th'[t].call # "Add" /\ th'[t].asOf = 0
             /\ \A u \in Threads \ {t} : th'[u] = th[u]
    BY <1>2 DEF TypeOK, Outside
<1> QED
    BY <1>1, <1>2 DEF LiftNext

\* A restart is quiet: what its goroutines were doing is lost.
LEMMA RebornQuiet ==
    ASSUME TypeOK, NEW i \in Instances, Reborn(i)
    PROVE  Quiet
BY OutsideHolds DEF Reborn, Quiet, Pending, At, TypeOK

LEMMA NilMapPanicQuiet ==
    ASSUME TypeOK, NEW t \in Threads, NilMapPanic(t)
    PROVE  Quiet
<1>1. CASE t \in Recovering
    BY <1>1, OutsideHolds, OneMoves DEF NilMapPanic, Return, Quiet, Pending, At
<1>2. CASE t \notin Recovering
    BY <1>2, RebornQuiet, HomeAssumption DEF NilMapPanic
<1> QED
    BY <1>1, <1>2

\* The steps of a call that touch no identity.
LEMMA OtherStepsQuiet ==
    ASSUME TypeOK, NEW t \in Threads,
           \/ CheckLoaded(t) \/ LoadQuery(t) \/ LoadFails(t)
           \/ LoadPublish(t) \/ AddUse(t) \/ GetUse(t) \/ GetAsk(t)
           \/ GetBackfill(t) \/ LiftTransient(t) \/ LiftFails(t)
           \/ ListUse(t) \/ ExpireUse(t)
    PROVE  Quiet
<1> USE DEF Quiet, Pending, At
<1>1. CASE CheckLoaded(t) \/ LoadFails(t)
    BY <1>1 DEF CheckLoaded, LoadFails, Goto, TypeOK, Local
<1>2. CASE LoadQuery(t)
  <2>1. PICK S : th' = [th EXCEPT ![t].step = "publish", ![t].snap = S]
      BY <1>2 DEF LoadQuery
  <2>2. rows' = rows /\ nextId' = nextId /\ credited' = credited
      BY <1>2 DEF LoadQuery
  <2> QED
      BY <2>1, <2>2 DEF TypeOK, Local
<1>3. CASE LoadPublish(t)
    BY <1>3 DEF LoadPublish, TypeOK, Local
<1>4. CASE AddUse(t)
  <2>1. CASE loaded[Home[t]]
      BY <1>4, <2>1, OutsideHolds, OneMoves DEF AddUse, Return
  <2> QED
      BY <1>4, <2>1, NilMapPanicQuiet DEF AddUse
<1>5. CASE GetUse(t)
  <2>1. CASE Return(t, "muted")
      BY <1>5, <2>1, OutsideHolds, OneMoves DEF GetUse, Return
  <2>2. CASE th' = [th EXCEPT ![t].step = "ask", ![t].asOf = now]
      BY <1>5, <2>2 DEF GetUse, TypeOK, Local
  <2> QED
      BY <1>5, <2>1, <2>2 DEF GetUse
<1>6. CASE GetAsk(t)
  <2>1. CASE Return(t, "unmuted") \/ Return(t, "error")
      BY <1>6, <2>1, OutsideHolds, OneMoves DEF GetAsk, Return
  <2>2. ASSUME NEW r,
               th' = [th EXCEPT ![t].step = "backfill", ![t].rec = r]
        PROVE  Quiet
      BY <1>6, <2>2 DEF GetAsk, TypeOK, Local
  <2> QED
      BY <1>6, <2>1, <2>2 DEF GetAsk
<1>7. CASE GetBackfill(t)
  <2>1. CASE loaded[Home[t]]
      BY <1>7, <2>1, OutsideHolds, OneMoves DEF GetBackfill, Return
  <2> QED
      BY <1>7, <2>1, NilMapPanicQuiet DEF GetBackfill
<1>8. CASE LiftTransient(t)
  <2>1. rows' \subseteq rows /\ nextId' = nextId /\ credited' = credited
      BY <1>8 DEF LiftTransient
  <2>2. CASE LiftNext(t)
      BY <2>1, <2>2, LiftNextHolds
  <2>3. ASSUME NEW n, NEW g,
               th' = [th EXCEPT ![t].tries = n, ![t].gone = g]
        PROVE  Quiet
      BY <2>1, <2>3 DEF TypeOK, Local
  <2> QED
      BY <1>8, <2>2, <2>3 DEF LiftTransient
<1>9. CASE LiftFails(t)
    BY <1>9, LiftNextHolds DEF LiftFails
<1>10. CASE ListUse(t)
    BY <1>10, OutsideHolds, OneMoves DEF ListUse, Return
<1>11. CASE ExpireUse(t)
  <2>1. rows' = rows /\ nextId' = nextId /\ credited' = credited
      BY <1>11 DEF ExpireUse
  <2>2. CASE Return(t, "none")
      BY <2>1, <2>2, OutsideHolds, OneMoves DEF Return
  <2>3. ASSUME NEW k, NEW d,
               th' = [th EXCEPT ![t].step = "exec", ![t].rec = OnlyKey(k),
                                ![t].todo = d]
        PROVE  Quiet
      BY <2>1, <2>3 DEF TypeOK, Local
  <2>4. \/ Return(t, "none")
        \/ \E k, d : th' = [th EXCEPT ![t].step = "exec",
                                      ![t].rec = OnlyKey(k), ![t].todo = d]
      BY <1>11 DEF ExpireUse
  <2> QED
      BY <2>2, <2>3, <2>4
<1> QED
    BY <1>1, <1>2, <1>3, <1>4, <1>5, <1>6, <1>7, <1>8, <1>9, <1>10, <1>11

\* The start of a call: an Add takes an identity nobody has had.
LEMMA BeginOwned ==
    ASSUME TypeOK, OneRecordPerKey, Owned, NEW t \in Threads, Begin(t)
    PROVE  OneRecordPerKey' /\ Owned'
<1>1. ASSUME NEW c, c # "Add", NEW s, NEW r, Enter(t, c, s, r),
             rows' = rows /\ nextId' = nextId /\ credited' = credited
      PROVE  Quiet
  <2>1. th'[t].taken = {} /\ th'[t].call = c
      BY <1>1 DEF Enter, TypeOK, Outside
  <2>2. \A u \in Threads \ {t} : th'[u] = th[u]
      BY <1>1 DEF Enter, TypeOK
  <2> QED
      BY <1>1, <2>1, <2>2 DEF Quiet, Pending, At
<1>2. ASSUME NEW k \in Keys,
             \/ BeginGet(t, k) \/ BeginUnmute(t, k)
             \/ \E c \in {"List", "Expire"} : BeginScan(t, c)
      PROVE  Quiet
    BY <1>1, <1>2 DEF BeginGet, BeginUnmute, BeginScan
<1>3. ASSUME NEW k \in Keys, NEW u \in 1 .. MaxTime + 1, BeginAdd(t, k, u)
      PROVE  OneRecordPerKey' /\ Owned'
  <2>1. /\ nextId \in Ids /\ nextId' = nextId + 1
        /\ rows' = rows /\ credited' = credited
      BY <1>3, BoundsAssumption DEF BeginAdd, TypeOK, Ids
  <2>2. /\ th'[t].taken = {} /\ th'[t].call = "Add" /\ th'[t].step = "tx"
        /\ th'[t].rec.id = nextId
      BY <1>3 DEF BeginAdd, Enter, TypeOK, Outside
  <2>3. \A v \in Threads \ {t} : th'[v] = th[v]
      BY <1>3 DEF BeginAdd, Enter, TypeOK
  <2>4. /\ nextId \notin IdsOf(rows)
        /\ credited[nextId] = 0
        /\ \A v \in Threads : nextId \notin th[v].taken
        /\ \A v \in Threads : Pending(v) => th[v].rec.id # nextId
      BY <2>1 DEF Owned, RowsIssued, PendingOwned, TakenOwned, CreditIssued,
                  IdsOf, Ids, TypeOK
  <2>5. OneRecordPerKey' /\ RowsIssued'
      BY <2>1 DEF OneRecordPerKey, Owned, RowsIssued, Ids
  <2>6. PendingOwned'
      BY <2>1, <2>2, <2>3, <2>4
      DEF Owned, PendingOwned, Pending, At, IdsOf, Ids
  <2>7. TakenOwned'
    <3> SUFFICES ASSUME NEW v \in Threads, NEW id \in th'[v].taken
                 PROVE  /\ id < nextId'
                        /\ id \notin IdsOf(rows)
                        /\ credited[id] = 0
                        /\ \A w \in Threads : id \in th'[w].taken => w = v
        BY <2>1 DEF TakenOwned, IdsOf
    <3>1. v # t /\ th'[v] = th[v] /\ id \in Ids
        BY <2>2, <2>3 DEF TypeOK, Local
    <3>2. /\ id < nextId /\ id \notin IdsOf(rows) /\ credited[id] = 0
          /\ \A w \in Threads : id \in th[w].taken => w = v
        BY <3>1 DEF Owned, TakenOwned
    <3> QED
        BY <2>1, <2>2, <2>3, <3>1, <3>2 DEF Ids
  <2>8. CreditIssued' /\ LiftReportedOnce'
      BY <2>1 DEF Owned, CreditIssued, LiftReportedOnce, IdsOf, Ids
  <2> QED
      BY <2>5, <2>6, <2>7, <2>8 DEF Owned
<1>4. CASE \E k \in Keys, u \in 1 .. MaxTime + 1 : BeginAdd(t, k, u)
    BY <1>3, <1>4
<1>5. CASE Quiet
    BY <1>5, QuietKeeps
<1> QED
    BY <1>2, <1>4, <1>5, KeysAssumption DEF Begin

\* A commit, heard of or not, moves the Add's identity into the table.
LEMMA CommitOwned ==
    ASSUME TypeOK, OneRecordPerKey, Owned, NEW t \in Threads, Pending(t),
           rows' = Replaced(th[t].rec), nextId' = nextId, credited' = credited,
           th'[t].taken \subseteq th[t].taken, ~Pending(t)',
           \A u \in Threads \ {t} : th'[u] = th[u]
    PROVE  OneRecordPerKey' /\ Owned'
<1> DEFINE rec == th[t].rec
<1>1. IdsOf(rows') \subseteq IdsOf(rows) \cup {rec.id}
    BY DEF IdsOf, Replaced
<1>2. /\ rec.id \in Ids /\ rec.id < nextId /\ rec.id \notin IdsOf(rows)
      /\ credited[rec.id] = 0
    BY DEF Owned, PendingOwned
<1>3. OneRecordPerKey'
    BY DEF OneRecordPerKey, Replaced, OfKey
<1>4. RowsIssued'
    BY <1>2 DEF Owned, RowsIssued, Replaced, IdsOf, Ids
<1>5. PendingOwned'
  <2> SUFFICES ASSUME NEW v \in Threads, Pending(v)'
               PROVE  /\ th'[v].rec.id \in Ids
                      /\ th'[v].rec.id < nextId
                      /\ th'[v].rec.id \notin IdsOf(rows')
                      /\ credited[th'[v].rec.id] = 0
                      /\ \A u \in Threads : th'[v].rec.id \notin th'[u].taken
                      /\ \A u \in Threads :
                            Pending(u)' /\ th'[u].rec.id = th'[v].rec.id
                               => u = v
      BY DEF PendingOwned, Ids, IdsOf
  <2>1. v # t /\ Pending(v) /\ th'[v] = th[v]
      BY DEF Pending, At
  <2>2. th[v].rec.id # rec.id
      BY <2>1 DEF Owned, PendingOwned
  <2>3. \A u \in Threads : Pending(u)' => u # t /\ Pending(u) /\ th'[u] = th[u]
      BY DEF Pending, At
  <2> QED
      BY <1>1, <2>1, <2>2, <2>3 DEF Owned, PendingOwned
<1>6. TakenOwned'
  <2>1. \A u \in Threads : th'[u].taken \subseteq th[u].taken
      OBVIOUS
  <2>2. \A u \in Threads : rec.id \notin th[u].taken
      BY DEF Owned, PendingOwned
  <2> QED
      BY <1>1, <2>1, <2>2 DEF Owned, TakenOwned, IdsOf
<1>7. CreditIssued' /\ LiftReportedOnce'
    BY <1>1, <1>2 DEF Owned, CreditIssued, LiftReportedOnce, IdsOf, Ids
<1> QED
    BY <1>3, <1>4, <1>5, <1>6, <1>7 DEF Owned

\* A DELETE hands the identities it removes to its call.
LEMMA LiftExecOwned ==
    ASSUME TypeOK, OneRecordPerKey, Owned, NEW t \in Threads, LiftExec(t)
    PROVE  OneRecordPerKey' /\ Owned'
<1> DEFINE hit == OfKey(rows, th[t].rec.key)
<1>1. /\ rows' = rows \ hit /\ nextId' = nextId /\ credited' = credited
    BY DEF LiftExec
<1>2. hit \subseteq rows
    BY DEF OfKey
<1>3. th'[t].taken = IdsOf(hit) /\ ~Pending(t)'
    BY DEF LiftExec, TypeOK, Local, Pending, At
<1>4. \A u \in Threads \ {t} : th'[u] = th[u]
    BY DEF LiftExec, TypeOK
<1>5. IdsOf(rows') \subseteq IdsOf(rows) /\ IdsOf(hit) \subseteq IdsOf(rows)
    BY <1>1, <1>2 DEF IdsOf
<1>6. IdsOf(hit) \cap IdsOf(rows') = {}
    BY <1>1, <1>2 DEF Owned, RowsIssued, IdsOf
<1>7. \A id \in IdsOf(rows) : id \in Ids /\ id < nextId /\ credited[id] = 0
    BY DEF Owned, RowsIssued, LiftReportedOnce, IdsOf
<1> HIDE DEF hit
<1>8. OneRecordPerKey' /\ RowsIssued'
    BY <1>1 DEF OneRecordPerKey, Owned, RowsIssued, Ids
<1>9. PendingOwned'
  <2>1. \A u \in Threads : Pending(u)' => u # t /\ Pending(u) /\ th'[u] = th[u]
      BY <1>3, <1>4 DEF Pending, At
  <2>2. \A v \in Threads : Pending(v) => th[v].rec.id \notin IdsOf(rows)
      BY DEF Owned, PendingOwned
  <2> SUFFICES ASSUME NEW v \in Threads, Pending(v)'
               PROVE  /\ th'[v].rec.id \in Ids
                      /\ th'[v].rec.id < nextId
                      /\ th'[v].rec.id \notin IdsOf(rows')
                      /\ credited[th'[v].rec.id] = 0
                      /\ \A u \in Threads : th'[v].rec.id \notin th'[u].taken
                      /\ \A u \in Threads :
                            Pending(u)' /\ th'[u].rec.id = th'[v].rec.id
                               => u = v
      BY <1>1 DEF PendingOwned, Ids, IdsOf
  <2>3. v # t /\ Pending(v) /\ th'[v] = th[v]
      BY <2>1
  <2>4. \A u \in Threads : th[v].rec.id \notin th'[u].taken
      BY <1>3, <1>4, <1>5, <2>2, <2>3 DEF Owned, PendingOwned
  <2> QED
      BY <1>5, <2>1, <2>2, <2>3, <2>4 DEF Owned, PendingOwned
<1>10. TakenOwned'
  <2> SUFFICES ASSUME NEW v \in Threads, NEW id \in th'[v].taken
               PROVE  /\ id < nextId
                      /\ id \notin IdsOf(rows')
                      /\ credited[id] = 0
                      /\ \A u \in Threads : id \in th'[u].taken => u = v
      BY <1>1 DEF TakenOwned, IdsOf
  <2>1. CASE v = t
      BY <2>1, <1>3, <1>4, <1>5, <1>6, <1>7 DEF Owned, TakenOwned
  <2>2. CASE v # t
      BY <2>2, <1>3, <1>4, <1>5 DEF Owned, TakenOwned
  <2> QED
      BY <2>1, <2>2
<1>11. CreditIssued' /\ LiftReportedOnce'
    BY <1>1, <1>5 DEF Owned, CreditIssued, LiftReportedOnce, IdsOf, Ids
<1> QED
    BY <1>8, <1>9, <1>10, <1>11 DEF Owned

\* The report spends the identities the call held.
LEMMA LiftForgetOwned ==
    ASSUME TypeOK, OneRecordPerKey, Owned, NEW t \in Threads, LiftForget(t)
    PROVE  OneRecordPerKey' /\ Owned'
<1>1. /\ rows' = rows /\ nextId' = nextId
      /\ credited' = [id \in Ids |->
             credited[id] + (IF id \in th[t].taken THEN 1 ELSE 0)]
    BY DEF LiftForget
<1>2. th'[t].taken = {} /\ ~Pending(t)'
    BY LiftNextHolds DEF LiftForget, Pending, At
<1>3. \A u \in Threads \ {t} : th'[u] = th[u]
    BY LiftNextHolds DEF LiftForget
<1>4. \A id \in Ids : /\ id \in th[t].taken => credited'[id] = credited[id] + 1
                      /\ id \notin th[t].taken => credited'[id] = credited[id]
    BY <1>1 DEF TypeOK
<1>5. \A id \in th[t].taken : /\ id \in Ids /\ id < nextId /\ credited[id] = 0
                              /\ id \notin IdsOf(rows)
    BY DEF Owned, TakenOwned, TypeOK, Local
<1>6. OneRecordPerKey' /\ RowsIssued'
    BY <1>1 DEF OneRecordPerKey, Owned, RowsIssued, Ids
<1>7. PendingOwned'
  <2>1. \A u \in Threads : Pending(u)' => u # t /\ Pending(u) /\ th'[u] = th[u]
      BY <1>2, <1>3 DEF Pending, At
  <2> QED
      BY <1>1, <1>2, <1>3, <1>4, <2>1 DEF Owned, PendingOwned, Ids, IdsOf
<1>8. TakenOwned'
  <2> SUFFICES ASSUME NEW v \in Threads, NEW id \in th'[v].taken
               PROVE  /\ id < nextId
                      /\ id \notin IdsOf(rows)
                      /\ credited'[id] = 0
                      /\ \A u \in Threads : id \in th'[u].taken => u = v
      BY <1>1 DEF TakenOwned, IdsOf
  <2>1. v # t /\ th'[v] = th[v] /\ id \in Ids /\ id \notin th[t].taken
      BY <1>2, <1>3 DEF Owned, TakenOwned, TypeOK, Local
  <2> QED
      BY <1>2, <1>3, <1>4, <2>1 DEF Owned, TakenOwned
<1>9. CreditIssued' /\ LiftReportedOnce'
    BY <1>1, <1>4, <1>5
    DEF Owned, CreditIssued, LiftReportedOnce, IdsOf, Ids, TypeOK
<1> QED
    BY <1>6, <1>7, <1>8, <1>9 DEF Owned

-----------------------------------------------------------------------------
(* The clock                                                               *)

\* No step of a call remembers a time that is still to come.
LEMMA CallsAsOf ==
    ASSUME TypeOK, AsOfPast, NEW t \in Threads, Begin(t) \/ Proceed(t)
    PROVE  AsOfPast'
<1>1. \A u \in Threads : th[u].asOf <= now /\ th[u].asOf \in Nat
    BY DEF AsOfPast, TypeOK, Local
<1>2. ASSUME NEW i \in Instances, Reborn(i)
      PROVE  AsOfPast'
    BY <1>1, <1>2, OutsideHolds DEF Reborn, AsOfPast, TypeOK
<1>3. ASSUME NEW a, Return(t, a), now' = now
      PROVE  AsOfPast'
    BY <1>1, <1>3, OneMoves, OutsideHolds DEF Return, AsOfPast, TypeOK
<1>4. ASSUME LiftNext(t), now' = now
      PROVE  AsOfPast'
    BY <1>1, <1>4, LiftNextHolds DEF AsOfPast, TypeOK
<1>5. ASSUME NilMapPanic(t)
      PROVE  AsOfPast'
  <2>1. CASE t \in Recovering
      BY <1>3, <1>5, <2>1 DEF NilMapPanic
  <2> QED
      BY <1>2, <1>5, <2>1, HomeAssumption DEF NilMapPanic
<1>6. ASSUME \A u \in Threads : th'[u].asOf = th[u].asOf, now' = now
      PROVE  AsOfPast'
    BY <1>1, <1>6 DEF AsOfPast
<1>7. CASE Begin(t)
  <2>1. ASSUME NEW c, NEW s, NEW r, Enter(t, c, s, r), now' = now
        PROVE  AsOfPast'
    <3>1. th'[t].asOf = 0
        BY <2>1 DEF Enter, TypeOK, Outside
    <3>2. \A u \in Threads \ {t} : th'[u] = th[u]
        BY <2>1 DEF Enter, TypeOK
    <3> QED
        BY <1>1, <2>1, <3>1, <3>2 DEF AsOfPast, TypeOK
  <2> QED
      BY <1>7, <2>1 DEF Begin, BeginAdd, BeginGet, BeginUnmute, BeginScan
<1>8. CASE \/ CheckLoaded(t) \/ LoadFails(t) \/ LoadPublish(t) \/ AddCommit(t)
           \/ LiftExec(t)
  <2>1. now' = now
      BY <1>8 DEF CheckLoaded, LoadFails, LoadPublish, AddCommit, LiftExec
  <2>2. CASE CheckLoaded(t) \/ LoadFails(t) \/ AddCommit(t)
      BY <1>6, <2>1, <2>2
      DEF CheckLoaded, LoadFails, AddCommit, Goto, TypeOK, Local
  <2>3. CASE LoadPublish(t)
      BY <1>6, <2>1, <2>3 DEF LoadPublish, TypeOK, Local
  <2>4. CASE LiftExec(t)
      BY <1>6, <2>1, <2>4 DEF LiftExec, TypeOK, Local
  <2> QED
      BY <1>8, <2>2, <2>3, <2>4
<1>9. CASE LoadQuery(t)
  <2>1. PICK S : th' = [th EXCEPT ![t].step = "publish", ![t].snap = S]
      BY <1>9 DEF LoadQuery
  <2>2. now' = now
      BY <1>9 DEF LoadQuery
  <2> QED
      BY <1>6, <2>1, <2>2 DEF TypeOK, Local
<1>10. CASE AddFails(t) \/ ListUse(t)
    BY <1>3, <1>10 DEF AddFails, ListUse
<1>11. CASE AddUse(t) \/ GetBackfill(t)
  <2>1. CASE loaded[Home[t]]
      BY <1>3, <1>11, <2>1 DEF AddUse, GetBackfill
  <2> QED
      BY <1>5, <1>11, <2>1 DEF AddUse, GetBackfill
<1>12. CASE GetUse(t)
  <2>1. CASE th' = [th EXCEPT ![t].step = "ask", ![t].asOf = now]
    <3>1. th'[t].asOf = now /\ \A u \in Threads \ {t} : th'[u] = th[u]
        BY <2>1 DEF TypeOK, Local
    <3> QED
        BY <1>1, <1>12, <3>1 DEF GetUse, AsOfPast, TypeOK
  <2> QED
      BY <1>3, <1>12, <2>1 DEF GetUse
<1>13. CASE GetAsk(t)
  <2>1. ASSUME NEW r, th' = [th EXCEPT ![t].step = "backfill", ![t].rec = r]
        PROVE  AsOfPast'
      BY <1>6, <1>13, <2>1 DEF GetAsk, TypeOK, Local
  <2> QED
      BY <1>3, <1>13, <2>1 DEF GetAsk
<1>14. CASE LiftTransient(t)
  <2>1. ASSUME NEW n, NEW g,
               th' = [th EXCEPT ![t].tries = n, ![t].gone = g]
        PROVE  AsOfPast'
      BY <1>6, <1>14, <2>1 DEF LiftTransient, TypeOK, Local
  <2> QED
      BY <1>4, <1>14, <2>1 DEF LiftTransient
<1>15. CASE LiftFails(t) \/ LiftForget(t)
    BY <1>4, <1>15 DEF LiftFails, LiftForget
<1>16. CASE ExpireUse(t)
  <2>1. now' = now
      BY <1>16 DEF ExpireUse
  <2>2. ASSUME NEW k, NEW d,
               th' = [th EXCEPT ![t].step = "exec", ![t].rec = OnlyKey(k),
                                ![t].todo = d]
        PROVE  AsOfPast'
      BY <1>6, <2>1, <2>2 DEF TypeOK, Local
  <2>3. \/ Return(t, "none")
        \/ \E k, d : th' = [th EXCEPT ![t].step = "exec",
                                      ![t].rec = OnlyKey(k), ![t].todo = d]
      BY <1>16 DEF ExpireUse
  <2> QED
      BY <1>3, <2>1, <2>2, <2>3
<1> QED
    BY <1>7, <1>8, <1>9, <1>10, <1>11, <1>12, <1>13, <1>14, <1>15, <1>16
    DEF Proceed

-----------------------------------------------------------------------------
(* The invariant                                                           *)

LEMMA InitInv == Init => IInv
<1> SUFFICES ASSUME Init PROVE IInv
    OBVIOUS
<1>1. th \in [Threads -> Local]
    BY OutsideType DEF Init, Answers
<1>2. TypeOK
    BY <1>1, BoundsAssumption DEF Init, TypeOK, Ids
<1>3. \A t \in Threads : th[t].taken = {} /\ ~Pending(t) /\ th[t].asOf = 0
    BY OutsideHolds DEF Init, Pending, At
<1>4. OneRecordPerKey /\ Owned
    BY <1>3 DEF Init, OneRecordPerKey, Owned, RowsIssued, PendingOwned,
                TakenOwned, CreditIssued, LiftReportedOnce, IdsOf, Ids
<1>5. AsOfPast
    BY <1>3 DEF Init, AsOfPast
<1> QED
    BY <1>2, <1>4, <1>5 DEF IInv

LEMMA NextInv == IInv /\ [Next]_vars => IInv'
<1> SUFFICES ASSUME IInv, [Next]_vars PROVE IInv'
    OBVIOUS
<1>0. TypeOK /\ OneRecordPerKey /\ Owned /\ RowsIssued /\ AsOfPast
    BY DEF IInv, Owned
<1>1. ASSUME NEW t \in Threads, Begin(t)
      PROVE  IInv'
    BY <1>0, <1>1, BeginType, BeginOwned, CallsAsOf DEF IInv
<1>2. ASSUME NEW t \in Threads, Proceed(t)
      PROVE  IInv'
  <2>1. OneRecordPerKey' /\ Owned'
    <3>1. CASE AddCommit(t)
      <4>1. th'[t].taken = th[t].taken /\ ~Pending(t)'
          BY <1>0, <3>1 DEF AddCommit, Goto, Pending, At, TypeOK, Local
      <4>2. \A u \in Threads \ {t} : th'[u] = th[u]
          BY <1>0, <3>1 DEF AddCommit, Goto, TypeOK
      <4> QED
          BY <1>0, <3>1, <4>1, <4>2, CommitOwned DEF AddCommit, Pending
    <3>2. CASE AddFails(t)
      <4>1. th'[t].taken = {} /\ ~Pending(t)'
          BY <1>0, <3>2, OneMoves, OutsideHolds
          DEF AddFails, Return, Pending, At
      <4>2. \A u \in Threads \ {t} : th'[u] = th[u]
          BY <1>0, <3>2, OneMoves DEF AddFails, Return
      <4>3. CASE rows' = rows
        <5>1. Quiet
            BY <3>2, <4>1, <4>2, <4>3 DEF AddFails, Quiet, Pending, At
        <5> QED
            BY <1>0, <5>1, QuietKeeps
      <4>4. CASE rows' = Replaced(th[t].rec)
          BY <1>0, <3>2, <4>1, <4>2, <4>4, CommitOwned DEF AddFails, Pending
      <4> QED
          BY <3>2, <4>3, <4>4 DEF AddFails
    <3>3. CASE LiftExec(t)
        BY <1>0, <3>3, LiftExecOwned
    <3>4. CASE LiftForget(t)
        BY <1>0, <3>4, LiftForgetOwned
    <3>5. CASE Quiet
        BY <1>0, <3>5, QuietKeeps
    <3> QED
        BY <1>0, <1>2, <3>1, <3>2, <3>3, <3>4, <3>5, OtherStepsQuiet DEF Proceed
  <2> QED
      BY <1>0, <1>2, <2>1, ProceedType, CallsAsOf DEF IInv
<1>3. ASSUME NEW i \in Instances, InvalidateMuteCache(i)
      PROVE  IInv'
  <2>1. TypeOK'
      BY <1>0, <1>3 DEF InvalidateMuteCache, CacheWrite, TypeOK
  <2>2. Quiet
      BY <1>3 DEF InvalidateMuteCache, Quiet, Pending, At
  <2>3. AsOfPast'
      BY <1>0, <1>3 DEF InvalidateMuteCache, AsOfPast
  <2> QED
      BY <1>0, <2>1, <2>2, <2>3, QuietKeeps DEF IInv
<1>4. ASSUME NEW i \in Instances, Restart(i)
      PROVE  IInv'
  <2>1. AsOfPast'
      BY <1>0, <1>4, OutsideHolds DEF Restart, Reborn, AsOfPast, TypeOK
  <2> QED
      BY <1>0, <1>4, <2>1, RebornType, RebornQuiet, QuietKeeps DEF Restart, IInv
<1>5. CASE CleanupExpiredMutes
  <2>1. TypeOK' /\ AsOfPast'
      BY <1>0, <1>5 DEF CleanupExpiredMutes, TypeOK, AsOfPast
  <2>2. Quiet
      BY <1>5 DEF CleanupExpiredMutes, Quiet, Pending, At
  <2> QED
      BY <1>0, <2>1, <2>2, QuietKeeps DEF IInv
<1>6. CASE Tick
  <2>1. TypeOK'
      BY <1>0, <1>6 DEF Tick, TypeOK
  <2>2. AsOfPast'
      BY <1>0, <1>6 DEF Tick, AsOfPast, TypeOK, Local
  <2>3. Quiet
      BY <1>6 DEF Tick, Quiet, Pending, At
  <2> QED
      BY <1>0, <2>1, <2>2, <2>3, QuietKeeps DEF IInv
<1>7. CASE UNCHANGED vars
  <2>1. TypeOK' /\ AsOfPast'
      BY <1>0, <1>7 DEF vars, TypeOK, AsOfPast
  <2>2. Quiet
      BY <1>7 DEF vars, Quiet, Pending, At
  <2> QED
      BY <1>0, <2>1, <2>2, QuietKeeps DEF IInv
<1> QED
    BY <1>1, <1>2, <1>3, <1>4, <1>5, <1>6, <1>7 DEF Next

LEMMA Invariance == Spec => []IInv
BY InitInv, NextInv, PTL DEF Spec

-----------------------------------------------------------------------------
(* Answers                                                                 *)

\* A restart leaves a goroutine alone or takes it out of the store.
LEMMA RebornAnswers ==
    ASSUME TypeOK, NEW i \in Instances, Reborn(i), NEW t \in Threads
    PROVE  th'[t] = th[t] \/ th'[t] = Outside("none")
BY DEF Reborn

\* A goroutine's step leaves the others alone, or ends them with the process.
LEMMA OthersStay ==
    ASSUME TypeOK, NEW t \in Threads, NEW u \in Threads \ {t},
           Begin(u) \/ Proceed(u)
    PROVE  th'[t] = th[t] \/ th'[t] = Outside("none")
<1>1. CASE Begin(u)
    BY <1>1 DEF Begin, BeginAdd, BeginGet, BeginUnmute, BeginScan, Enter, TypeOK
<1>2. ASSUME NilMapPanic(u)
      PROVE  th'[t] = th[t] \/ th'[t] = Outside("none")
  <2>1. CASE u \in Recovering
      BY <1>2, <2>1, OneMoves DEF NilMapPanic, Return
  <2>2. CASE u \notin Recovering
      BY <1>2, <2>2, RebornAnswers, HomeAssumption DEF NilMapPanic
  <2> QED
      BY <2>1, <2>2
<1>3. CASE AddUse(u) \/ GetBackfill(u)
    BY <1>2, <1>3, OneMoves DEF AddUse, GetBackfill, Return
<1>4. CASE CheckLoaded(u) \/ LoadQuery(u) \/ LoadFails(u) \/ LoadPublish(u)
    BY <1>4 DEF CheckLoaded, LoadQuery, LoadFails, LoadPublish, Goto, TypeOK
<1>5. CASE AddCommit(u) \/ AddFails(u)
    BY <1>5, OneMoves DEF AddCommit, AddFails, Goto, Return, TypeOK
<1>6. CASE GetUse(u) \/ GetAsk(u)
    BY <1>6, OneMoves DEF GetUse, GetAsk, Return, TypeOK
<1>7. CASE LiftExec(u) \/ LiftTransient(u) \/ LiftFails(u) \/ LiftForget(u)
    BY <1>7, LiftNextHolds
    DEF LiftExec, LiftTransient, LiftFails, LiftForget, TypeOK
<1>8. CASE ListUse(u) \/ ExpireUse(u)
    BY <1>8, OneMoves DEF ListUse, ExpireUse, Return, TypeOK
<1> QED
    BY <1>1, <1>3, <1>4, <1>5, <1>6, <1>7, <1>8 DEF Proceed

\* A call that begins is inside the store.
LEMMA BeginCalls ==
    ASSUME TypeOK, NEW t \in Threads, Begin(t)
    PROVE  th'[t].call # "none"
<1>1. ASSUME NEW c, c # "none", NEW s, NEW r, Enter(t, c, s, r)
      PROVE  th'[t].call # "none"
    BY <1>1 DEF Enter, TypeOK, Outside
<1> QED
    BY <1>1 DEF Begin, BeginAdd, BeginGet, BeginUnmute, BeginScan

\* A lookup answers "not muted" only when the query finds nothing.
LEMMA GetAnswers ==
    ASSUME TypeOK, NEW t \in Threads, Proceed(t), th[t].call = "Get",
           th'[t].answer = "unmuted", th'[t].call = "none"
    PROVE  GetAsk(t) /\ Live(OfKey(rows, th[t].rec.key), th[t].asOf) = {}
<1>1. \A a : Return(t, a) => th'[t] = Outside(a)
    BY OneMoves DEF Return
<1>2. \A a : Outside(a).answer = a
    BY DEF Outside
<1>3. ~NilMapPanic(t)
  <2>1. ASSUME Reborn(Home[t]) PROVE FALSE
      BY <2>1, <1>2, RebornAnswers, HomeAssumption DEF Reborn
  <2> QED
      BY <1>1, <1>2, <2>1 DEF NilMapPanic
<1>4. ~(\/ AddCommit(t) \/ AddFails(t) \/ AddUse(t) \/ LiftExec(t)
        \/ LiftTransient(t) \/ LiftFails(t) \/ LiftForget(t) \/ ListUse(t)
        \/ ExpireUse(t))
    BY DEF AddCommit, AddFails, AddUse, LiftExec, LiftTransient, LiftFails,
           LiftForget, ListUse, ExpireUse, At, Lifters
<1>5. ~(CheckLoaded(t) \/ LoadQuery(t) \/ LoadFails(t) \/ LoadPublish(t))
    BY DEF CheckLoaded, LoadQuery, LoadFails, LoadPublish, Goto, TypeOK, Local
<1>6. ~GetUse(t)
  <2>1. ASSUME th' = [th EXCEPT ![t].step = "ask", ![t].asOf = now]
        PROVE  FALSE
      BY <2>1 DEF TypeOK, Local
  <2> QED
      BY <1>1, <1>2, <2>1 DEF GetUse
<1>7. ~GetBackfill(t)
    BY <1>1, <1>2, <1>3 DEF GetBackfill
<1>8. GetAsk(t)
    BY <1>4, <1>5, <1>6, <1>7 DEF Proceed
<1>9. ASSUME NEW r, th' = [th EXCEPT ![t].step = "backfill", ![t].rec = r]
      PROVE  FALSE
    BY <1>9 DEF TypeOK, Local
<1> QED
    BY <1>1, <1>2, <1>8, <1>9 DEF GetAsk

-----------------------------------------------------------------------------
(* The theorems                                                            *)

\* Every variable keeps its type, and no call tries a statement more than
\* three times (retryOnTransientError).
THEOREM TypeCorrect == Spec => []TypeOK
<1>1. IInv => TypeOK
    BY DEF IInv
<1> QED
    BY <1>1, Invariance, PTL

\* However mutes, unmutes, expiry rounds, retries, lost replies and crashes of
\* any number of bots interleave, the table has at most one active mute per
\* user and chat (AddMutedUserSafely).
THEOREM OneRecord == Spec => []OneRecordPerKey
<1>1. IInv => OneRecordPerKey
    BY DEF IInv
<1> QED
    BY <1>1, Invariance, PTL

\* No two calls of UnmuteUserIfActive report the removal of the same mute,
\* and none reports it while the mute is in the table.
THEOREM ReportedOnce == Spec => []LiftReportedOnce
<1>1. IInv => LiftReportedOnce
    BY DEF IInv, Owned
<1> QED
    BY <1>1, Invariance, PTL

\* GetActiveMuteInfo never answers "not muted" at a moment at which the table
\* holds a live mute of that user and chat.
THEOREM NeverFalselyUnmuted == Spec => NoFalseUnmuted
<1> DEFINE Told(t) == th[t].call = "Get" /\ th'[t] = Outside("unmuted")
                         => Live(OfKey(rows, th[t].rec.key), now) = {}
<1>1. ASSUME IInv, [Next]_vars, NEW t \in Threads
      PROVE  Told(t)
  <2> SUFFICES ASSUME th[t].call = "Get", th'[t] = Outside("unmuted")
               PROVE  Live(OfKey(rows, th[t].rec.key), now) = {}
      OBVIOUS
  <2>0. TypeOK /\ AsOfPast
      BY <1>1 DEF IInv
  <2>1. th'[t].answer = "unmuted" /\ th'[t].call = "none"
      BY DEF Outside
  <2>2. CASE GetAsk(t) /\ Live(OfKey(rows, th[t].rec.key), th[t].asOf) = {}
    <3>1. th[t].asOf \in Nat /\ th[t].asOf <= now /\ now \in Nat
        BY <2>0 DEF TypeOK, Local, AsOfPast
    <3>2. \A r \in rows : r.until \in Nat
        BY <2>0 DEF TypeOK, Record
    <3> QED
        BY <2>2, <3>1, <3>2 DEF Live, OfKey
  <2>3. th'[t] # th[t] /\ th'[t] # Outside("none")
      BY <2>1 DEF Outside
  <2>4. ASSUME NEW u \in Threads \ {t}, Begin(u) \/ Proceed(u)
        PROVE  FALSE
      BY <2>0, <2>3, <2>4, OthersStay
  <2>5. CASE Begin(t)
      BY <2>0, <2>1, <2>5, BeginCalls
  <2>6. CASE Proceed(t)
      BY <2>0, <2>1, <2>2, <2>6, GetAnswers
  <2>7. ASSUME NEW i \in Instances, InvalidateMuteCache(i) \/ Restart(i)
        PROVE  FALSE
      BY <2>0, <2>3, <2>7, RebornAnswers DEF InvalidateMuteCache, Restart
  <2>8. CASE CleanupExpiredMutes \/ Tick \/ UNCHANGED vars
      BY <2>3, <2>8 DEF CleanupExpiredMutes, Tick, vars
  <2> QED
      BY <1>1, <2>4, <2>5, <2>6, <2>7, <2>8 DEF Next
<1>2. IInv /\ [Next]_vars => \A t \in Threads : Told(t)
    BY <1>1
<1> QED
    BY <1>2, Invariance, PTL DEF Spec, NoFalseUnmuted

-----------------------------------------------------------------------------
(* The cache while the calls of a process do not overlap                   *)

\* No two calls of process i are under way.
Serial(i) ==
    \A t, u \in Threads :
        Home[t] = i /\ Home[u] = i /\ ~Idle(t) /\ ~Idle(u) => t = u

\* The call of t has changed the table, and not yet the cache.
Behind(t) ==
    \/ th[t].call = "Add" /\ th[t].step \in {"check", "load", "publish", "use"}
    \/ At(t, Lifters, "forget")

\* The cache of i shows the running mutes of the table, those of K left aside.
Same(i, K) ==
    loaded[i] => \A r \in Record : r.until > now /\ r.key \notin K
                                      => (r \in cache[i] <=> r \in rows)

\* What t is about to write to the cache is what the table has.
RecordIsRow(t) ==
    \A r \in Record : r.until > now /\ r.key = th[t].rec.key
                         => (r \in rows <=> r = th[t].rec)

SnapIsTable(t) ==
    \A r \in Record : r.until > now => (r \in th[t].snap <=> r \in rows)

Owes(t) ==
    /\ Behind(t) /\ th[t].call = "Add" => RecordIsRow(t)
    /\ At(t, {"Get"}, "backfill") => RecordIsRow(t)
    /\ At(t, Lifters, "forget") =>
          \A r \in Record : r.until > now /\ r.key = th[t].rec.key
                               => r \notin rows
    /\ th[t].step = "publish" => SnapIsTable(t)

Settled(t) ==
    /\ Same(Home[t], IF Behind(t) THEN {th[t].rec.key} ELSE {})
    /\ Owes(t)

InStep(i) ==
    /\ Serial(i)
    /\ AtRest(i) => Same(i, {})
    /\ \A t \in Threads : Home[t] = i /\ ~Idle(t) => Settled(t)

UInv == \A i \in Instances : ~disturbed[i] => InStep(i)

-----------------------------------------------------------------------------
(* What other processes do                                                 *)

\* Time passes and the running mutes of the table are the same.
RowsRun ==
    /\ now \in Nat /\ now' \in Nat /\ now <= now'
    /\ \A r \in Record : r.until > now' => (r \in rows' <=> r \in rows)

\* Nobody has touched the cache and the goroutines of i.
LeftAlone(i) ==
    /\ cache'[i] = cache[i]
    /\ loaded'[i] = loaded[i]
    /\ \A t \in Threads : Home[t] = i => th'[t] = th[t]

\* Such a process stays in step.
LEMMA LeftInStep ==
    ASSUME NEW i \in Instances, InStep(i), RowsRun, LeftAlone(i)
    PROVE  InStep(i)'
<1>0. \A r \in Record : r.until \in Nat
    BY DEF Record
<1>1. \A r \in Record : r.until > now' => r.until > now
    BY <1>0 DEF RowsRun
<1>2. \A t \in Threads : Home[t] = i => (Idle(t)' <=> Idle(t))
    BY DEF LeftAlone, Idle
<1>3. Serial(i)'
    BY <1>2 DEF Serial, InStep
<1>4. ASSUME NEW K, Same(i, K) PROVE Same(i, K)'
    BY <1>1, <1>4 DEF Same, RowsRun, LeftAlone
<1>5. ASSUME NEW t \in Threads, Home[t] = i, Settled(t)
      PROVE  Settled(t)'
  <2>1. th'[t] = th[t]
      BY <1>5 DEF LeftAlone
  <2>2. Behind(t)' <=> Behind(t)
      BY <2>1 DEF Behind, At
  <2> PICK K : K = IF Behind(t) THEN {th[t].rec.key} ELSE {}
      OBVIOUS
  <2>3. Same(i, K)'
      BY <1>4, <1>5 DEF Settled
  <2>5. K = IF Behind(t)' THEN {th'[t].rec.key} ELSE {}
      BY <2>1, <2>2
  <2>4. Owes(t)'
      BY <1>1, <1>5, <2>1, <2>2
      DEF Settled, Owes, RecordIsRow, SnapIsTable, At, RowsRun
  <2> QED
      BY <1>5, <2>3, <2>4, <2>5 DEF Settled
<1> QED
    BY <1>2, <1>3, <1>4, <1>5 DEF InStep, AtRest

\* A process that is alone with a call of t is in step when t is.
LEMMA OneSettled ==
    ASSUME NEW t \in Threads, Settled(t)',
           \A u \in Threads \ {t} : Home[u] = Home[t] => Idle(u)'
    PROVE  InStep(Home[t])'
<1>1. Serial(Home[t])'
    BY DEF Serial
<1>2. Idle(t)' => ~Behind(t)'
    BY DEF Idle, Behind, At
<1>3. Idle(t)' => Same(Home[t], {})'
    BY <1>2 DEF Settled
<1> QED
    BY <1>1, <1>3 DEF InStep, AtRest

\* A process that has just started is in step.
LEMMA RebornInStep ==
    ASSUME TypeOK, NEW i \in Instances, Reborn(i)
    PROVE  InStep(i)'
<1>1. \A t \in Threads : Home[t] = i => Idle(t)'
    BY DEF Reborn, Idle, Outside
<1>2. cache'[i] = Live(rows, now) /\ rows' = rows /\ now' = now
    BY DEF Reborn, TypeOK
<1>3. Same(i, {})'
    BY <1>2 DEF Same, Live
<1> QED
    BY <1>1, <1>3 DEF InStep, Serial, AtRest

\* The start of one leaves the others alone.
LEMMA RebornElsewhere ==
    ASSUME TypeOK, NEW j \in Instances, Reborn(j), NEW i \in Instances \ {j}
    PROVE  RowsRun /\ LeftAlone(i) /\ disturbed'[i] = disturbed[i]
<1>1. LeftAlone(i)
    BY DEF Reborn, TypeOK, LeftAlone
<1>2. RowsRun
    BY DEF Reborn, TypeOK, RowsRun
<1> QED
    BY <1>1, <1>2 DEF Reborn, TypeOK

\* What a goroutine of another process does to process i.
LEMMA StepElsewhere ==
    ASSUME TypeOK, NEW t \in Threads, Begin(t) \/ Proceed(t),
           NEW i \in Instances \ {Home[t]}, ~disturbed'[i]
    PROVE  RowsRun /\ LeftAlone(i) /\ ~disturbed[i]
<1>0. Home[t] \in Instances
    BY HomeAssumption
<1> DEFINE Aside == /\ cache'[i] = cache[i] /\ loaded'[i] = loaded[i]
                    /\ \A u \in Threads \ {t} : th'[u] = th[u]
<1>1. ASSUME now' = now, rows' = rows, Aside, disturbed[i] => disturbed'[i]
      PROVE  RowsRun /\ LeftAlone(i) /\ ~disturbed[i]
    BY <1>1 DEF TypeOK, RowsRun, LeftAlone
<1>2. ASSUME DisturbOthers(t) \/ DisturbAll PROVE disturbed'[i]
    BY <1>2 DEF DisturbOthers, DisturbAll
<1>3. ASSUME NilMapPanic(t), Home[t] # i
      PROVE  RowsRun /\ LeftAlone(i) /\ ~disturbed[i]
  <2>1. CASE t \in Recovering
      BY <1>1, <1>3, <2>1, OneMoves DEF NilMapPanic, Return, TypeOK
  <2>2. CASE t \notin Recovering
      BY <1>0, <1>3, <2>2, RebornElsewhere DEF NilMapPanic
  <2> QED
      BY <2>1, <2>2
<1>4. CASE Begin(t)
    BY <1>1, <1>4
    DEF Begin, BeginAdd, BeginGet, BeginUnmute, BeginScan, Enter, TypeOK
<1>5. CASE CheckLoaded(t) \/ LoadFails(t)
    BY <1>1, <1>5 DEF CheckLoaded, LoadFails, Goto, TypeOK
<1>6. CASE LoadQuery(t)
    BY <1>1, <1>6 DEF LoadQuery, TypeOK
<1>7. CASE LoadPublish(t)
    BY <1>1, <1>7 DEF LoadPublish, CacheWrite, TypeOK
<1>8. CASE AddCommit(t) \/ LiftExec(t)
    BY <1>2, <1>8 DEF AddCommit, LiftExec
<1>9. CASE AddFails(t)
    BY <1>1, <1>2, <1>9, OneMoves DEF AddFails, Return
<1>10. CASE AddUse(t) \/ GetBackfill(t)
  <2>1. CASE loaded[Home[t]]
    <3>1. \E a : Return(t, a)
        BY <1>10, <2>1 DEF AddUse, GetBackfill
    <3>2. Aside
        BY <1>10, <2>1, <3>1, OneMoves
        DEF AddUse, GetBackfill, CacheWrite, TypeOK, Return
    <3> QED
        BY <1>1, <1>10, <2>1, <3>2 DEF AddUse, GetBackfill
  <2> QED
      BY <1>3, <1>10, <2>1 DEF AddUse, GetBackfill
<1>11. CASE GetUse(t) \/ GetAsk(t) \/ ListUse(t) \/ ExpireUse(t)
    BY <1>1, <1>11, OneMoves
    DEF GetUse, GetAsk, ListUse, ExpireUse, Return, TypeOK
<1>12. CASE LiftTransient(t)
  <2>1. disturbed' = disturbed /\ rows' = rows
      BY <1>2, <1>12 DEF LiftTransient
  <2>2. \A u \in Threads \ {t} : th'[u] = th[u]
      BY <1>12, LiftNextHolds DEF LiftTransient, TypeOK
  <2> QED
      BY <1>1, <1>12, <2>1, <2>2 DEF LiftTransient
<1>13. CASE LiftFails(t)
    BY <1>1, <1>13, LiftNextHolds DEF LiftFails
<1>14. CASE LiftForget(t)
    BY <1>1, <1>14, LiftNextHolds DEF LiftForget, CacheWrite, TypeOK
<1> QED
    BY <1>4, <1>5, <1>6, <1>7, <1>8, <1>9, <1>10, <1>11, <1>12, <1>13, <1>14
    DEF Proceed

-----------------------------------------------------------------------------
(* What a process does                                                     *)

\* A step at which a goroutine touches neither the table nor the cache.
LookingOn(i) ==
    rows' = rows /\ now' = now /\ cache'[i] = cache[i] /\ loaded'[i] = loaded[i]

LEMMA LookingOnSame ==
    ASSUME NEW i \in Instances, LookingOn(i), NEW K, Same(i, K)
    PROVE  Same(i, K)'
BY DEF LookingOn, Same

\* A call that begins in a process at rest finds the cache in step.
LEMMA BeginInStep ==
    ASSUME TypeOK, NEW t \in Threads, Begin(t), ~disturbed'[Home[t]],
           ~disturbed[Home[t]] => InStep(Home[t])
    PROVE  InStep(Home[t])'
<1>0. Home[t] \in Instances
    BY HomeAssumption
<1>1. PICK c \in Calls, s \in Steps : \E r :
          /\ Enter(t, c, s, r)
          /\ <<c, s>> \in {<<"Add", "tx">>, <<"Get", "check">>,
                           <<"Unmute", "exec">>, <<"List", "check">>,
                           <<"Expire", "check">>}
    BY DEF Begin, BeginAdd, BeginGet, BeginUnmute, BeginScan, Calls, Steps
<1>2. LookingOn(Home[t])
    BY DEF Begin, BeginAdd, BeginGet, BeginUnmute, BeginScan, LookingOn
<1>3. /\ th'[t].call = c /\ th'[t].step = s
      /\ \A u \in Threads \ {t} : th'[u] = th[u]
    BY <1>1 DEF Enter, TypeOK, Outside
<1>4. /\ ~disturbed[Home[t]] /\ Idle(t)
      /\ \A u \in Threads \ {t} : Home[u] = Home[t] => Idle(u)
    BY <1>0, <1>1 DEF Enter, TypeOK
<1>5. Same(Home[t], {})
    BY <1>4 DEF InStep, AtRest
<1>6. Same(Home[t], {})'
    BY <1>0, <1>2, <1>5, LookingOnSame
<1>7. ~Behind(t)' /\ Owes(t)'
    BY <1>1, <1>3 DEF Behind, Owes, At, Lifters
<1>8. Settled(t)'
    BY <1>6, <1>7 DEF Settled
<1>9. \A u \in Threads \ {t} : Home[u] = Home[t] => Idle(u)'
    BY <1>3, <1>4 DEF Idle
<1> QED
    BY <1>8, <1>9, OneSettled

\* A goroutine that has nothing to put in order looks on.
LEMMA IdlerSettled ==
    ASSUME NEW t \in Threads, LookingOn(Home[t]), Settled(t), ~Behind(t),
           th'[t].step \in {"idle", "ask", "exec"}
    PROVE  Settled(t)'
<1>1. Same(Home[t], {})'
    BY HomeAssumption, LookingOnSame DEF Settled
<1>2. ~Behind(t)' /\ Owes(t)'
    BY DEF Behind, Owes, At
<1> QED
    BY <1>1, <1>2 DEF Settled

\* A call that has returned is over.
LEMMA ReturnIdle ==
    ASSUME TypeOK, NEW t \in Threads, NEW a, Return(t, a)
    PROVE  th'[t] = Outside(a) /\ th'[t].step = "idle"
<1>1. th'[t] = Outside(a)
    BY OneMoves DEF Return
<1>2. Outside(a).step = "idle"
    BY DEF Outside
<1> QED
    BY <1>1, <1>2

\* The next key of an expiry round is still to be lifted.
LEMMA LiftNextSteps ==
    ASSUME TypeOK, NEW t \in Threads, LiftNext(t)
    PROVE  th'[t].step \in {"idle", "exec"}
<1>1. CASE Return(t, "none")
    BY <1>1, ReturnIdle
<1>2. ASSUME NEW q, NEW d,
             th' = [th EXCEPT ![t] = [Outside("none") EXCEPT
                       !.call = "Expire", !.step = "exec",
                       !.rec = q, !.todo = d]]
      PROVE  th'[t].step = "exec"
    BY <1>2 DEF TypeOK, Outside
<1> QED
    BY <1>1, <1>2 DEF LiftNext

\* The goroutine of a process that is alone in it keeps the cache in step.
LEMMA ProceedSettles ==
    ASSUME TypeOK, OneRecordPerKey, NEW t \in Threads, Proceed(t),
           ~disturbed'[Home[t]], Settled(t),
           AddUse(t) \/ GetBackfill(t) => loaded[Home[t]]
    PROVE  Settled(t)'
<1> DEFINE i == Home[t]
           k == th[t].rec.key
<1>0. i \in Instances /\ th[t] \in Local
    BY HomeAssumption DEF TypeOK
<1>1. ~Behind(t) => Same(i, {})
    BY DEF Settled
<1>2. Behind(t) => Same(i, {k})
    BY DEF Settled
<1>3. Owes(t)
    BY DEF Settled
<1>5. CASE CheckLoaded(t) \/ LoadFails(t)
  <2>1. PICK s \in {"load", "use"} : th' = [th EXCEPT ![t].step = s]
      BY <1>5 DEF CheckLoaded, LoadFails, Goto
  <2>2. /\ th'[t].step = s /\ th'[t].call = th[t].call
        /\ th'[t].rec = th[t].rec
      BY <1>0, <2>1 DEF TypeOK, Local
  <2>3. LookingOn(i)
      BY <1>5 DEF CheckLoaded, LoadFails, LookingOn
  <2>4. Behind(t)' <=> Behind(t)
      BY <1>5, <2>2 DEF Behind, At, CheckLoaded, LoadFails
  <2>5. Same(i, {})' \/ Behind(t)
      BY <1>0, <1>1, <2>3, LookingOnSame
  <2>6. PICK K : K = {k}
      OBVIOUS
  <2>7. Behind(t) => Same(i, K)'
      BY <1>0, <1>2, <2>3, <2>6, LookingOnSame
  <2>8. Owes(t)'
      BY <1>3, <2>2, <2>3, <2>4 DEF Owes, At, RecordIsRow, LookingOn
  <2> QED
      BY <2>2, <2>4, <2>5, <2>6, <2>7, <2>8 DEF Settled
<1>6. CASE LoadQuery(t)
  <2>1. PICK S \in SUBSET Live(rows, now) :
           /\ th' = [th EXCEPT ![t].step = "publish", ![t].snap = S]
           /\ disturbed' = [disturbed EXCEPT ![Home[t]] =
                              @ \/ S # Live(rows, now)]
      BY <1>6 DEF LoadQuery
  <2>2. S = Live(rows, now)
      BY <1>0, <2>1 DEF TypeOK
  <2>3. /\ th'[t].step = "publish" /\ th'[t].call = th[t].call
        /\ th'[t].rec = th[t].rec /\ th'[t].snap = S
      BY <1>0, <2>1 DEF TypeOK, Local
  <2>4. LookingOn(i)
      BY <1>6 DEF LoadQuery, LookingOn
  <2>5. Behind(t)' <=> Behind(t)
      BY <1>6, <2>3 DEF Behind, At, LoadQuery
  <2>6. Same(i, {})' \/ Behind(t)
      BY <1>0, <1>1, <2>4, LookingOnSame
  <2>7. PICK K : K = {k}
      OBVIOUS
  <2>8. Behind(t) => Same(i, K)'
      BY <1>0, <1>2, <2>4, <2>7, LookingOnSame
  <2>9. SnapIsTable(t)'
      BY <2>2, <2>3, <2>4 DEF SnapIsTable, Live, LookingOn
  <2>10. Owes(t)'
      BY <1>3, <2>3, <2>4, <2>5, <2>9 DEF Owes, At, RecordIsRow, LookingOn
  <2> QED
      BY <2>3, <2>5, <2>6, <2>7, <2>8, <2>10 DEF Settled
<1>7. CASE LoadPublish(t)
  <2>1. /\ th'[t].step = "use" /\ th'[t].call = th[t].call
        /\ th'[t].rec = th[t].rec
      BY <1>0, <1>7 DEF LoadPublish, TypeOK, Local
  <2>2. cache'[i] = th[t].snap /\ rows' = rows /\ now' = now
      BY <1>0, <1>7 DEF LoadPublish, CacheWrite, TypeOK
  <2>3. SnapIsTable(t)
      BY <1>3, <1>7 DEF Owes, LoadPublish
  <2>4. \A K : Same(i, K)'
      BY <2>2, <2>3 DEF Same, SnapIsTable
  <2>5. PICK K : K = IF Behind(t)' THEN {th'[t].rec.key} ELSE {}
      OBVIOUS
  <2>6. Same(i, K)'
      BY <2>4
  <2>7. Behind(t)' <=> Behind(t)
      BY <1>7, <2>1 DEF Behind, At, LoadPublish
  <2>8. Owes(t)'
      BY <1>3, <2>1, <2>2, <2>7 DEF Owes, At, RecordIsRow
  <2> QED
      BY <2>5, <2>6, <2>8 DEF Settled
<1>8. CASE AddCommit(t)
  <2>1. /\ th'[t].step = "check" /\ th'[t].call = "Add"
        /\ th'[t].rec = th[t].rec
      BY <1>0, <1>8 DEF AddCommit, Goto, At, TypeOK, Local
  <2>2. Same(i, {})
      BY <1>1, <1>8 DEF AddCommit, Behind, At, Lifters
  <2>3. \A r : r.key # k => (r \in rows' <=> r \in rows)
      BY <1>8 DEF AddCommit, Replaced, OfKey
  <2>4. PICK K : K = {k}
      OBVIOUS
  <2>5. Same(i, K)'
      BY <1>8, <2>2, <2>3, <2>4 DEF Same, AddCommit
  <2>6. RecordIsRow(t)'
      BY <1>8, <2>1 DEF RecordIsRow, AddCommit, Replaced, OfKey
  <2>7. Behind(t)' /\ Owes(t)'
      BY <2>1, <2>6 DEF Behind, Owes, At, Lifters
  <2> QED
      BY <2>1, <2>4, <2>5, <2>7 DEF Settled
<1>9. CASE AddFails(t)
  <2>1. rows' = rows
      BY <1>0, <1>9 DEF AddFails, DisturbAll
  <2>2. th'[t].step = "idle"
      BY <1>9, ReturnIdle DEF AddFails
  <2>3. LookingOn(i) /\ ~Behind(t)
      BY <1>9, <2>1 DEF AddFails, LookingOn, Behind, At, Lifters
  <2> QED
      BY <2>2, <2>3, IdlerSettled
<1>10. CASE AddUse(t) \/ GetBackfill(t)
  <2>1. loaded[i]
      BY <1>10
  <2>2. /\ cache'[i] = Put(cache[i], th[t].rec)
        /\ rows' = rows /\ now' = now /\ loaded' = loaded
      BY <1>0, <1>10, <2>1 DEF AddUse, GetBackfill, CacheWrite, TypeOK
  <2>3. th'[t].step = "idle"
      BY <1>10, <2>1, OneMoves DEF AddUse, GetBackfill, Return, Outside
  <2>4. RecordIsRow(t)
      BY <1>3, <1>10 DEF Owes, AddUse, GetBackfill, At, Behind
  <2>5. \A r \in Record : r.until > now /\ r.key # k
                              => (r \in cache[i] <=> r \in rows)
      BY <1>1, <1>2, <2>1 DEF Same
  <2>6. Same(i, {})'
      BY <2>2, <2>4, <2>5 DEF Same, RecordIsRow, Put
  <2>7. ~Behind(t)' /\ Owes(t)'
      BY <2>3 DEF Behind, Owes, At
  <2> QED
      BY <2>6, <2>7 DEF Settled
<1>11. CASE GetUse(t) \/ ListUse(t) \/ ExpireUse(t)
  <2>1. th'[t].step \in {"idle", "ask", "exec"}
    <3>1. CASE \E a : Return(t, a)
        BY <3>1, ReturnIdle
    <3>2. CASE th' = [th EXCEPT ![t].step = "ask", ![t].asOf = now]
        BY <1>0, <3>2 DEF TypeOK, Local
    <3>3. ASSUME NEW q, NEW d,
                 th' = [th EXCEPT ![t].step = "exec", ![t].rec = q,
                                  ![t].todo = d]
          PROVE  th'[t].step = "exec"
        BY <1>0, <3>3 DEF TypeOK, Local
    <3> QED
        BY <1>11, <3>1, <3>2, <3>3 DEF GetUse, ListUse, ExpireUse
  <2>2. LookingOn(i) /\ ~Behind(t)
      BY <1>11 DEF GetUse, ListUse, ExpireUse, LookingOn, Behind, At, Lifters
  <2> QED
      BY <2>1, <2>2, IdlerSettled
<1>12. CASE GetAsk(t)
  <2>1. LookingOn(i) /\ ~Behind(t)
      BY <1>12 DEF GetAsk, LookingOn, Behind, At, Lifters
  <2>2. CASE Return(t, "unmuted") \/ Return(t, "error")
    <3>1. th'[t].step = "idle"
        BY <2>2, OneMoves DEF Return, Outside
    <3> QED
        BY <2>1, <3>1, IdlerSettled
  <2>3. ASSUME NEW q \in Live(OfKey(rows, k), th[t].asOf),
               th' = [th EXCEPT ![t].step = "backfill", ![t].rec = q]
        PROVE  Settled(t)'
    <3>1. /\ th'[t].step = "backfill" /\ th'[t].call = "Get"
          /\ th'[t].rec = q
        BY <1>0, <1>12, <2>3 DEF GetAsk, At, TypeOK, Local
    <3>2. q \in rows
        BY DEF Live, OfKey
    <3>3. RecordIsRow(t)'
        BY <2>1, <3>1, <3>2 DEF RecordIsRow, OneRecordPerKey, LookingOn
    <3>4. Same(i, {})'
        BY <1>0, <1>1, <2>1, LookingOnSame
    <3>5. ~Behind(t)' /\ Owes(t)'
        BY <3>1, <3>3 DEF Behind, Owes, At, Lifters
    <3> QED
        BY <3>4, <3>5 DEF Settled
  <2> QED
      BY <1>12, <2>2, <2>3 DEF GetAsk
<1>13. CASE LiftExec(t)
  <2>1. /\ th'[t].step = "forget" /\ th'[t].call \in Lifters
        /\ th'[t].rec = th[t].rec
      BY <1>0, <1>13 DEF LiftExec, At, TypeOK, Local
  <2>2. Same(i, {})
      BY <1>1, <1>13 DEF LiftExec, Behind, At
  <2>3. PICK K : K = {k}
      OBVIOUS
  <2>4. Same(i, K)'
      BY <1>13, <2>2, <2>3 DEF Same, LiftExec, OfKey
  <2>5. Behind(t)' /\ Owes(t)'
      BY <1>13, <2>1 DEF LiftExec, OfKey, Behind, Owes, At, Lifters
  <2> QED
      BY <2>1, <2>3, <2>4, <2>5 DEF Settled
<1>14. CASE LiftTransient(t) \/ LiftFails(t)
  <2>1. rows' = rows
      BY <1>0, <1>14 DEF LiftTransient, LiftFails, DisturbAll
  <2>2. th'[t].step \in {"idle", "exec"}
    <3>1. CASE LiftNext(t)
        BY <3>1, LiftNextSteps
    <3>2. ASSUME NEW n, NEW g, th[t].step = "exec",
                 th' = [th EXCEPT ![t].tries = n, ![t].gone = g]
          PROVE  th'[t].step = "exec"
        BY <1>0, <3>2 DEF TypeOK, Local
    <3> QED
        BY <1>14, <3>1, <3>2 DEF LiftTransient, LiftFails, At
  <2>3. LookingOn(i) /\ ~Behind(t)
      BY <1>14, <2>1 DEF LiftTransient, LiftFails, LookingOn, Behind, At
  <2> QED
      BY <2>2, <2>3, IdlerSettled
<1>15. CASE LiftForget(t)
  <2>1. /\ cache'[i] = cache[i] \ OfKey(cache[i], k)
        /\ rows' = rows /\ now' = now /\ loaded' = loaded
      BY <1>0, <1>15 DEF LiftForget, CacheWrite, TypeOK
  <2>2. Same(i, {k})
      BY <1>2, <1>15 DEF LiftForget, Behind
  <2>3. \A r \in Record : r.until > now /\ r.key = k => r \notin rows
      BY <1>3, <1>15 DEF Owes, LiftForget
  <2>4. Same(i, {})'
      BY <2>1, <2>2, <2>3 DEF Same, OfKey
  <2>5. th'[t].step \in {"idle", "exec"}
      BY <1>15, LiftNextSteps DEF LiftForget
  <2>6. ~Behind(t)' /\ Owes(t)'
      BY <2>5 DEF Behind, Owes, At
  <2> QED
      BY <2>4, <2>6 DEF Settled
<1> QED
    BY <1>5, <1>6, <1>7, <1>8, <1>9, <1>10, <1>11, <1>12, <1>13, <1>14, <1>15
    DEF Proceed

\* A step of a call keeps its process in step.
LEMMA ProceedInStep ==
    ASSUME TypeOK, OneRecordPerKey, NEW t \in Threads, Proceed(t),
           ~disturbed'[Home[t]], ~disturbed[Home[t]] => InStep(Home[t])
    PROVE  InStep(Home[t])'
<1> DEFINE i == Home[t]
<1>0. i \in Instances
    BY HomeAssumption
<1>1. ~Idle(t)
    BY DEF Proceed, CheckLoaded, LoadQuery, LoadFails, LoadPublish,
           AddCommit, AddFails, AddUse, GetUse, GetAsk, GetBackfill,
           LiftExec, LiftTransient, LiftFails, LiftForget, ListUse,
           ExpireUse, At, Idle
<1>2. ASSUME ~disturbed[i], Settled(t)'
      PROVE  InStep(i)'
  <2>1. \A u \in Threads \ {t} : Home[u] = i => Idle(u)
      BY <1>0, <1>1, <1>2 DEF InStep, Serial
  <2>2. \A u \in Threads \ {t} : Home[u] = i => Idle(u)'
      BY <2>1, OthersStay DEF Idle, Outside
  <2> QED
      BY <1>2, <2>2, OneSettled
<1>3. CASE (AddUse(t) \/ GetBackfill(t)) /\ ~loaded[i]
  <2>1. NilMapPanic(t)
      BY <1>3 DEF AddUse, GetBackfill
  <2>2. CASE t \notin Recovering
      BY <1>0, <2>1, <2>2, RebornInStep DEF NilMapPanic
  <2>3. CASE t \in Recovering
    <3>1. Return(t, "error") /\ loaded' = loaded /\ disturbed' = disturbed
        BY <2>1, <2>3 DEF NilMapPanic
    <3>2. th'[t].step = "idle"
        BY <3>1, ReturnIdle
    <3>3. Settled(t)'
        BY <1>3, <3>1, <3>2 DEF Settled, Same, Behind, Owes, At
    <3> QED
        BY <1>2, <3>1, <3>3
  <2> QED
      BY <2>2, <2>3
<1>4. CASE AddUse(t) \/ GetBackfill(t) => loaded[i]
  <2>1. ~disturbed[i]
    <3>1. CASE DisturbAll \/ UNCHANGED disturbed
        BY <1>0, <3>1 DEF DisturbAll
    <3>2. CASE DisturbOthers(t)
        BY <1>0, <3>2 DEF DisturbOthers
    <3>3. CASE LoadQuery(t)
        BY <1>0, <3>3 DEF LoadQuery, TypeOK
    <3>4. CASE AddUse(t) \/ GetBackfill(t)
        BY <1>4, <3>1, <3>4 DEF AddUse, GetBackfill
    <3> QED
        BY <3>1, <3>2, <3>3, <3>4
        DEF Proceed, CheckLoaded, LoadFails, LoadPublish, AddCommit, AddFails,
            GetUse, GetAsk, LiftExec, LiftTransient, LiftFails, LiftForget,
            ListUse, ExpireUse
  <2>2. Settled(t)
      BY <1>1, <2>1 DEF InStep
  <2> QED
      BY <1>2, <1>4, <2>1, <2>2, ProceedSettles
<1> QED
    BY <1>3, <1>4

-----------------------------------------------------------------------------
(* The cache and the table                                                 *)

LEMMA InitInStep == Init => UInv
<1> SUFFICES ASSUME Init, NEW i \in Instances PROVE InStep(i)
    BY DEF UInv
<1>1. \A t \in Threads : Idle(t)
    BY DEF Init, Idle, Outside
<1>2. Same(i, {})
    BY DEF Init, Same
<1> QED
    BY <1>1, <1>2 DEF InStep, Serial, AtRest

LEMMA NextInStep == IInv /\ UInv /\ [Next]_vars => UInv'
<1> SUFFICES ASSUME IInv, UInv, [Next]_vars,
                    NEW i \in Instances, ~disturbed'[i]
             PROVE  InStep(i)'
    BY DEF UInv
<1>0. TypeOK /\ OneRecordPerKey
    BY DEF IInv
<1>1. ~disturbed[i] => InStep(i)
    BY DEF UInv
<1>2. ASSUME RowsRun, LeftAlone(i), ~disturbed[i]
      PROVE  InStep(i)'
    BY <1>1, <1>2, LeftInStep
<1>3. ASSUME NEW t \in Threads, Begin(t) \/ Proceed(t)
      PROVE  InStep(i)'
  <2>1. CASE Home[t] # i
      BY <1>0, <1>2, <1>3, <2>1, StepElsewhere
  <2>2. CASE Home[t] = i
      BY <1>0, <1>1, <1>3, <2>2, BeginInStep, ProceedInStep
  <2> QED
      BY <2>1, <2>2
<1>4. ASSUME NEW j \in Instances, Restart(j)
      PROVE  InStep(i)'
    BY <1>0, <1>2, <1>4, RebornInStep, RebornElsewhere DEF Restart
<1>5. ASSUME NEW j \in Instances, InvalidateMuteCache(j)
      PROVE  InStep(i)'
  <2>1. RowsRun /\ disturbed' = disturbed
      BY <1>0, <1>5 DEF InvalidateMuteCache, RowsRun, TypeOK
  <2>2. CASE j # i
    <3>1. LeftAlone(i)
        BY <1>0, <1>5, <2>2 DEF InvalidateMuteCache, CacheWrite, LeftAlone, TypeOK
    <3> QED
        BY <1>2, <2>1, <3>1
  <2>3. CASE j = i
    <3>1. InStep(i)
        BY <1>1, <2>1
    <3>2. ~loaded'[i] /\ th' = th /\ rows' = rows /\ now' = now
        BY <1>0, <1>5, <2>3 DEF InvalidateMuteCache, TypeOK
    <3> QED
        BY <3>1, <3>2
        DEF InStep, Serial, AtRest, Idle, Same, Settled, Behind, Owes, At,
            RecordIsRow, SnapIsTable
  <2> QED
      BY <2>2, <2>3
<1>6. CASE CleanupExpiredMutes
  <2>1. \A r \in Record : r.until > now => r.until + Retention > now
      BY <1>0, BoundsAssumption DEF Record, TypeOK
  <2>2. RowsRun
      BY <1>0, <1>6, <2>1 DEF CleanupExpiredMutes, RowsRun, TypeOK
  <2>3. LeftAlone(i) /\ disturbed' = disturbed
      BY <1>6 DEF CleanupExpiredMutes, LeftAlone
  <2> QED
      BY <1>2, <2>2, <2>3
<1>7. CASE Tick \/ UNCHANGED vars
  <2>1. RowsRun
      BY <1>0, <1>7 DEF Tick, vars, RowsRun, TypeOK
  <2>2. LeftAlone(i) /\ disturbed' = disturbed
      BY <1>7 DEF Tick, vars, LeftAlone
  <2> QED
      BY <1>2, <2>1, <2>2
<1> QED
    BY <1>3, <1>4, <1>5, <1>6, <1>7 DEF Next

\* As long as a process's calls have not overlapped and nobody else has written
\* to the table, its cache shows between calls the running mutes of the table
\* (db.go:49-50), for any number of processes that share the table.
THEOREM CacheInSync == Spec => []InSyncUndisturbed
<1>1. ASSUME IInv, UInv PROVE InSyncUndisturbed
  <2> SUFFICES ASSUME NEW i \in Instances, AtRest(i), ~disturbed[i]
               PROVE  Current(i)
      BY DEF InSyncUndisturbed
  <2>1. Same(i, {})
      BY <1>1 DEF UInv, InStep
  <2>2. cache[i] \subseteq Record /\ rows \subseteq Record
      BY <1>1 DEF IInv, TypeOK
  <2> QED
      BY <2>1, <2>2 DEF Same, Current, Live
<1> QED
    BY <1>1, Invariance, InitInStep, NextInStep, PTL DEF Spec

-----------------------------------------------------------------------------
(* What a call removed and what it reports                                 *)

\* Nothing is gone that the call does not hold, when no reply is lost.
GoneIsTaken ==
    \A t \in Threads :
        th[t].gone = IF th[t].step = "forget" THEN th[t].taken ELSE {}

LEMMA OutsideGone == \A a : Outside(a).gone = {} /\ Outside(a).step = "idle"
BY DEF Outside

\* A call that returns or goes on to its next key lets go of what is gone.
LEMMA LiftNextGone ==
    ASSUME TypeOK, NEW t \in Threads, LiftNext(t)
    PROVE  /\ th'[t].gone = {} /\ th'[t].step \in {"idle", "exec"}
           /\ \A u \in Threads \ {t} : th'[u] = th[u]
<1>1. CASE Return(t, "none")
    BY <1>1, ReturnIdle, OutsideGone, OneMoves DEF Return
<1>2. ASSUME NEW q, NEW d,
             th' = [th EXCEPT ![t] = [Outside("none") EXCEPT
                       !.call = "Expire", !.step = "exec",
                       !.rec = q, !.todo = d]]
      PROVE  /\ th'[t].gone = {}
             /\ \A u \in Threads \ {t} : th'[u] = th[u]
    BY <1>2 DEF TypeOK, Outside
<1> QED
    BY <1>1, <1>2, LiftNextSteps DEF LiftNext

LEMMA ProceedGone ==
    ASSUME TypeOK, ~Remote, GoneIsTaken, NEW t \in Threads, Proceed(t)
    PROVE  GoneIsTaken'
<1>0. th[t] \in Local
    BY DEF TypeOK
<1>1. ASSUME \A u \in Threads \ {t} : th'[u] = th[u],
             th'[t].gone =
                 IF th'[t].step = "forget" THEN th'[t].taken ELSE {}
      PROVE  GoneIsTaken'
    BY <1>1 DEF GoneIsTaken
<1>2. ASSUME NEW a, Return(t, a) PROVE GoneIsTaken'
  <2>1. th'[t].gone = {} /\ th'[t].step = "idle"
      BY <1>2, ReturnIdle, OutsideGone
  <2>2. \A u \in Threads \ {t} : th'[u] = th[u]
      BY <1>2, OneMoves DEF Return
  <2> QED
      BY <1>1, <2>1, <2>2
<1>3. ASSUME Reborn(Home[t]) PROVE GoneIsTaken'
    BY <1>3, OutsideGone DEF Reborn, GoneIsTaken
<1>4. ASSUME NilMapPanic(t) PROVE GoneIsTaken'
    BY <1>2, <1>3, <1>4 DEF NilMapPanic
<1>5. ASSUME LiftNext(t) PROVE GoneIsTaken'
    BY <1>1, <1>5, LiftNextGone
<1>6. ASSUME \A u \in Threads \ {t} : th'[u] = th[u],
             th'[t].gone = th[t].gone,
             th[t].step # "forget", th'[t].step # "forget"
      PROVE  GoneIsTaken'
    BY <1>1, <1>6 DEF GoneIsTaken
<1>7. CASE \/ CheckLoaded(t) \/ LoadQuery(t) \/ LoadFails(t) \/ LoadPublish(t)
           \/ AddCommit(t)
    BY <1>0, <1>6, <1>7
    DEF CheckLoaded, LoadQuery, LoadFails, LoadPublish, AddCommit, Goto, At,
        TypeOK, Local
<1>8. CASE AddFails(t) \/ AddUse(t) \/ GetBackfill(t) \/ ListUse(t)
    BY <1>2, <1>4, <1>8 DEF AddFails, AddUse, GetBackfill, ListUse
<1>9. CASE GetUse(t)
  <2>1. CASE th' = [th EXCEPT ![t].step = "ask", ![t].asOf = now]
      BY <1>0, <1>6, <1>9, <2>1 DEF GetUse, At, TypeOK, Local
  <2> QED
      BY <1>2, <1>9, <2>1 DEF GetUse
<1>10. CASE GetAsk(t)
  <2>1. ASSUME NEW r, th' = [th EXCEPT ![t].step = "backfill", ![t].rec = r]
        PROVE  GoneIsTaken'
      BY <1>0, <1>6, <1>10, <2>1 DEF GetAsk, At, TypeOK, Local
  <2> QED
      BY <1>2, <1>10, <2>1 DEF GetAsk
<1>11. CASE ExpireUse(t)
  <2>1. ASSUME NEW q, NEW d,
               th' = [th EXCEPT ![t].step = "exec", ![t].rec = q,
                                ![t].todo = d]
        PROVE  GoneIsTaken'
      BY <1>0, <1>6, <1>11, <2>1 DEF ExpireUse, At, TypeOK, Local
  <2> QED
      BY <1>2, <1>11, <2>1 DEF ExpireUse
<1>12. CASE LiftExec(t)
  <2>1. PICK g : g = IdsOf(OfKey(rows, th[t].rec.key))
      OBVIOUS
  <2>2. th' = [th EXCEPT ![t].step = "forget", ![t].taken = g,
                         ![t].gone = th[t].gone \cup g]
      BY <1>12, <2>1 DEF LiftExec
  <2>3. th[t].gone = {}
      BY <1>12 DEF LiftExec, At, GoneIsTaken
  <2>4. /\ th'[t].step = "forget" /\ th'[t].taken = g /\ th'[t].gone = g
        /\ \A u \in Threads \ {t} : th'[u] = th[u]
      BY <1>0, <2>2, <2>3 DEF TypeOK, Local
  <2> QED
      BY <1>1, <2>4
<1>13. CASE LiftTransient(t)
  <2>1. ASSUME NEW n, th' = [th EXCEPT ![t].tries = n, ![t].gone = th[t].gone]
        PROVE  GoneIsTaken'
      BY <1>0, <1>6, <1>13, <2>1 DEF LiftTransient, At, TypeOK, Local
  <2> QED
      BY <1>5, <1>13, <2>1 DEF LiftTransient
<1>14. CASE LiftFails(t) \/ LiftForget(t)
    BY <1>5, <1>14 DEF LiftFails, LiftForget
<1> QED
    BY <1>7, <1>8, <1>9, <1>10, <1>11, <1>12, <1>13, <1>14 DEF Proceed

\* With a local database a statement that failed has changed nothing, so an
\* unmute that removed a record says so (operations.go:252-253), however often
\* it was retried.  With a remote one it may not: the reply to the statement
\* that removed the record may be the one that was lost.
THEOREM RemovalReported ==
    ASSUME ~Remote
    PROVE  Spec => []ReportMatchesRemoval
<1>1. Init => GoneIsTaken
    BY OutsideGone DEF Init, GoneIsTaken
<1>2. ASSUME IInv, GoneIsTaken, [Next]_vars
      PROVE  GoneIsTaken'
  <2>0. TypeOK
      BY <1>2 DEF IInv
  <2>1. ASSUME NEW t \in Threads, Begin(t)
        PROVE  GoneIsTaken'
    <3>1. ASSUME NEW c, NEW s, s # "forget", NEW r, Enter(t, c, s, r)
          PROVE  GoneIsTaken'
      <4>1. /\ th'[t].gone = {} /\ th'[t].step = s
            /\ \A u \in Threads \ {t} : th'[u] = th[u]
          BY <2>0, <3>1 DEF Enter, TypeOK, Outside
      <4> QED
          BY <1>2, <3>1, <4>1 DEF GoneIsTaken
    <3> QED
        BY <2>1, <3>1 DEF Begin, BeginAdd, BeginGet, BeginUnmute, BeginScan
  <2>2. ASSUME NEW t \in Threads, Proceed(t)
        PROVE  GoneIsTaken'
      BY <1>2, <2>0, <2>2, ProceedGone
  <2>3. ASSUME NEW i \in Instances, Restart(i)
        PROVE  GoneIsTaken'
      BY <1>2, <2>3, OutsideGone DEF Restart, Reborn, GoneIsTaken
  <2>4. CASE \/ \E i \in Instances : InvalidateMuteCache(i)
             \/ CleanupExpiredMutes \/ Tick \/ UNCHANGED vars
      BY <1>2, <2>4
      DEF InvalidateMuteCache, CleanupExpiredMutes, Tick, vars, GoneIsTaken
  <2> QED
      BY <1>2, <2>1, <2>2, <2>3, <2>4 DEF Next
<1>3. GoneIsTaken => ReportMatchesRemoval
    BY DEF GoneIsTaken, ReportMatchesRemoval, At
<1> QED
    BY <1>1, <1>2, <1>3, Invariance, PTL DEF Spec
==============================================================================
