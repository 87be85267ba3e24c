------------------------------ MODULE MuteStore ------------------------------
(***************************************************************************)
(* The store of active mutes: the muted_users table and the per-process    *)
(* cache muteCache in front of it (internal/database/operations.go).       *)
(*                                                                         *)
(* A thread is a goroutine of one running bot (an instance).  A call is    *)
(* taken apart at every point where another goroutine can run: each SQL    *)
(* statement and each section under muteMu is one step, everything between *)
(* two of them is not atomic.  Several instances may share the table; each *)
(* has a cache of its own.                                                 *)
(***************************************************************************)
EXTENDS Naturals, FiniteSets

CONSTANTS
    Keys,        \* (user, chat) pairs: muteKey
    Instances,   \* bot processes that share the database
    Threads,     \* goroutines that call the store
    Home,        \* Home[t]: the process goroutine t belongs to
    Recovering,  \* goroutines whose caller recovers from a panic
    Remote,      \* the provider is remote: a reply may be lost, a result cut
    MaxMutes,    \* bound: mutes ever issued
    MaxTime,     \* bound: the clock
    StaleAge,    \* muteCacheStaleThreshold
    Retention    \* the cleanup task's retention for mute records

MaxAttempts == 3

ASSUME KeysAssumption == Keys # {}
ASSUME HomeAssumption == Home \in [Threads -> Instances]
ASSUME RecoveringAssumption == Recovering \subseteq Threads
ASSUME RemoteAssumption == Remote \in BOOLEAN
ASSUME BoundsAssumption == /\ MaxMutes \in Nat
                           /\ MaxTime \in Nat
                           /\ StaleAge \in Nat
                           /\ Retention \in Nat

VARIABLES
    now,        \* the clock all processes read
    nextId,     \* the next mute's identity (its muted_at, unique per row)
    rows,       \* muted_users: the rows with is_active = 1
    cache,      \* cache[i]: the entries of instance i's muteCache
    loaded,     \* loaded[i]: muteCache is not nil
    refreshed,  \* refreshed[i]: muteCacheLastRefresh
    leaked,     \* leaked[i]: muteMu was left locked by a recovered panic
    th,         \* th[t]: goroutine t's place in a call, and its locals
    credited,   \* history: unmute calls that reported removing record id
    disturbed   \* history: i's calls overlapped, or someone else wrote

vars == <<now, nextId, rows, cache, loaded, refreshed, leaked, th, credited,
          disturbed>>

-----------------------------------------------------------------------------
(* Data                                                                    *)

Ids == 1 .. MaxMutes

Record == [key : Keys, id : 0 .. MaxMutes, until : Nat]

OnlyKey(k) == [key |-> k, id |-> 0, until |-> 0]

Calls == {"none", "Add", "Get", "Unmute", "List", "Expire"}

Steps == {"idle", "tx", "check", "load", "publish", "use", "ask", "backfill",
          "exec", "forget"}

Answers == {"none", "muted", "unmuted", "error"}

Local == [call : Calls, step : Steps, rec : Record, asOf : Nat,
          snap : SUBSET Record, tries : 0 .. MaxAttempts - 1,
          taken : SUBSET Ids, gone : SUBSET Ids, todo : SUBSET Keys,
          answer : Answers]

AnyKey == CHOOSE k \in Keys : TRUE

\* A goroutine outside the store, the answer of its last call at hand.
Outside(a) ==
    [call |-> "none", step |-> "idle", rec |-> OnlyKey(AnyKey), asOf |-> 0,
     snap |-> {}, tries |-> 0, taken |-> {}, gone |-> {}, todo |-> {},
     answer |-> a]

OfKey(S, k) == {r \in S : r.key = k}

Live(S, n) == {r \in S : r.until > n}

Put(S, r) == {s \in S : s.key # r.key} \cup {r}

IdsOf(S) == {r.id : r \in S}

Idle(t) == th[t].step = "idle"

At(t, calls, s) == th[t].call \in calls /\ th[t].step = s

Goto(t, s) == th' = [th EXCEPT ![t].step = s]

Return(t, a) == th' = [th EXCEPT ![t] = Outside(a)]

-----------------------------------------------------------------------------
(* History                                                                 *)

\* A write by thread t that its own process does not overlook.
DisturbOthers(t) ==
    disturbed' = [i \in Instances |-> disturbed[i] \/ i # Home[t]]

DisturbAll == disturbed' = [i \in Instances |-> TRUE]

-----------------------------------------------------------------------------
(* A process dies and a new one takes its place.                           *)

\* Init opens the database and loads the cache before any goroutine starts.
Reborn(i) ==
    /\ th' = [t \in Threads |-> IF Home[t] = i THEN Outside("none") ELSE th[t]]
    /\ cache' = [cache EXCEPT ![i] = Live(rows, now)]
    /\ loaded' = [loaded EXCEPT ![i] = TRUE]
    /\ refreshed' = [refreshed EXCEPT ![i] = now]
    /\ leaked' = [leaked EXCEPT ![i] = FALSE]
    /\ disturbed' = [disturbed EXCEPT ![i] = FALSE]
    /\ UNCHANGED <<now, nextId, rows, credited>>

Restart(i) == Reborn(i)

\* Writing to a nil map under muteMu panics before the unlock.  Where the
\* caller recovers (net/http, executeWithLock) the mutex stays locked; where
\* it does not, the process dies.
NilMapPanic(t) ==
    IF t \in Recovering
    THEN /\ leaked' = [leaked EXCEPT ![Home[t]] = TRUE]
         /\ Return(t, "error")
         /\ UNCHANGED <<now, nextId, rows, cache, loaded, refreshed, credited,
                        disturbed>>
    ELSE Reborn(Home[t])

CacheWrite(i, entries) == cache' = [cache EXCEPT ![i] = entries]

-----------------------------------------------------------------------------
(* The start of a call                                                     *)

\* th[t] at the first step of a call.
Enter(t, c, s, r) ==
    /\ Idle(t)
    /\ th' = [th EXCEPT ![t] = [Outside("none") EXCEPT !.call = c,
                                                       !.step = s,
                                                       !.rec = r]]
    /\ disturbed' = [disturbed EXCEPT ![Home[t]] =
                        @ \/ \E u \in Threads \ {t} :
                                Home[u] = Home[t] /\ ~Idle(u)]

BeginAdd(t, k, u) ==
    /\ nextId <= MaxMutes
    /\ u > now
    /\ Enter(t, "Add", "tx", [key |-> k, id |-> nextId, until |-> u])
    /\ nextId' = nextId + 1
    /\ UNCHANGED <<now, rows, cache, loaded, refreshed, leaked, credited>>

\* A read asks for the cache first; an unmute goes straight to the table.
BeginGet(t, k) ==
    /\ Enter(t, "Get", "check", OnlyKey(k))
    /\ UNCHANGED <<now, nextId, rows, cache, loaded, refreshed, leaked,
                   credited>>

BeginUnmute(t, k) ==
    /\ Enter(t, "Unmute", "exec", OnlyKey(k))
    /\ UNCHANGED <<now, nextId, rows, cache, loaded, refreshed, leaked,
                   credited>>

\* GetActiveMutedUsers, and one round of checkExpiredMutes.
BeginScan(t, c) ==
    /\ c \in {"List", "Expire"}
    /\ Enter(t, c, "check", OnlyKey(AnyKey))
    /\ UNCHANGED <<now, nextId, rows, cache, loaded, refreshed, leaked,
                   credited>>

-----------------------------------------------------------------------------
(* ensureMuteCacheLoaded and loadMuteCache                                 *)

\* List reloads a cache that is too old as well as one that is gone.
NeedsLoad(t) ==
    \/ ~loaded[Home[t]]
    \/ th[t].call = "List" /\ now > refreshed[Home[t]] + StaleAge

CheckLoaded(t) ==
    /\ th[t].step = "check"
    /\ ~leaked[Home[t]]
    /\ Goto(t, IF NeedsLoad(t) THEN "load" ELSE "use")
    /\ UNCHANGED <<now, nextId, rows, cache, loaded, refreshed, leaked,
                   credited, disturbed>>

\* The SELECT.  rows.Err is not consulted, so a result set a remote driver
\* cuts short passes for a complete one.
LoadQuery(t) ==
    /\ th[t].step = "load"
    /\ \E S \in SUBSET Live(rows, now) :
          /\ S = Live(rows, now) \/ Remote
          /\ th' = [th EXCEPT ![t].step = "publish", ![t].snap = S]
          /\ disturbed' = [disturbed EXCEPT ![Home[t]] =
                              @ \/ S # Live(rows, now)]
    /\ UNCHANGED <<now, nextId, rows, cache, loaded, refreshed, leaked,
                   credited>>

\* A failed load is logged and the call goes on with the cache as it is.
LoadFails(t) ==
    /\ th[t].step = "load"
    /\ Goto(t, "use")
    /\ UNCHANGED <<now, nextId, rows, cache, loaded, refreshed, leaked,
                   credited, disturbed>>

LoadPublish(t) ==
    /\ th[t].step = "publish"
    /\ ~leaked[Home[t]]
    /\ CacheWrite(Home[t], th[t].snap)
    /\ loaded' = [loaded EXCEPT ![Home[t]] = TRUE]
    /\ refreshed' = [refreshed EXCEPT ![Home[t]] = now]
    /\ th' = [th EXCEPT ![t].step = "use", ![t].snap = {}]
    /\ UNCHANGED <<now, nextId, rows, leaked, credited, disturbed>>

\* Mutation: only the age is reset, the entries stay.
InvalidateAgeOnly(i) ==
    /\ ~leaked[i]
    /\ refreshed' = [refreshed EXCEPT ![i] = 0]
    /\ UNCHANGED <<now, nextId, rows, cache, loaded, leaked, th, credited,
                   disturbed>>

InvalidateMuteCache(i) ==
    /\ ~leaked[i]
    /\ CacheWrite(i, {})
    /\ loaded' = [loaded EXCEPT ![i] = FALSE]
    /\ UNCHANGED <<now, nextId, rows, refreshed, leaked, th, credited,
                   disturbed>>

-----------------------------------------------------------------------------
(* AddMutedUserSafely                                                      *)

\* Mutation: AddMutedUser's bare INSERT.
InsertedOnly(r) == rows \cup {r}

\* What the transaction leaves: no older record of the key, and the new one.
Replaced(r) == (rows \ OfKey(rows, r.key)) \cup {r}

AddCommit(t) ==
    /\ At(t, {"Add"}, "tx")
    /\ rows' = Replaced(th[t].rec)
    /\ Goto(t, "check")
    /\ DisturbOthers(t)
    /\ UNCHANGED <<now, nextId, cache, loaded, refreshed, leaked, credited>>

\* The transaction is not retried.  A remote commit whose reply is lost has
\* happened all the same.
AddFails(t) ==
    /\ At(t, {"Add"}, "tx")
    /\ \/ /\ UNCHANGED <<rows, disturbed>>
       \/ /\ Remote
          /\ rows' = Replaced(th[t].rec)
          /\ DisturbAll
    /\ Return(t, "error")
    /\ UNCHANGED <<now, nextId, cache, loaded, refreshed, leaked, credited>>

AddUse(t) ==
    /\ At(t, {"Add"}, "use")
    /\ ~leaked[Home[t]]
    /\ IF loaded[Home[t]]
       THEN /\ CacheWrite(Home[t], Put(cache[Home[t]], th[t].rec))
            /\ Return(t, "none")
            /\ UNCHANGED <<now, nextId, rows, loaded, refreshed, leaked,
                           credited, disturbed>>
       ELSE NilMapPanic(t)

-----------------------------------------------------------------------------
(* GetActiveMuteInfo                                                       *)

\* Mutation: no fallback to the table.
GetUseCacheOnly(t) ==
    LET hits == Live(OfKey(cache[Home[t]], th[t].rec.key), now)
    IN  /\ At(t, {"Get"}, "use")
        /\ ~leaked[Home[t]]
        /\ \/ hits # {} /\ Return(t, "muted")
           \/ hits = {} /\ Return(t, "unmuted")
        /\ UNCHANGED <<now, nextId, rows, cache, loaded, refreshed, leaked,
                       credited, disturbed>>

\* The clock is read once, before the cache lookup; the query reuses it.
GetUse(t) ==
    LET hits == Live(OfKey(cache[Home[t]], th[t].rec.key), now)
    IN  /\ At(t, {"Get"}, "use")
        /\ ~leaked[Home[t]]
        /\ \/ hits # {} /\ Return(t, "muted")
           \/ /\ hits = {}
              /\ th' = [th EXCEPT ![t].step = "ask", ![t].asOf = now]
        /\ UNCHANGED <<now, nextId, rows, cache, loaded, refreshed, leaked,
                       credited, disturbed>>

\* The fallback query, when the cache has nothing.
GetAsk(t) ==
    LET found == Live(OfKey(rows, th[t].rec.key), th[t].asOf)
    IN  /\ At(t, {"Get"}, "ask")
        /\ \/ \E r \in found :
                 th' = [th EXCEPT ![t].step = "backfill", ![t].rec = r]
           \/ found = {} /\ Return(t, "unmuted")
           \/ Return(t, "error")
        /\ UNCHANGED <<now, nextId, rows, cache, loaded, refreshed, leaked,
                       credited, disturbed>>

GetBackfill(t) ==
    /\ At(t, {"Get"}, "backfill")
    /\ ~leaked[Home[t]]
    /\ IF loaded[Home[t]]
       THEN /\ CacheWrite(Home[t], Put(cache[Home[t]], th[t].rec))
            /\ Return(t, "muted")
            /\ UNCHANGED <<now, nextId, rows, loaded, refreshed, leaked,
                           credited, disturbed>>
       ELSE NilMapPanic(t)

-----------------------------------------------------------------------------
(* unmuteUser, called for one key or for each key of an expiry round       *)

\* The next key of the round, in the map's random order, or the end of it.
LiftNext(t) ==
    \/ th[t].todo = {} /\ Return(t, "none")
    \/ \E k \in th[t].todo :
          th' = [th EXCEPT ![t] = [Outside("none") EXCEPT
                    !.call = "Expire", !.step = "exec", !.rec = OnlyKey(k),
                    !.todo = th[t].todo \ {k}]]

Lifters == {"Unmute", "Expire"}

\* Mutation: the flag comes from the cache, not from RowsAffected.
LiftExecByCache(t) ==
    LET hit == OfKey(rows, th[t].rec.key)
        cached == OfKey(cache[Home[t]], th[t].rec.key)
    IN  /\ At(t, Lifters, "exec")
        /\ rows' = rows \ hit
        /\ th' = [th EXCEPT ![t].step = "forget", ![t].taken = IdsOf(cached),
                            ![t].gone = @ \cup IdsOf(hit)]
        /\ DisturbOthers(t)
        /\ UNCHANGED <<now, nextId, cache, loaded, refreshed, leaked,
                       credited>>

LiftExec(t) ==
    LET hit == OfKey(rows, th[t].rec.key)
    IN  /\ At(t, Lifters, "exec")
        /\ rows' = rows \ hit
        /\ th' = [th EXCEPT ![t].step = "forget", ![t].taken = IdsOf(hit),
                            ![t].gone = @ \cup IdsOf(hit)]
        /\ DisturbOthers(t)
        /\ UNCHANGED <<now, nextId, cache, loaded, refreshed, leaked,
                       credited>>

\* Mutation: one attempt too many.
LastTryLate(t) == th[t].tries = MaxAttempts

LastTry(t) == th[t].tries + 1 = MaxAttempts

\* A transient error: the statement is tried again, three times in all.  When
\* only the reply was lost the rows are already gone.
LiftTransient(t) ==
    LET hit == OfKey(rows, th[t].rec.key)
    IN  /\ At(t, Lifters, "exec")
        /\ \E lost \in BOOLEAN :
              /\ lost => Remote
              /\ rows' = IF lost THEN rows \ hit ELSE rows
              /\ IF lost THEN DisturbAll ELSE UNCHANGED disturbed
              /\ IF LastTry(t)
                 THEN LiftNext(t)
                 ELSE th' = [th EXCEPT ![t].tries = @ + 1,
                        ![t].gone = IF lost THEN @ \cup IdsOf(hit) ELSE @]
        /\ UNCHANGED <<now, nextId, cache, loaded, refreshed, leaked,
                       credited>>

\* Any other error ends the call at once.
LiftFails(t) ==
    /\ At(t, Lifters, "exec")
    /\ LiftNext(t)
    /\ UNCHANGED <<now, nextId, rows, cache, loaded, refreshed, leaked,
                   credited, disturbed>>

\* Mutation: the cache keeps the entry.
LiftForgetNothing(t) ==
    /\ At(t, Lifters, "forget")
    /\ ~leaked[Home[t]]
    /\ credited' = [id \in Ids |->
                       credited[id] + (IF id \in th[t].taken THEN 1 ELSE 0)]
    /\ LiftNext(t)
    /\ UNCHANGED <<now, nextId, rows, cache, loaded, refreshed, leaked,
                   disturbed>>

\* The cache entry goes, and the call reports whether a row was removed.
LiftForget(t) ==
    /\ At(t, Lifters, "forget")
    /\ ~leaked[Home[t]]
    /\ CacheWrite(Home[t], cache[Home[t]] \ OfKey(cache[Home[t]],
                                                  th[t].rec.key))
    /\ credited' = [id \in Ids |->
                       credited[id] + (IF id \in th[t].taken THEN 1 ELSE 0)]
    /\ LiftNext(t)
    /\ UNCHANGED <<now, nextId, rows, loaded, refreshed, leaked, disturbed>>

-----------------------------------------------------------------------------
(* Scans of the cache                                                      *)

\* GetActiveMutedUsers only reads what the load left.
ListUse(t) ==
    /\ At(t, {"List"}, "use")
    /\ ~leaked[Home[t]]
    /\ Return(t, "none")
    /\ UNCHANGED <<now, nextId, rows, cache, loaded, refreshed, leaked,
                   credited, disturbed>>

\* GetExpiredMutes: the cached entries whose time is over.
Expired(i) == cache[i] \ Live(cache[i], now)

ExpireUse(t) ==
    LET keys == {r.key : r \in Expired(Home[t])}
    IN  /\ At(t, {"Expire"}, "use")
        /\ ~leaked[Home[t]]
        /\ \/ keys = {} /\ Return(t, "none")
           \/ \E k \in keys :
                 th' = [th EXCEPT ![t].step = "exec", ![t].rec = OnlyKey(k),
                                  ![t].todo = keys \ {k}]
        /\ UNCHANGED <<now, nextId, rows, cache, loaded, refreshed, leaked,
                       credited, disturbed>>

-----------------------------------------------------------------------------
(* The cleanup task, the clock                                             *)

CleanupExpiredMutes ==
    /\ rows' = {r \in rows : r.until + Retention > now}
    /\ UNCHANGED <<now, nextId, cache, loaded, refreshed, leaked, th,
                   credited, disturbed>>

Tick ==
    /\ now < MaxTime
    /\ now' = now + 1
    /\ UNCHANGED <<nextId, rows, cache, loaded, refreshed, leaked, th,
                   credited, disturbed>>

-----------------------------------------------------------------------------
Init ==
    /\ now = 0
    /\ nextId = 1
    /\ rows = {}
    /\ cache = [i \in Instances |-> {}]
    /\ loaded = [i \in Instances |-> TRUE]
    /\ refreshed = [i \in Instances |-> 0]
    /\ leaked = [i \in Instances |-> FALSE]
    /\ th = [t \in Threads |-> Outside("none")]
    /\ credited = [id \in Ids |-> 0]
    /\ disturbed = [i \in Instances |-> FALSE]

Begin(t) ==
    \/ \E k \in Keys, u \in 1 .. MaxTime + 1 : BeginAdd(t, k, u)
    \/ \E k \in Keys : BeginGet(t, k) \/ BeginUnmute(t, k)
    \/ \E c \in {"List", "Expire"} : BeginScan(t, c)

\* The steps of a call in progress.
Proceed(t) ==
    \/ CheckLoaded(t) \/ LoadQuery(t) \/ LoadFails(t) \/ LoadPublish(t)
    \/ AddCommit(t) \/ AddFails(t) \/ AddUse(t)
    \/ GetUse(t) \/ GetAsk(t) \/ GetBackfill(t)
    \/ LiftExec(t) \/ LiftTransient(t) \/ LiftFails(t) \/ LiftForget(t)
    \/ ListUse(t) \/ ExpireUse(t)

Next ==
    \/ \E t \in Threads : Begin(t) \/ Proceed(t)
    \/ \E i \in Instances : InvalidateMuteCache(i) \/ Restart(i)
    \/ CleanupExpiredMutes
    \/ Tick

Spec == Init /\ [][Next]_vars

\* Every goroutine gets to run, and the scheduled tasks of every process keep
\* invalidating its cache (runIntervalTask's ticker).
Fairness ==
    /\ \A t \in Threads : WF_vars(Proceed(t))
    /\ \A i \in Instances : WF_vars(InvalidateMuteCache(i))

LiveSpec == Spec /\ Fairness

-----------------------------------------------------------------------------
(* Properties                                                              *)

\* Every variable holds a value of its type; a call tries a statement at most
\* three times (retryOnTransientError).
TypeOK ==
    /\ now \in Nat
    /\ nextId \in 1 .. MaxMutes + 1
    /\ rows \subseteq Record
    /\ cache \in [Instances -> SUBSET Record]
    /\ loaded \in [Instances -> BOOLEAN]
    /\ refreshed \in [Instances -> Nat]
    /\ leaked \in [Instances -> BOOLEAN]
    /\ th \in [Threads -> Local]
    /\ credited \in [Ids -> Nat]
    /\ disturbed \in [Instances -> BOOLEAN]

\* A user has at most one active mute in a chat, whatever mutes, unmutes,
\* expiry rounds, retries and crashes interleave, in one process or several
\* (AddMutedUserSafely's "deactivating any existing active mutes").
OneRecordPerKey == \A r, s \in rows : r.key = s.key => r = s

\* One mute is reported as removed by at most one call, and never while it is
\* still there: UnmuteUserIfActive's flag may gate a notification.
LiftReportedOnce ==
    \A id \in Ids : /\ credited[id] <= 1
                    /\ id \in IdsOf(rows) => credited[id] = 0

\* GetActiveMuteInfo never answers "not muted" at a moment at which the table
\* holds a live mute, however old its cache is.
NoFalseUnmuted ==
    [][\A t \in Threads :
          th[t].call = "Get" /\ th'[t] = Outside("unmuted")
             => Live(OfKey(rows, th[t].rec.key), now) = {}]_vars

\* The live mutes the cache shows are those of the table.
Current(i) == loaded[i] => Live(cache[i], now) = Live(rows, now)

AtRest(i) == \A t \in Threads : Home[t] = i => Idle(t)

\* As long as a process's calls have not overlapped, nobody else has written
\* to the table and no reply was lost, its cache agrees with the table between
\* calls, whatever was invalidated, reloaded, failed or expired meanwhile.
InSyncUndisturbed ==
    \A i \in Instances : AtRest(i) /\ ~disturbed[i] => Current(i)

\* A cache that a race left wrong does not stay wrong: once no more mutes are
\* issued, every cache ends up agreeing with the table, because every process
\* keeps invalidating its own.
EventuallyCurrent == <>[](\A i \in Instances : Current(i))

\* "clears the in-memory mute cache so it will be reloaded from the database
\* on next access" (operations.go:156): no caller meets a nil map, so no panic
\* ever leaves muteMu locked.
NoLeakedLock == \A i \in Instances : ~leaked[i]

\* "the returned flag is a reliable 'this call performed the unmute' signal"
\* (operations.go:252): a call that removed the record reports it.
ReportMatchesRemoval ==
    \A t \in Threads :
       At(t, {"Unmute"}, "forget") /\ th[t].gone # {} => th[t].taken # {}
==============================================================================
