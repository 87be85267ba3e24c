----------------------------- MODULE Enforcement -----------------------------
(***************************************************************************)
(* How a mute of one user is carried out.  A mute is three things: a row   *)
(* in muted_users, its entry in the mute cache, and the restriction that   *)
(* Telegram keeps on its side.  Handlers (admin callbacks, the web UI,     *)
(* automatic moderation, night mode, the expiry checker) write the record  *)
(* first and then call Telegram once per chat, and nothing makes the two   *)
(* one step: handlers overlap, Telegram refuses, the process dies between  *)
(* them, and a reload of the cache forgets what has just expired.          *)
(*                                                                         *)
(* The store's calls are single steps here; MuteStore takes them apart.    *)
(***************************************************************************)
EXTENDS Integers

CONSTANTS
    Chats,        \* moderation.chat_ids
    NoChat,       \* not a chat
    Handlers,     \* goroutines that serve updates, callbacks and web requests
    Checker,      \* the goroutine of startMuteExpirationChecker
    Modes,        \* settings of moderation.mute_across_all_chats considered
    Minutes,      \* durations an admin or a rule may ask for; 0 is "forever"
    NightEnd,     \* the end of the night-mode window
    MinRestrict,  \* Telegram: a shorter restriction is a permanent one
    Retention,    \* the cleanup task's retention for mute records
    Forever,      \* a deadline the clock never reaches
    MaxTime,      \* bound: the clock
    MaxMutes,     \* bound: mutes ever issued
    MaxFaults     \* bound: refusals, errors, lost replies and crashes

ASSUME ChatsAssumption == NoChat \notin Chats
ASSUME CheckerAssumption == Checker \notin Handlers
ASSUME ModesAssumption == Modes \subseteq BOOLEAN
ASSUME TimesAssumption == /\ Minutes \subseteq Nat
                          /\ {NightEnd, MinRestrict, Retention} \subseteq Nat
                          /\ {Forever, MaxTime} \subseteq Nat
                          /\ Forever > MaxTime
\* Nothing is later than Forever: a restriction for good outlasts any mute.
ASSUME ForeverAssumption == /\ NightEnd <= Forever
                            /\ \A m \in Minutes : MaxTime + m <= Forever
ASSUME BoundsAssumption == {MaxMutes, MaxFaults} \subseteq Nat

VARIABLES
    everywhere,  \* moderation.mute_across_all_chats
    now,
    rec,         \* rec[c]: the user's active row in muted_users for chat c
    cache,       \* cache[c]: the entry of muteCache
    tg,          \* tg[c]: Telegram restricts the user in c until then
    job,         \* job[w]: goroutine w's place in its handler, and its locals
    issued,      \* mutes ever issued
    faults,
    upset        \* upset[c]: history, what has come between record and
                 \* restriction since a handler last had c to itself

vars == <<everywhere, now, rec, cache, tg, job, issued, faults, upset>>

-----------------------------------------------------------------------------
(* Data                                                                    *)

Workers == Handlers \cup {Checker}

None == [is |-> "none", until |-> 0]

Record == {None} \cup [is : {"plain", "cruel"}, until : Nat]

Tasks == {"none", "mute", "unmute", "expire", "command"}

Steps == {"idle", "restrict", "rollback", "free", "next", "drop"}

\* Why record and restriction of a chat may differ.
\*   torn      handlers overlapped, or one died half-way; a store call failed
\*             or did not tell what it had done; a command went past the record
\*   crossed   records of two chats stand for the same restrictions
\*   recast    a cruel mute took the record of a restricted user
\*   refused   Telegram refused to restrict or to free
\*   reloaded  a load of the cache left out a record that had expired
Reasons == {"torn", "crossed", "recast", "refused", "reloaded"}

Job == [task : Tasks, step : Steps, chat : Chats \cup {NoChat}, until : Nat,
        todo : SUBSET Chats, refused : BOOLEAN, list : SUBSET Chats,
        harsh : SUBSET Chats, sole : BOOLEAN]

NoJob == [task |-> "none", step |-> "idle", chat |-> NoChat, until |-> 0,
          todo |-> {}, refused |-> FALSE, list |-> {}, harsh |-> {},
          sole |-> TRUE]

\* The chats a restriction asked for in chat c is applied to.
Targets(c) == IF everywhere THEN Chats ELSE {c}

Active(r) == r # None /\ r.until > now

Expired(r) == r # None /\ r.until <= now

Restricted(c) == tg[c] > now

\* What loadMuteCache reads.
Loaded == [c \in Chats |-> IF Active(rec[c]) THEN rec[c] ELSE None]

\* A date less than MinRestrict away, or too far, restricts for good.
TelegramUntil(u) ==
    IF u >= Forever \/ u < now + MinRestrict THEN Forever ELSE u

At(w, s) == job[w].step = s

Goto(w, j) == job' = [job EXCEPT ![w] = j]

Return(w) == Goto(w, NoJob)

Fault == faults < MaxFaults /\ faults' = faults + 1

-----------------------------------------------------------------------------
(* History                                                                 *)

\* The chats goroutine j has yet to finish with.
Scope(j) ==
    UNION {Targets(c) : c \in j.list \cup (IF j.step \in {"idle", "next"}
                                           THEN {} ELSE {j.chat})}

\* "torn" drowns every other reason.
Mark(S, why) ==
    [c \in Chats |-> IF c \notin S \/ upset[c] = {"torn"} THEN upset[c]
                     ELSE IF "torn" \in why THEN {"torn"}
                     ELSE upset[c] \cup why]

\* Another chat's record shares the restrictions made for chat c.
Crowded(c) ==
    everywhere /\ \E d \in Chats \ {c} : rec[d] # None \/ cache[d] # None

\* A handler that had its chats to itself, and was refused nothing, is done.
Settled(j) ==
    IF j.sole /\ ~j.refused /\ ~Crowded(j.chat)
    THEN [t \in Chats |-> IF t \in Targets(j.chat) THEN {} ELSE upset[t]]
    ELSE upset

\* Goroutine w takes on job j and is left with job k (the same, or none if it
\* is through at once); why is what it does to the chats of the job.
Begin(w, j, k, why) ==
    LET met == {v \in Workers : Scope(job[v]) \cap Scope(j) # {}}
        shared == UNION {Scope(job[v]) : v \in met}
        crossed == IF \E c \in Chats \cap (j.list \cup {j.chat}) : Crowded(c)
                   THEN {"crossed"} ELSE {}
    IN  /\ At(w, "idle")
        /\ job' = [v \in Workers |->
                      IF v = w THEN [k EXCEPT !.sole = (met = {} \/ k = NoJob)]
                      ELSE [job[v] EXCEPT !.sole = @ /\ v \notin met]]
        /\ upset' = [c \in Chats |->
                        Mark(Scope(j), why \cup crossed \cup
                             IF c \in shared THEN {"torn"} ELSE {})[c]]

-----------------------------------------------------------------------------
(* The store's calls                                                       *)

\* Mutation: only the cache forgets the mute.
RemovedFromCache(c) ==
    cache' = [cache EXCEPT ![c] = None] /\ UNCHANGED <<rec, faults>>

\* A successful UnmuteUser: the row and the cache entry are gone, whoever
\* wrote them.
Removed(c) ==
    /\ rec' = [rec EXCEPT ![c] = None]
    /\ cache' = [cache EXCEPT ![c] = None]
    /\ UNCHANGED faults

\* The call reports an error and has done nothing.
NotRemoved == Fault /\ UNCHANGED <<rec, cache>>

\* The call reports an error although the row is gone.
RemovedUnawares(c) ==
    Fault /\ rec' = [rec EXCEPT ![c] = None] /\ UNCHANGED cache

-----------------------------------------------------------------------------
(* Mutes: the record, by AddMutedUserSafely, and then the restriction.  A  *)
(* store that fails ends the handler before it has done anything.          *)

\* muteDeadline, and the same computation in the other handlers.
Deadline(m) == IF m = 0 THEN Forever ELSE now + m

Issue(w) == w \in Handlers /\ issued < MaxMutes /\ issued' = issued + 1

MuteJob(c, until) ==
    [NoJob EXCEPT !.task = "mute", !.step = "restrict", !.chat = c,
                  !.until = until, !.todo = Targets(c)]

\* Whatever record the chat had is replaced; a cruel mute ends here.
Mute(w, c, is, until) ==
    LET j == MuteJob(c, until)
        over == IF is = "cruel" /\ \E t \in Targets(c) : Restricted(t)
                THEN {"recast"} ELSE {}
    IN  /\ Issue(w)
        /\ rec' = [rec EXCEPT ![c] = [is |-> is, until |-> until]]
        /\ \/ /\ cache' = [cache EXCEPT ![c] = [is |-> is, until |-> until]]
              /\ Begin(w, j, IF is = "cruel" THEN NoJob ELSE j, over)
              /\ UNCHANGED faults
           \/ \* committed, but the reply is lost and the handler gives up
              /\ Fault
              /\ Begin(w, j, NoJob, {"torn"})
              /\ UNCHANGED cache
        /\ UNCHANGED <<everywhere, now, tg>>

\* The mute buttons of an admin's card; the short durations need no question.
HandleMuteAction(w) ==
    \E c \in Chats, m \in Minutes \ {0} : Mute(w, c, "plain", now + m)

\* The long durations, after the confirmation dialog.
HandleMuteConfirmed(w) ==
    \E c \in Chats, m \in Minutes : Mute(w, c, "plain", Deadline(m))

\* content_moderation.default_mute_minutes, 0 for ever.
AutoModerateMute(w) ==
    \E c \in Chats, m \in Minutes : Mute(w, c, "plain", Deadline(m))

\* A flood in night mode is muted until the window ends, however soon that is.
ApplyNightModeMute(w) ==
    now < NightEnd /\ \E c \in Chats : Mute(w, c, "plain", NightEnd)

\* WebMuteUser and WebCruelMuteUser.
ApplyMute(w) ==
    \E c \in Chats, m \in Minutes, is \in {"plain", "cruel"} :
        Mute(w, c, is, Deadline(m))

\* A cruel mute has a record only: messages are deleted as they arrive.
ApplyCruelMute(w) ==
    \E c \in Chats, m \in Minutes : Mute(w, c, "cruel", Deadline(m))

\* The super-admin's /mute restricts and records nothing.
CommandMute(w) ==
    /\ Issue(w)
    /\ \E c \in Chats :
          LET j == [MuteJob(c, Forever) EXCEPT !.task = "command"]
          IN  Begin(w, j, j, {"torn"})
    /\ UNCHANGED <<everywhere, now, rec, cache, tg, faults>>

\* Mutation: the refusal is passed over.
AfterRestrictKeep(j) == NoJob

\* Mutation: a refused mute is tried again without its chats.
AfterRestrictAgain(j) == IF j.refused /\ j.task = "mute" THEN j ELSE NoJob

\* After the last chat of restrictUserInChats.
AfterRestrict(j) ==
    IF j.refused /\ j.task = "mute" THEN [j EXCEPT !.step = "rollback"]
    ELSE NoJob

\* restrictUserInChats, one chat at a time; a refusal does not stop the rest.
RestrictNext(w) ==
    LET j == job[w]
    IN  /\ At(w, "restrict")
        /\ \E t \in j.todo, ok \in BOOLEAN :
              LET left == [j EXCEPT !.todo = @ \ {t}, !.refused = @ \/ ~ok]
                  last == left.todo = {}
              IN  /\ Goto(w, IF last THEN AfterRestrict(left) ELSE left)
                  /\ IF ok
                     THEN /\ tg' = [tg EXCEPT ![t] = TelegramUntil(j.until)]
                          /\ upset' = IF last /\ j.task = "mute"
                                      THEN Settled(left) ELSE upset
                          /\ UNCHANGED faults
                     ELSE /\ Fault
                          /\ upset' = Mark(Targets(j.chat), {"refused"})
                          /\ UNCHANGED tg
        /\ UNCHANGED <<everywhere, now, rec, cache, issued>>

\* Telegram refused the mute: its record is taken back.
Rollback(w) ==
    LET c == job[w].chat
    IN  /\ At(w, "rollback")
        /\ \/ Removed(c) /\ UNCHANGED upset
           \/ (NotRemoved \/ RemovedUnawares(c))
              /\ upset' = Mark(Targets(c), {"torn"})
        /\ Return(w)
        /\ UNCHANGED <<everywhere, now, tg, issued>>

-----------------------------------------------------------------------------
(* Unmutes: the record first, then the restriction                         *)

\* Mutation: the user is freed in the record's chat only.
UnmuteJobHere(c) ==
    [NoJob EXCEPT !.task = "unmute", !.step = "free", !.chat = c,
                  !.todo = {c}]

UnmuteJob(c) ==
    [NoJob EXCEPT !.task = "unmute", !.step = "free", !.chat = c,
                  !.todo = Targets(c)]

\* The chats where there is something to undo.
Muted == {c \in Chats : rec[c] # None \/ cache[c] # None \/ Restricted(c)}

\* An error of the store ends the handler; the row may be gone all the same.
UnmuteFails(w, c) ==
    /\ RemovedUnawares(c)
    /\ Begin(w, UnmuteJob(c), NoJob, {"torn"})

\* The callback goes on only when its own call removed the row.  The flag is
\* wrong when an attempt whose reply was lost removed it and the retry found
\* nothing, and beside the point when the cleanup task has taken the row.
HandleUnmuteAction(w) ==
    /\ w \in Handlers
    /\ \E c \in Muted :
          LET j == UnmuteJob(c)
          IN  \/ /\ Removed(c)
                 /\ IF rec[c] # None THEN Begin(w, j, j, {})
                    ELSE Begin(w, j, NoJob,
                               IF cache[c] = None THEN {} ELSE {"torn"})
              \/ /\ Fault
                 /\ rec[c] # None
                 /\ rec' = [rec EXCEPT ![c] = None]
                 /\ cache' = [cache EXCEPT ![c] = None]
                 /\ Begin(w, j, NoJob, {"torn"})
              \/ UnmuteFails(w, c)
    /\ UNCHANGED <<everywhere, now, tg, issued>>

\* The web UI goes on whenever the call reports no error.
WebUnmuteUser(w) ==
    /\ w \in Handlers
    /\ \E c \in Muted : \/ Removed(c) /\ Begin(w, UnmuteJob(c), UnmuteJob(c), {})
                        \/ UnmuteFails(w, c)
    /\ UNCHANGED <<everywhere, now, tg, issued>>

\* The super-admin's /unmute lifts restrictions and leaves the record.
CommandUnmute(w) ==
    /\ w \in Handlers
    /\ \E c \in Muted :
          LET j == [UnmuteJob(c) EXCEPT !.task = "command"]
          IN  Begin(w, j, j, {"torn"})
    /\ UNCHANGED <<everywhere, now, rec, cache, tg, issued, faults>>

\* unrestrictUserInChats, one chat at a time; a refusal is only logged.
FreeNext(w) ==
    LET j == job[w]
    IN  /\ At(w, "free")
        /\ \E t \in j.todo, ok \in BOOLEAN :
              LET left == [j EXCEPT !.todo = @ \ {t}, !.refused = @ \/ ~ok]
                  last == left.todo = {}
              IN  /\ Goto(w, IF ~last THEN left
                             ELSE IF j.task = "expire"
                             THEN [left EXCEPT !.step = "drop"] ELSE NoJob)
                  /\ IF ok
                     THEN /\ tg' = [tg EXCEPT ![t] = 0]
                          /\ upset' = IF last /\ j.task = "unmute"
                                      THEN Settled(left) ELSE upset
                          /\ UNCHANGED faults
                     ELSE /\ Fault
                          /\ upset' = Mark({t}, {"refused"})
                          /\ UNCHANGED tg
        /\ UNCHANGED <<everywhere, now, rec, cache, issued>>

-----------------------------------------------------------------------------
(* The loop of checkExpiredMutes                                           *)

\* GetExpiredMutes reads the cache; the list is worked off afterwards.
CheckExpiredMutes(w) ==
    LET list == {c \in Chats : Expired(cache[c])}
        j == [NoJob EXCEPT !.task = "expire", !.step = "next", !.list = list,
                           !.harsh = {c \in list : cache[c].is = "cruel"}]
    IN  /\ list # {}
        /\ Begin(w, j, j, {})
        /\ UNCHANGED <<everywhere, now, rec, cache, tg, issued, faults>>

\* Mutation: Telegram is trusted to have ended the restriction.
NextExpiredTrusting(w) ==
    LET j == job[w]
    IN  /\ At(w, "next")
        /\ \E c \in j.list :
              Goto(w, [j EXCEPT !.list = @ \ {c}, !.chat = c, !.step = "drop"])
        /\ UNCHANGED <<everywhere, now, rec, cache, tg, issued, faults, upset>>

NextExpired(w) ==
    LET j == job[w]
    IN  /\ At(w, "next")
        /\ \E c \in j.list :
              Goto(w, [j EXCEPT !.list = @ \ {c}, !.chat = c, !.refused = FALSE,
                          !.step = IF c \in j.harsh THEN "drop" ELSE "free",
                          !.todo = IF c \in j.harsh THEN {} ELSE Targets(c)])
        /\ UNCHANGED <<everywhere, now, rec, cache, tg, issued, faults, upset>>

\* The record goes after the restriction, and by user and chat, not by date.
Drop(w) ==
    LET j == job[w]
    IN  /\ At(w, "drop")
        /\ \/ /\ Removed(j.chat)
              /\ upset' = IF j.chat \in j.harsh THEN upset ELSE Settled(j)
           \/ /\ NotRemoved \/ RemovedUnawares(j.chat)
              /\ UNCHANGED upset
        /\ IF j.list = {} THEN Return(w) ELSE Goto(w, [j EXCEPT !.step = "next"])
        /\ UNCHANGED <<everywhere, now, tg, issued>>

-----------------------------------------------------------------------------
(* What happens around the handlers                                        *)

\* Chats whose expired record the reload makes the checker forget.
Forgotten ==
    UNION {Targets(c) : c \in {d \in Chats : Expired(cache[d])
                                             \/ Expired(rec[d])}}

\* A scheduled task invalidates the cache, and the next access loads it.
Reload ==
    /\ cache # Loaded
    /\ cache' = Loaded
    /\ upset' = Mark(Forgotten, {"reloaded"})
    /\ job' = [w \in Workers |->
                  [job[w] EXCEPT !.sole = @ /\ Scope(job[w]) \cap Forgotten = {}]]
    /\ UNCHANGED <<everywhere, now, rec, tg, issued, faults>>

Crash ==
    LET torn == UNION {Scope(job[w]) : w \in Workers}
    IN  /\ Fault
        /\ job' = [w \in Workers |-> NoJob]
        /\ cache' = Loaded
        /\ upset' = [c \in Chats |->
                        Mark(torn \cup Forgotten,
                             IF c \in torn THEN {"torn"} ELSE {"reloaded"})[c]]
        /\ UNCHANGED <<everywhere, now, rec, tg, issued>>

\* Mutation: the cleanup task clears the cache as well.
CleanupReloading ==
    /\ rec' = [c \in Chats |-> IF Expired(rec[c])
                                  /\ rec[c].until + Retention <= now
                               THEN None ELSE rec[c]]
    /\ rec' # rec
    /\ cache' = Loaded
    /\ UNCHANGED <<everywhere, now, tg, job, issued, faults, upset>>

\* The cleanup task deletes old rows and leaves the cache as it is.
CleanupExpiredMutes ==
    /\ rec' = [c \in Chats |-> IF Expired(rec[c])
                                  /\ rec[c].until + Retention <= now
                               THEN None ELSE rec[c]]
    /\ rec' # rec
    /\ UNCHANGED <<everywhere, now, cache, tg, job, issued, faults, upset>>

Tick ==
    /\ now < MaxTime
    /\ now' = now + 1
    /\ UNCHANGED <<everywhere, rec, cache, tg, job, issued, faults, upset>>

Init ==
    /\ everywhere \in Modes
    /\ now = 0
    /\ rec = [c \in Chats |-> None]
    /\ cache = [c \in Chats |-> None]
    /\ tg = [c \in Chats |-> 0]
    /\ job = [w \in Workers |-> NoJob]
    /\ issued = 0
    /\ faults = 0
    /\ upset = [c \in Chats |-> {}]

Start(w) ==
    \/ HandleMuteAction(w)
    \/ HandleMuteConfirmed(w)
    \/ AutoModerateMute(w)
    \/ ApplyNightModeMute(w)
    \/ ApplyMute(w)
    \/ ApplyCruelMute(w)
    \/ CommandMute(w)
    \/ CommandUnmute(w)
    \/ HandleUnmuteAction(w)
    \/ WebUnmuteUser(w)
    \/ CheckExpiredMutes(w)

GoOn(w) ==
    \/ RestrictNext(w)
    \/ Rollback(w)
    \/ FreeNext(w)
    \/ NextExpired(w)
    \/ Drop(w)

Next ==
    \/ \E w \in Workers : Start(w) \/ GoOn(w)
    \/ Reload
    \/ Crash
    \/ CleanupExpiredMutes
    \/ Tick

Spec == Init /\ [][Next]_vars

\* A handler that has begun runs on (its calls return, with an answer or an
\* error), and the checker's ticker keeps firing while the process lives.
Fairness ==
    /\ \A w \in Workers : WF_vars(GoOn(w))
    /\ WF_vars(CheckExpiredMutes(Checker))

LiveSpec == Spec /\ Fairness

-----------------------------------------------------------------------------
(* Properties                                                              *)

\* Types, and what the steps of a handler rely on: a restriction or its
\* removal is under way exactly while chats are left to visit.
TypeOK ==
    /\ everywhere \in BOOLEAN
    /\ now \in 0 .. MaxTime
    /\ rec \in [Chats -> Record]
    /\ cache \in [Chats -> Record]
    /\ tg \in [Chats -> Nat]
    /\ job \in [Workers -> Job]
    /\ issued \in 0 .. MaxMutes
    /\ faults \in 0 .. MaxFaults
    /\ upset \in [Chats -> SUBSET Reasons]
    /\ \A w \in Workers :
          job[w].todo # {} <=> job[w].step \in {"restrict", "free"}

AtRest(c) == \A w \in Workers : c \notin Scope(job[w])

\* The chats in which a record stands for a restriction of chat t.
Behind(t) == {c \in Chats : t \in Targets(c)}

\* A mute that is on record is carried out: once no handler is at work on the
\* chat, a running plain record means that Telegram restricts the user until
\* the record's date in every chat it applies to, Telegram's refusals
\* notwithstanding (a refused mute is rolled back).  Excused are chats that are
\* torn, or crossed with another chat's record, since a handler last had them
\* to itself: such a handler makes up for whatever was wrong before.
MutedIsRestricted ==
    \A c \in Chats :
        \/ ~Active(rec[c]) \/ rec[c].is = "cruel"
        \/ \E t \in Targets(c) :
              \/ ~AtRest(t)
              \/ upset[t] \cap {"torn", "crossed"} # {}
        \/ \A t \in Targets(c) : tg[t] >= rec[c].until

\* A restriction that no handler is working on and no record accounts for.
Unaccounted(t, excused) ==
    /\ AtRest(t)
    /\ Restricted(t)
    /\ upset[t] \subseteq excused
    /\ \A c \in Behind(t) : rec[c] = None /\ cache[c] = None

\* The converse: once no handler is at work, a restriction is on record (in the
\* table, or at least in the cache the expiry checker reads), so that someone
\* will lift it, even where two chats' records share restrictions.
FreeUnlessRecorded == \A t \in Chats : ~Unaccounted(t, {"crossed"})

\* A restriction that outlives every record behind it.
Outstaying(t, excused) ==
    /\ Restricted(t)
    /\ upset[t] \subseteq excused
    /\ \A c \in Behind(t) : ~Active(rec[c])

\* A mute ends: whatever Telegram made of the date, a user whose last record
\* has expired does not stay restricted, because the checker finds the record
\* in the cache and lifts the restriction.
EventuallyFreed == \A t \in Chats : []<>~Outstaying(t, {"crossed"})
==============================================================================
