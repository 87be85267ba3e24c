# Gennady: a verification project

Gennady is a Telegram moderation bot written in Go. One process (occasionally
two, while a deployment replaces the old one) receives updates from Telegram,
moderates messages, mutes and warns users, runs scheduled tasks and serves an
admin web UI. It keeps its state in an SQLite database that is either a local
file or a remote service reached over HTTP (Turso and others).

This directory holds TLA+ models of the parts whose correctness depends on the
order in which things happen, TLC configurations that check them on small
instances, and proofs for TLAPS that hold for every instance. `PROJECT.json`
lists the parts, the runs, the mutants, the hazards and, for each definition,
the source lines it stands for.

    tlc -workers 2 -config MuteStore.cfg MCMuteStore.tla
    tlapm MuteStore_proofs.tla

## 1. Inventory

Paths are relative to `src/internal/` unless they start with `src/`.

| Part | State | Operations | What makes it hard | What correct means |
|---|---|---|---|---|
| **Mute store** `database/operations.go`, `db.go` | table `muted_users`; `muteCache` (a map, nil when invalid) and its age under `muteMu` | `AddMutedUserSafely`, `UnmuteUser`, `UnmuteUserIfActive`, `GetActiveMuteInfo`, `GetActiveMutedUsers`, `GetExpiredMutes`, `InvalidateMuteCache`, `CleanupExpiredMutes` | `muteMu` is released around every SQL statement; scheduled tasks invalidate the cache at any moment; remote replies get lost and statements are retried | one active record per user and chat; a removal reported once; the cache agrees with the table, or soon will |
| **Mute enforcement** `bot/callbacks.go`, `webui_moderation.go`, `auto_moderation.go`, `night_mode.go`, `cruel_mute.go`, `utils.go`, `admin.go`, `scheduler.go` | the record (above) and the restriction Telegram keeps, per chat | mute by button, by confirmation, by rule, at night, from the web UI; cruel mute; unmute by button and from the web UI; `/mute`, `/unmute`; the expiry checker | record and restriction are written by separate calls, one Telegram call per chat; either may fail; handlers overlap | a mute on record is in force; a restriction is on record; a mute ends |
| **Scheduled tasks** `bot/scheduler.go`, `database/operations.go` | table `scheduled_events`: last run and lock | daily loop, interval loop, missed-run check, webhook trigger; claim, record, release, prune | several instances on one table; crashes and panics between claim and record; stale locks | no two runs at once; an occurrence runs once; no lock left behind |
| **Moderation pipeline** `bot/pipeline.go`, `filters.go`, `classifier.go`, `moderation.go`, `auto_moderation.go` | `moderatedMsgs`: messages acted on within ten minutes; the text and the reason in `message_info` | record, classify, claim, carry out a plan of actions; again on edits, on complaints and from the web UI | edits, redelivered updates and re-moderations of one message overlap; the claim is given up while a plan is carried out; Telegram refuses an action | a claim has one plan in progress; what is on record has been before a model; a verdict shows |
| **Warnings** `database/operations.go`, `bot/callbacks.go`, `webui_moderation.go`, `auto_moderation.go` | table `warnings`; the bot's replies in the chat and in `message_info` | warn, cancel, call no violation, count | look, insert, generate a text for seconds, reply, record the reply's number: five steps, in three places | one warning per message; a cancelled warning leaves no reply; other replies stay |
| **Deletion queue** `database/operations.go`, `bot/scheduler.go`, `message_purge.go` | table `messages_for_deletion` | fill on ingest, pin, delete, purge, clean-up | the clean-up works off a list for minutes; Telegram refuses; crashes half-way | pinned messages stay; nothing leaves the queue undeleted without a refusal |
| **Update intake** `bot/lifecycle.go`, `handler.go`, `callback_registry.go` | `updateDedup`, and the callback ids, for ten minutes | claim an id, route | redelivery while the first delivery is at work; restart | an update takes effect once |
| **Ingest and profiles** `database/operations.go`, `profiles_tracking.go`, `bot/user_profiles.go`, `profile_cache.go`, `ai_vision.go` | `message_info`, `user_daily_activity`, name history, `user_profiles` and an LRU cache of it | `RecordIncomingMessage`, one transaction, retried; edits and their diffs; first-message screening; the profile task; the web UI's deletion | lost commit replies; redelivery; an edit beside the goroutine that stores links; three writers of a row and a cache that lags | counted once; the original text kept; screened once; moderation is told what was found |
| **Creative replies** `bot/handler.go`, `ai_content.go` | the bot's rows in `message_info` | decide, count, generate for seconds, send, store | the limit is read before and counted after the generation | the limit holds for one reply at a time |
| **Night mode** `bot/night_mode.go` | a counter per user and window | count, mute until the window ends | mutes close to the end of the window | the limit holds |
| **Web sessions** `web/auth.go`, `api_auth.go`, `database/web_sessions.go` | sessions in memory over a table; failed attempts, codes, one-time links | sign in (password, code, link), validate, migrate, log out, expire | a cache per process over a shared table; the lock is let go around every statement; a password changed by another process | a session that is logged out is over; guesses are bounded; a new password works |
| **Configuration** `config/`, `web/api.go`, `api_files.go` | one `Config` in memory; `config_values` or a file; the environment on top | load, default, validate; save a form, a list, a file, an environment; restart | the lock is released before the save; a save that fails rolls back through strings; other processes do not see it | what is reported as saved is found at the next start; the bot can start again |
| **Transfer, backup** `database/transfer.go`, `web/api_files.go`, `src/internal/backup/` | two databases, a downloaded file, the backup | download, upload, clone either way, back up; what follows an import | exports run beside a writing bot; each table has a merge of its own; the steps after the commit may fail | no merge takes anything back; the cache and the passwords follow an import |
| **Website watch, RSS** `bot/website_watch.go`, `rss.go` | `website_snapshots`; the task's `last_fired_at` | fetch, ask a model, publish, keep | the window is stamped at the end of a run; posts fail; crashes | an item once; reports follow on each other |
| **AI client** `bot/ai_client.go`, `ai_vision.go`, `api_client.go` | none between calls | fail over, retry, ask without the quotation, content safety, Vision, OCR | which of several deployments and services failed, and how often | one endpoint out of order does no harm |
| **Weather; Telegram layer; presentation; process** | caches of what is shown | fetch, post | I/O | (see section 8) |

How they interact. Every handler goes through the **database** layer, whose
writes are wrapped in `retryOnTransientError` (three attempts on errors that
look transient). The **mute cache** is shared by all goroutines of a process.
**Scheduled tasks** run through `executeWithLock`, and its callers invalidate
the mute cache first (`scheduler.go:383, 436, 468, 481, 502`), whether or not
the claim then succeeds: this is the one coupling between scheduler and mute
store, and both the recovery of a wrong cache and two of the findings depend on
it. Tasks that look back (RSS, user profiles) take their window from the
`last_fired_at` that the lease records. **Telegram** is the other party to
every mute; nothing compares its restrictions with the records, so the handlers
must keep the two in step. The pipeline, the admin callbacks, the web UI and
night mode are independent goroutines that mute the same users. Every message
starts a goroutine for its side features (links, a creative reply) which writes
to the row that an edit may be rewriting. A **transfer** replaces rows under the
mute cache and the configuration, and has to tell both.

## 2. Modules

    MuteStore            the table and the caches, statement by statement
      MCMuteStore        instances for TLC
      MuteStore_proofs
    Enforcement          handlers, records and restrictions; store calls atomic
      MCEnforcement
      Enforcement_proofs
    ScheduledEvents      the scheduled tasks of several instances
      Lease              what their row promises (abstract)
      MCScheduledEvents
      ScheduledEvents_proofs
    Moderation           from the update to the actions on a message
      Verdicts           what is made of the models' answers (functions)
      Warnings           warnings and the replies that deliver them
      MCModeration
      Moderation_proofs
    MCBot                what the bot does beside moderation, composed for TLC
      Messages           the rows, the deletion queue, edits, clean-up and purge
      Replies            creative replies and their limit
      Feeds              RSS, the profile task's window, watched pages
      Profiles           screening, user_profiles and its cache
      Models             failover of prompts and pictures
      Messages_proofs, Bot_proofs
    MCWeb                the web UI's state, composed for TLC
      Sessions           sessions of several processes over one table
      SignIn             passwords, codes, links, lockouts
      Configuration      memory, table or file, environment
      Web_proofs
    Transfer             copies between databases, and what follows an import
      Transfer_proofs

### MuteStore

*State.* `rows` is `muted_users` (the rows with `is_active = 1`; inactive rows
are never read again). `cache[i]`, `loaded[i]`, `refreshed[i]` are `muteCache`,
"not nil" and `muteCacheLastRefresh` of process `i`; `leaked[i]` says that a
recovered panic left `muteMu` locked. `th[t]` is a goroutine's place in a call
and its local variables. A record carries an identity (`id`), which the table
has as the row's `muted_at`. `credited` and `disturbed` are history variables.

*Steps.* A call is cut wherever another goroutine can run: each SQL statement
and each section under `muteMu` is a step. `AddMutedUserSafely` is
`BeginAdd`, `AddCommit`/`AddFails`, `CheckLoaded`, possibly `LoadQuery` and
`LoadPublish` (or `LoadFails`), `AddUse`. A lookup is `BeginGet`, the same
cache steps, `GetUse`, `GetAsk`, `GetBackfill`. `unmuteUser` is `LiftExec`
(or `LiftTransient`, which repeats, or `LiftFails`) and `LiftForget`; a round of
the expiry checker (`Expire`) reads the cache and lifts key after key.
`InvalidateMuteCache`, `CleanupExpiredMutes`, `Restart` and the clock run in
between. With `Remote`, a reply may be lost after the statement took effect, and
a result set may be cut short: `loadMuteCache` does not look at `rows.Err`.
A write to the nil map is `NilMapPanic`: where the caller recovers, the lock
stays, because the unlock is not deferred; elsewhere the process dies.

### Enforcement

One user, several chats. `rec[c]` and `cache[c]` are the record and its cache
entry; `tg[c]` is the date until which Telegram restricts the user in `c`;
`job[w]` is a handler's place and its locals. The start of a handler is an
action of its own per entry point (`HandleMuteAction`, `HandleMuteConfirmed`,
`AutoModerateMute`, `ApplyNightModeMute`, `ApplyMute`, `ApplyCruelMute`,
`CommandMute`, `HandleUnmuteAction`, `WebUnmuteUser`, `CommandUnmute`,
`CheckExpiredMutes`); the store call is part of it, in all its outcomes:
success, an error with nothing done, an error although it was done. Outcomes
that leave everything as it was are stutters and are not written down. Then come
one step per Telegram call (`RestrictNext`, `FreeNext`), each accepted or
refused, and `Rollback` or `Drop`. `Reload` is an invalidation with the load
that follows it.

The calls of the store are single steps here because MuteStore takes them apart;
what MuteStore shows to be possible beyond that, a cache that is wrong for a
while, appears here only as far as a reload or a lost reply makes it.

Record and restriction do differ at times, with the code as it is. The history
variable `upset[c]` holds the reasons (`torn`, `crossed`, `recast`, `refused`,
`reloaded`; each is defined in the module), and **a handler that has a chat to
itself and is refused nothing clears it**. So the properties do not say "unless
something once went wrong"; they say that from whatever state overlapping
handlers, crashes and refusals have left, one undisturbed mute or unmute
restores agreement, and that agreement then lasts until the next such event.

### ScheduledEvents

One task (tasks do not share rows). `row` is its row in `scheduled_events`;
`th[t]` a goroutine that runs the daily or the interval loop, or serves the
webhook. `Look` and `MissedDay` are `checkMissedEvents`; `ArmDaily`, `Wake` and
`Due` are `runScheduledTask`; `ArmInterval` is `runIntervalTask` up to its
ticker. `executeWithLock` is `Enter`, `Claim`/`ClaimFails`,
`RunDone`/`RunPanics`, `RecordEventFired` or `ReleaseScheduledEvent`. All
writes go through `Write`, which models `retryOnTransientError`. `faults`
collects the kinds of things that have gone wrong; properties name the kinds
they exclude.

### Lease

The abstract specification of a row of `scheduled_events`: `Take`, `Complete`,
`GiveBack`, `Abandon` (the holder is gone and the lock goes stale), `Tick`, and
`Break`, after which nothing is promised. `holders` is at most one goroutine
until then. ScheduledEvents implements it under the mapping `since` = the row's
`started_at`, `fired` = its `last_fired_at`, `holders` = the goroutines between
a successful claim and its end, and `broken` = one of the faults that the
protocol cannot stand (a run that outlives its lock, a lost reply, a pruned
row). So all the mixtures of loops, missed-run checks, triggers, panics, crashes
and failing writes amount to these six steps (`ImplementsLease`).

### Moderation, Warnings, Verdicts

One user's messages, all moderated; goroutines `w` of `Workers` serve updates,
callbacks and web requests.

*State.* `shown[m]` and `alive[m]` are the chat as Telegram has it; `pending`
are the updates that Telegram delivers until they are answered. `seen` is
`updateDedup`, `claims` is `moderatedMsgs`, `info[m]` the row in `message_info`
(the version of the text, or the placeholder, and whether a reason is stored).
`rows` is the table `warnings`; `replies` the bot's messages in the chats,
`stored` those that `storeBotMessageInfo` has recorded. `cards` are the messages
that admins hold a card with buttons for. A goroutine has two program counters:
`turn[w]` is the moderation of one message, and `job[w]` the warning or
cancellation it is in, for which a turn waits (`In`). `judged`, `loose`, `acted`
and `upset` are history.

*Steps.* `ProcessUpdate` claims the update; `StageSilence` and `StageFlagged`
are the stages before the text (cruel mute and night mode; the image check);
`RecordNewMessage`, `RecordEditedMessage` and `UpdateMessageInfo` store it;
`ModerateMessage` asks the models and may go on to a creative reply;
`HandleBadWordDetected` claims the message; then one action per element of the
plan (`AutoModerateReport`, `-Delete`, `-Mute`, `-Warn`, and
`AutoModerateRefused`, which puts a report in the place of what Telegram
refuses). `Remoderate` and `RemoderateAcrossModels` are complaints and "moderate
again". `HandleWarningAction`, `WebWarnUser` and `CancelWarning` are the buttons
and the web UI, `HandleMessageLink` how an admin gets a card for any message.
A warning is then `AddWarning`, `SendReply`, `UpdateWarningMessageID`, and a
cancellation `RemoveWarningForMessage`, `DeleteBotWarningReply`. `ClaimExpires`
is the passing of ten minutes and `Crash` the end of the process, which forgets
`updateDedup` and `moderatedMsgs`; updates that were not answered come again, or
are lost if Telegram holds them for confirmed.

*Verdicts* are functions: `OnReceipt` (light model, full model, a second look at
newcomers) and `AcrossModels` (the first model that flags). `Receipts` and
`Rejudgements` are their values over all answers, so the state machine meets
every verdict the configured rules can lead to.

*Excuses.* `upset[m]` says what has happened to the warnings of `m`; each
property names the few reasons that excuse it and holds under all the others.
The reasons are defined in Warnings: `overlap`, `resent`, `refused`,
`untracked`, `crash`, `lost`, `cut`.

*Abstractions.* Muting is Enforcement's and here succeeds or is refused. A card's
buttons stay usable as long as an admin holds the card, which is more than the
code allows. Messages outside the moderated scope, the ten minutes of
`updateDedup`, and database errors other than `AddWarning`'s are left out. The
features continue on the goroutine that moderated, as in the code.

### Messages, Replies, Feeds, Profiles, Models (run together by MCBot)

*Messages.* `chat`, `row`, `queue` and `count` are Telegram, `message_info`,
`messages_for_deletion` and the sender's daily counter, for the messages of one
user. `Receive` is the recording transaction, committed once, or twice when the
commit's reply is lost, or failed; `EditRead` and `EditWrite` are
`recordEditedMessage`, cut where the row is read; `StoreLinks` is the goroutine
that replaces `extra_info`; `Pin` the service message about a pin. The clean-up
and the purge are a list (`StartCleanup`, `StartPurge`) that is worked off by
`DeleteOne` and `RemoveOne`; `CleanupRows` is `PerformDatabaseCleanup`.
The run has two instances of it: two messages without edits, one of an excluded
user, and one message that is edited and holds links.

*Replies.* One goroutine per message: `CreativeReply` (is it the bot's
business), `FollowUpOnlySameUser`, `CheckLimit`, `SendReply`. The rows the limit
counts are all messages of the bot in the window, warnings and greetings too
(`BotSpeaks`).

*Feeds.* One task per behaviour: RSS, the profile task (both with a window from
`last_fired_at`: `Begin`, `List`, `Work`, `Stamp`) or a watched page (`Fetch`,
`Summarize`, `Publish`, `SaveSnapshot`).

*Profiles.* The row of a user in `user_profiles`, with its three writers
(`AppendFindings`, `UpsertUserProfile`, `DeleteProfile`), and the LRU cache with
a time to live, whose readers look up, read and put in three steps.

*Models.* One prompt (`Begin`, `Ask`) or one picture (`See`, `Request`) per
behaviour, against any outcome of every request.

Scheduled tasks appear here by their effects; how an occurrence is claimed is
ScheduledEvents'. Updates are handled one after another here; overlapping ones
are in Moderation.

### Sessions, SignIn, Configuration (run together by MCWeb)

*Sessions.* `cache[p]` is `AuthManager.sessions` of a process, `row` and
`legacy` are `web_sessions`, by hash and by bare token. `ValidateSession` and
`Logout` release the lock around every statement, so a lookup is `ReadHash`,
`ReadLegacy`, `SaveMigrated`, `DropLegacy`, `DropExpired`, `Publish`, and a
logout `LogoutCache`, `LogoutRow`, `LogoutLegacy`. A token is in `dead` when its
logout met no failing statement, no lookup of the token on its way and no copy in
another process: exactly what the code can make good.

*SignIn.* One process, since failed attempts, codes and links live in its memory.
`LoginPassword` counts a failure and then, if a remote database may know a newer
password, `LoginAgain` reads it and tries again. `guesses` is history.

*Configuration.* One key for every kind of field that the reflection walks
distinguish. A request that saves is `SaveForm`, `SaveList`, `UploadEnv` or
`UploadConfig` under the lock, then `Collect` and `Write` (for a file `Write`
and `Fill`) without it, and `WriteBack` of the hashed password. `Start` loads,
applies defaults and environment and validates, and `Stop` is an end at any
point. `rough`, `roughRow`, `torn` and `acked` are history.

### Transfer

Two databases, the downloaded file and the backup; one table for each import
strategy, each with one row. `Start`, `CopyTable` and `Deliver` are the exports,
table by table; `ImportFile` is the import transaction, for uploads and both
clones; `HashStoredWebUIPassword`, `ReloadConfigFromDB` and
`InvalidateMuteCache` follow it. The merges are functions of two rows
(`MergeTable`), and `NothingGoesBack` evaluates `Import` in every state, in both
directions between the two databases; they start with every pair of values of
one table.

## 3. Runs

| Run | Instance | Checks | Shows |
|---|---|---|---|
| `mute_store` | one process, two goroutines, one key, remote | `OneRecordPerKey`, `LiftReportedOnce`, `InSyncUndisturbed`, `NoFalseUnmuted` | the store under interleaving, crashes, lost replies and cut results |
| `mute_store_heals` | the same, local, fair | `ReportMatchesRemoval`, `EventuallyCurrent` | the unmute flag is exact without lost replies; a wrong cache is put right |
| `mute_cache_nil_map` | the same | `NoLeakedLock` (violated) | finding 1 |
| `enforcement` | two chats, one handler and the checker, both settings of `mute_across_all_chats` | `MutedIsRestricted`, `FreeUnlessRecorded` | record and restriction agree |
| `enforcement_expiry` | one chat, two handlers and the checker, fair | the same two, `EventuallyFreed` | they agree when handlers overlap; mutes end |
| `scheduled_events` | two instances (timer and webhook), daily or interval, two kinds of faults per behaviour | `ExclusiveRun`, `LockAccounted`, `OnceUnlessOverlapping`, `ImplementsLease` | the task's row is a lease, across faults |
| `scheduled_twice` | two instances, no faults | `OncePerOccurrence` (violated) | finding 2 |
| `moderation` | two goroutines, a message edited once, one call of an admin, a complaint or the web UI, one fault | `TypeOK`, `WarnedOnce`, `OneDispatchPerClaim`, `StoredIsJudged`, `NoOrphanReply`, `ActedOrReported`, `ReasonKept` | verdicts, text, warnings and replies stay consistent under overlapping updates, crashes with redelivery, and refusals |
| `cancel_deletes_other_reply` | one version, two calls, no faults | `OtherRepliesKept` (violated) | finding 3 |
| `bot` | one of six parts at work, one slip (two for the edited message) | `PinnedStays`, `OriginalKept`, `CountedOnce`, `LeftOnlyIfRefused`, `LimitUnlessOverlapping`, `EachItemOnce`, `NothingUntold`, `FindingsTold`, `ScreenedOnce`, `NotBlamedForQuote`, `FailsOver` | what is recorded of messages and users is kept, counted, deleted and told as it should be; feeds are worked off once; models fail over |
| `web` | one of three parts at work, one fault | `GuessesBounded`, `StaysLoggedOut`, `AckedSurvives`, `StartsAgain`, `NewPasswordWorks` | sessions of two processes, sign-in from two addresses, two requests that save the configuration |
| `transfer` | two transfers one after the other, a write of the bot, one failure | `ImportFollowedUp`, `NothingGoesBack` | what follows an import is done; merges are monotone and idempotent |

Every property of a passing run has a mutant: a change of one definition, such
as a plausible slip in the code would make, with which TLC finds the property
violated. Type invariants of MuteStore and ScheduledEvents are theorems and are
not repeated in the runs; the others are there for TLC to check while a module
is worked on.

*Deadlock.* `CHECK_DEADLOCK FALSE` is set where the bounds stop the model: when
the clock stands at `MaxTime` and the mutes are used up, the bot, idle, has
nothing left to do.

## 4. Bounds

- `MaxMutes` bounds the mutes ever issued. Two suffice for every interaction of
  records the code has, since a record only ever meets the one it replaces or
  the one that replaces it.
- `MaxTime` (`MaxAge` for Profiles) bounds the clock. The code compares times
  only with each other, by order and by fixed offsets; the constants (`Minutes`,
  `NightEnd`, `MinRestrict`, `Retention`, `StaleAge`, `Timeout`, `Interval`,
  `Day`, `SessionTtl`, `OtpTtl`, `Lockout`, `Ttl`) are chosen so that each
  comparison falls both ways within the bound: mutes that Telegram takes for
  permanent and mutes it does not, rows young and old enough for the cleanup,
  locks fresh and stale, occurrences handled, missed and too long missed,
  sessions and codes before and after their end, a lockout that is over.
- `MaxFaults` and `MaxSlips` bound refusals, errors, lost replies, repeated
  updates and crashes (one, two for the edited message), or the kinds of faults
  in a behaviour (ScheduledEvents, two). Retries are bounded by the code
  (`MaxAttempts`, three).
- One key in the runs of MuteStore: calls on different keys touch different rows
  and entries and share only `loaded`, `refreshed` and the mutex, which one key
  exercises. The theorems hold for any set of keys.
- One user in Enforcement: handlers of different users share nothing but the
  reload of the cache. Two chats are what `mute_across_all_chats` needs.
- Moderation: two versions of a text are what an edit needs, and two goroutines
  let its update overlap the first one, a redelivery, or a call. `MaxReplies`
  (two) lets a creative reply and a warning, or two warnings, be in the chat;
  `MaxCalls` is one, and two in the run of the finding; `MaxFaults` is one
  crash, refusal, lost reply or repeated INSERT. `Plans` holds one plan with
  three actions, whose last is a warning, and `CSPlan` one that Telegram can
  refuse, so every kind of action, the fallback and a plan that ends with a
  warning occur. Redelivery needs no bound: it follows a crash.
- Bot: three messages and a limit of one reply let a limit be met, passed by
  another message of the bot and passed by two at once. Two entries of a feed,
  one before and one during a run; four versions of a page, so that a change that
  is not reported lies between two that are; a cache of one entry for two users,
  so that entries are evicted; two deployments in each list, so that one can be
  out of order.
- Web: `MaxFailed` is two and `MaxGuesses` three, so the guess after the limit is
  in the behaviour; one code and one link, which both addresses may try; one old
  row and one new session; `MaxSaves` two, since a save only meets one other.
  Addresses, and the processes that share the sessions, are symmetric (`Alike`):
  no definition names one of them.
- Transfer: the databases differ in one table at first, since no merge reads
  another table; `MaxWrites` one write of the bot between the steps of a
  transfer; `MaxJobs` two, so that what one wrote another reads.
- Two goroutines, two instances: every race described here is between two.
  Theorems hold for any number.

## 5. Fairness

- MuteStore `LiveSpec`: a call that has begun goes on (its statements return, by
  the client's timeouts if by nothing else), and every process keeps
  invalidating its cache (a daily or interval task does so on each of its
  occurrences, `scheduler.go:436, 468, 481`). Nothing is assumed of the admins,
  nor that anybody looks a mute up.
- Enforcement `LiveSpec`: weak fairness of each handler's next step, and of the
  checker's round. The ticker of `startMuteExpirationChecker` fires every minute
  for as long as the process lives; a crash is followed by a restart.
- All other modules are checked for safety only: their properties say what must
  not happen, and the code gives no scheduling that would justify more (a feed
  waits for its next occurrence, a browser for its user).

## 6. What is proved

For every value of the constants that satisfies the modules' assumptions.

**MuteStore_proofs.** `TypeCorrect`, `OneRecord`, `ReportedOnce`,
`NeverFalselyUnmuted`, `CacheInSync`, `RemovalReported`. At most one record per key, and at most one reported
removal per record, are not inductive: nothing in them says why a removal cannot
be reported by two calls. The invariant follows a mute's identity instead
(`IInv`): an identity is, at any time, either not issued yet, or held by one
`Add` that has not committed, or in one row, or held by one call that removed
the row and has not reported it, or reported; and it never goes back
(`RowsIssued`, `PendingOwned`, `TakenOwned`, `CreditIssued`). `NoFalseUnmuted`,
a property of steps, needs besides that the time at which a lookup read the
clock is past (`AsOfPast`) and that a lookup says "not muted" only in one
step (`GetAnswers`).

`CacheInSync` is about the cache of a process that nothing has disturbed. Between
the steps of a call it may well differ from the table, so the invariant (`UInv`)
says by how much: no two calls are under way (`Serial`), the call under way is
`Behind` by at most one key, everything else is the same (`Same`), and what the
call is about to write to the cache is what the table has (`RecordIsRow`,
`SnapIsTable`). `RemovalReported` has the hypothesis `~Remote`: when no reply is
lost, a call holds whatever is gone (`GoneIsTaken`).

**Enforcement_proofs.** `TypeCorrect`, `MutesAreCarriedOut`,
`RestrictionsAreRecorded`, for any number of handlers, chats, mutes and faults.
Both properties speak of the system at rest; between two steps of a handler the
record and the restriction may well differ, so neither is inductive. The
invariant `EInv` says of a chat that nothing has torn what each unfinished job
still owes: two jobs that meet on a user tear the chats of both and each knows
it (`Apart`, `Knows`), so whoever does not know finds records and restrictions
as it left them; a deadline in the table is the one that Telegram was given, or
a handler is on its way to give it (`Synced`, `MutesCarried`); a restriction
without a record has a handler that is about to lift it or is excused
(`Accounted`); and what one call did, it did in all of its chats up to the one it
has reached (`Uniform`). When no handler is busy this comes down to the two
properties (`AtRestIs`). `ForeverAssumption` is used: the deadline that stands
for "for good" is no earlier than any other that can be given.

**ScheduledEvents_proofs.** `TypeCorrect`, `LeaseExclusive`, `LeaseAccounted`,
`NeverBackwards`. The invariant `SInv` says that as long as nothing outlives the
timeout, no reply is lost and the row is not pruned, the row's `started_at` is
the claim time of the one holder (`Leased`), every claim time lies in the past
and is not late (`Clocked`), and what is about to be recorded is no older than
what is recorded (`FiredPast`). A second claim then meets a lock younger than
the timeout and fails. The assumptions used are on the constants only
(`TimesAssumption`: periods are positive and the clock starts late enough for a
previous occurrence to exist).

`LeaseImplemented` is the refinement. `SInv` is carried further by the set of
goroutines that run the task, which has at most one member until something
breaks the protocol; each of the scheduler's steps is then one step of the lease
or leaves its variables alone (`Take` at a claim that succeeds, `Complete` at a
record, `GiveBack` after a panic, `Abandon` at a crash or a last failing write),
and a step after which `broken` holds is a `Break`.

Its second part proves `OncePerDay`. `faults = {}` excludes overlap, so the
invariant beside `SInv` (`OInv`) says that one goroutine is busy with the task
(`OneBusy`), that the occurrence it has decided on is not among those that were
run, and that whatever was run is in `last_fired_at` or about to be
(`Recorded`). The arithmetic of occurrences (`MostRecent` and the next alarm are
`Day` apart, and none lies between) is proved once, from `TimesAssumption`.

**Moderation_proofs.** `TypeCorrect`, `OneDispatch`, `KeepsReason`, `WarnsOnce`,
`VerdictsShow`, `TextsAreJudged`, `CancellationsClearUp`.
`OneDispatchPerClaim` is inductive once the types are known (`MInv`): a goroutine
that finds a message unclaimed knows from the invariant that nobody carries out
a plan on it, and whoever gives a claim up under another's hands marks the
message `loose`. `ReasonKept` needs only the type of `info`. The type of `job`
needs that the latest of a message's warnings exists, which is why `TypeOK` says
that `serial` bounds the ids (`LatestRow`, from the least-number principle).

Its second part proves `WarnsOnce`, for any number of chats, messages and
goroutines. The invariant `WInv` says of every message with no `overlap` on
record that one goroutine is at the warnings of its number (`Alone`), that one
about to insert has seen none (`Unwarned`), and, with no `resent` either, that
the message has one row (`Single`). It assumes that a message is its chat and its
number.

Three more parts prove what the pipeline leaves behind when it is done, which
none of its own states says. `VerdictsShow`: until a verdict has had an effect
some goroutine still has an action to carry out, an action that Telegram refuses
puts a report in its place, and a plan is not empty when it is claimed (`VInv`).
`TextsAreJudged`: a version on record that no model has seen is before a
goroutine that will ask one, or its update is pending and unclaimed (`JInv`);
this needs that an update at work is claimed, not yet answered and one
goroutine's (`Taken`). `CancellationsClearUp`: every reply that warns about a
message can be found, because the rows lead to it by its number, or, where none
was recorded, because it is the bot's latest to that message, or because the
goroutine that sent it or removed its row is about to (`Traced`, `Steady`); that
goroutine is alone by `WInv` (`RInv`).

Two of these proofs failed at first, for good reasons. A version that was stored,
lost with a crash and stored again when its update came back could be lost in a
second crash, before the models were asked: a run with two crashes shows it, and
`StoredIsJudged` now excuses it (`CutShort`). And the table of warnings knows
no chats, so that cancelling a warning in one chat removes the row of a message
of another that has the same number, whose reply nobody finds then.

**Messages_proofs and Bot_proofs.** The first proves the invariants of Messages;
the second those of the other components of MCBot, and the theorems about
`BotSpec`, for any messages, entries, users and models. A behaviour of MCBot runs
one component; each invariant is stated for that one, and the rest shows that the
others leave it alone.

- `PinnedAreKept`, `CountedExactly`, `QueueIsWorkedOff`, `OriginalsAreKept`
  (`KInv`). A marked message is pinned in the queue and off the list of the
  clean-up, or gone with a purge (`MarkHolds`); a message that a job has passed
  is gone, or was refused (`Dealt`); the difference to the original is in the row
  and in what a half-done edit is about to write (`DiffKept`). The hypotheses
  (`PairNamed`, `SingleNamed`) say that the names of messages are not names of
  states of a job.
- `LimitKept`: what was sent is among the bot's rows, and while nobody overlaps
  one goroutine generates, for which the rows left room (`Room`).
- `EntriesAreWorkedOff`, `ReportsFollow`: whatever is newer than the last run is
  on the list of the run at work, or was worked off by it (`WorkedOff`); what is
  published is no newer than the last run, or this one did it (`Once`).
- `CacheTellsFindings`, `NewcomersAreScreened`: an entry of the cache agrees with
  the row, or runs out within the time to live of the write it has missed, or is
  about to be thrown out (`Sound`); a user has one entry, wherever a lookup
  moves it (`OneEach`). `CacheShape` needs lemmas about sequences: an element
  taken out, one put in front.
- `QuotesAreForgiven`, `EveryEntryIsTried`: attempt n goes to the n-th of the
  enabled entries, modulo their number. That this order leaves none out
  (`EveryRankIsTaken`) is a pigeonhole argument: ranks are a one-to-one function
  into as many numbers, so each number is taken.

**Web_proofs.** The theorems about `WebSpec`.

- `LoggedOutForGood`, for any number of processes and tokens. A token in `dead`
  has no row, no entry in any cache and no lookup on its way that has seen one; a
  logout that is still `clean` has seen to the part of that it has passed.
- `GuessingBounded`, for any limit and lockout. The failures counted for an
  address are its last guesses, the last of them at the recorded time once the
  limit is reached, and the guess before them lies a lockout back (`Counts`).
  `NewPasswordIsTakenOver` is a property of steps, from the same invariant.
- `RestartsAreSafe`, `SavedIsKept` (`ConfigInv`). The argument goes key by key.
  `Loaded` is what a start makes of a row, `Final` what it makes of a value that
  was put into memory: hashed where the table has hashes, replaced where the
  environment says so, defaulted where it is nil. Writing a value out and loading
  it again gives its `Final`, and a second time changes nothing. What was reported
  as saved is then the same, up to `Final`, in memory, in the strings of every
  request that is about to write, and in the table (`Acked`); what a request that
  met no other is about to report is in the first two already (`ToAck`), and
  there is one such request (`Alone`). `StartsAgain` needs that
  memory which is not `rough` passes the validation with the environment on top
  (`Fit`), and that this survives the strings (`Starting`).

**Transfer_proofs.** `TypeCorrect`, `ImportsAreFollowedUp`,
`ImportsLoseNothing`, for any number of requests. `ImportFollowedUp` is inductive
once the types are known: a worker leaves the steps after an import by doing the
last of them, or by an error that `cut` records. `NothingGoesBack` follows from
the types by one lemma on each merge strategy (`Merges`: what it gives is of the
table's type, keeps what is there, and changes nothing the second time), which
holds for every two databases, not only for the live and the other.

Constants that a theorem restricts and no module assumes are hypotheses of the
theorem: `MaxReplies`, `MaxModels`, `Ttl`, `MaxEntries \in Nat`;
`Writers \subseteq Users` (a task that writes a profile is about a user);
`MaxFailed \in Nat \ {0}`, `Lockout \in Nat`; `IsFiniteSet(ConfigProcs)`
(`AckedSurvives` counts the processes that requests have come to); and the two on
names above.

**Only model-checked.** The liveness properties `EventuallyCurrent` and
`EventuallyFreed`, under fairness: the prover does not reach fairness, `ENABLED`
or induction over data. The type invariants of the components of MCBot and MCWeb
are proved without the bounds of their counters, as part of the invariants above.
The properties of the violation runs do not hold. Every other property that a run
checks is a theorem.

## 7. Findings

Shown by a run:

1. `mute_cache_nil_map`. An invalidation between the check and the write of a
   mute makes the write go to a nil map; where the panic is recovered, `muteMu`
   stays locked (`operations.go:325`).
2. `scheduled_twice`. "prevents duplicate scheduled runs" (`README.md:157`): the
   claim looks at the lock, not at the last run, so an instance that decided
   before another recorded runs the occurrence again.
3. `cancel_deletes_other_reply`. The fallback of `deleteBotWarningReply` is for
   warnings from before their replies were recorded (`callbacks.go:1326-1330`),
   and could otherwise delete a creative reply. "Not a violation" calls it for
   messages that were never warned about, and `WebWarnUser` never records the
   reply's number; in both cases the creative reply is what it finds.

Met while modelling; a module names the state, and the property it belongs to
excuses it (each quoted in full in `PROJECT.json`, "findings"):

| Where | What | Name in the model |
|---|---|---|
| `operations.go:323` | a mute and an unmute that cross leave the cache with a mute that is in no table (`db.go:49-50`) | `disturbed` (MuteStore) |
| `operations.go:388` | warnings are found by user and number, which messages of two chats may share | excused in `NoOrphanReply` (Moderation) |
| `webui_moderation.go:158` | the rollback of a refused mute deletes a record that had replaced another | `refused` (Enforcement) |
| `operations.go:132` | a reload right after a mute has expired takes it from the checker's sight | `reloaded` (Enforcement) |
| `cruel_mute.go:102` | a cruel mute of a restricted user leaves the restriction | `recast` (Enforcement) |
| `web/api.go:271` | the rollback of a refused form leaves lists behind | `rough` (Configuration) |
| `web/api.go:366` | lists and uploaded environments are stored without validation | `roughRow` (Configuration) |
| `web/api.go:166` | a save reads and writes the configuration after its lock is released | `Collect`, `WriteBack` (Configuration) |
| `transfer.go:300` | an error while columns are read counts as a missing table, and the import commits | `ImportFile` (Transfer) |
| `api_files.go:463` | a failing step after an import skips the rest | `cut` (Transfer) |
| `ai_content.go:812` | link extraction and an edit overwrite each other's part of `extra_info` | `raced` (Messages) |
| `operations.go:721` | a repeated commit counts twice and reports no new user | `again` (Messages) |
| `website_watch.go:108` | a snapshot advances although no post arrived | `unheard` (Feeds) |
| `user_profiles.go:33` | what arrives or fails during a run is in no later window | `spoilt` (Feeds) |
| `filters.go:183` | a user may be screened again, or not at all | `forgotten`, `skipped` (Profiles) |
| `api_profiles.go:256` | a deleted profile stays in the cache | `spoilt` (Profiles) |
| `ai_client.go:308` | no fallback to the light models when all full ones are disabled | `Begin` (Models) |

## 8. What is not modelled

Listed in full, with reasons, under "components". In short:

- *Within the modelled parts.* `AddMutedUser`, which only tests call;
  `checkIntervalTaskDue`, which nothing calls; what handlers tell admins and
  log; daylight-saving time and clocks that differ between instances; the expiry
  of `updateDedup` and the ids of callbacks; cookies and random tokens; retention
  of old backups; schema synchronisation beyond its outcome.
- *Reads.* Statistics, plots, listings and exports of the environment, which
  change nothing.
- *Night mode's counter*: it lives under one mutex and is lost at a restart; the
  mute that follows from it is an action of Enforcement.
- *Data and I/O.* Prompts and the parsing of answers, which are nondeterministic
  outcomes here; the Telegram wrapper; weather posts, link summaries, greetings,
  directories of names, reaction counters; start-up wiring and metrics.
- *Composition.* MCBot and MCWeb put components side by side and run one of them
  per behaviour: what they share in the code beyond a database connection is
  noted in section 1 and modelled in one of them (the last run of a task in Feeds,
  the mute cache and the password in Transfer).

## 9. What is left

1. The mute store as a register per key whose lookups may lag, which MuteStore
   implements, with its refinement proved as that of the lease is.
2. Callback ids and the expiry of `updateDedup`; night mode's counter.

New runs take the place of weaker ones rather than being added to them.
