------------------------------ MODULE Transfer ------------------------------
(***************************************************************************)
(* Copies between databases: database/transfer.go, the handlers of         *)
(* web/api_files.go and the backup (internal/backup, bot/backup.go).       *)
(* There are the live database, a second one (the configured remote when   *)
(* the live one is local, the local file when it is remote), the file an   *)
(* admin downloads and uploads, and the backup.  An export reads table by  *)
(* table while the bot goes on writing; an import is one transaction,      *)
(* followed by steps of its own.  A table stands for every table with the  *)
(* same import strategy, and holds one row.                                *)
(***************************************************************************)
EXTENDS Integers, Sequences, SequencesExt

CONSTANTS Workers,          \* requests and the backup task, at the same time
          MaxFaults, MaxWrites, MaxJobs

ASSUME TransferAssumption == {MaxFaults, MaxWrites, MaxJobs} \subseteq Nat

VARIABLES
  live, far,    \* the active database and the other one
  isLocal,      \* DB.IsLocal of the active one
  fromDB,       \* apiHandler.configFromDB
  file,         \* the downloaded file, if there is one
  saved,        \* whether there is a backup
  memory,       \* web_ui.password in the process's configuration
  cached,       \* muteCache: a copy of muted_users, or "unloaded"
  job,          \* what each worker is doing
  cut,          \* history: an import was committed and its last steps were not
  faults, writes, jobs

vars == <<live, far, isLocal, fromDB, file, saved, memory, cached, job, cut, faults, writes, jobs>>

\* transferTableNames, one for each strategy.
TableNames == <<"config_values", "muted_users", "message_info", "actions", "scheduled_events",
                "user_profiles", "user_daily_activity">>
Tables == ToSet(TableNames)

\* What a row may hold; "none" and 0 mean that there is no row.
Passwords == {"none", "plain", "hash"}
Events == {[fired |-> 0, started |-> FALSE]} \cup [fired : 1 .. 2, started : BOOLEAN]
\* first = 0 is the empty first_seen_at; updated = 0 is no row.
Profiles == {[updated |-> 0, first |-> 0]} \cup [updated : 1 .. 2, first : 0 .. 2]
Mutes == {"none", "a"}
Values(t) ==
  CASE t = "config_values" -> Passwords
    [] t = "muted_users" -> Mutes
    [] t = "message_info" -> {"none", "a", "b"}
    [] t = "actions" -> SUBSET {"x"}
    [] t = "scheduled_events" -> Events
    [] t = "user_profiles" -> Profiles
    [] OTHER -> 0 .. 2

\* createTables: a database with nothing in it.
Empty == [t \in Tables |->
  CASE t = "scheduled_events" -> [fired |-> 0, started |-> FALSE]
    [] t = "user_profiles" -> [updated |-> 0, first |-> 0]
    [] t \in {"config_values", "muted_users", "message_info"} -> "none"
    [] t = "actions" -> {}
    [] OTHER -> 0]

Kinds == {"download", "upload", "clone_down", "clone_up", "backup"}
NoJob == [kind |-> "none", pc |-> "idle", conf |-> FALSE, tmp |-> Empty, todo |-> <<>>]

\* The databases differ in one table at first, and no password lies in the clear in the live one.
Init ==
  /\ \E t \in Tables :
       /\ live \in {[Empty EXCEPT ![t] = v] : v \in Values(t)}
       /\ far \in {[Empty EXCEPT ![t] = v] : v \in Values(t)}
  /\ live # far /\ live["config_values"] # "plain"
  /\ isLocal \in BOOLEAN /\ fromDB \in {TRUE, isLocal}
  /\ file = {} /\ saved = FALSE
  /\ memory = live["config_values"]
  /\ cached = "unloaded"
  /\ job = [w \in Workers |-> NoJob]
  /\ cut = FALSE /\ faults = 0 /\ writes = 0 /\ jobs = 0

---------------------------------------------------------------------------
(* Import strategies: the row of the source, the row of the destination.   *)

\* mergeTableTx: by primary key, the row that is there stays.
KeepExisting(src, dst) == IF dst = "none" THEN src ELSE dst

\* mergeAutoIncrementTableTx: rows are told apart by what they say, numbers are given anew.
AddUnknown(src, dst) == dst \cup src

\* mergeScheduledEventsTx: the later run; a row that is taken over has no lock.
LaterEvent(src, dst) ==
  IF src.fired = 0 THEN dst
  ELSE IF src.fired > dst.fired THEN [fired |-> src.fired, started |-> FALSE] ELSE dst

\* earlierFirstSeen: the empty value never wins.
EarlierFirstSeenEmpty(a, b) == IF a < b THEN a ELSE b
EarlierFirstSeen(a, b) == IF a = 0 THEN b ELSE IF b = 0 \/ a < b THEN a ELSE b

\* mergeDailyActivityTx, mergeTokenUsageTx, mergeModerationStatsTx, and for the time of a name
\* mergeForumTopicsTx: the larger one.
LargerSum(src, dst) == src + dst
Larger(src, dst) == IF src > dst THEN src ELSE dst

\* mergeUserProfilesTx: the newer row, with the earlier first_seen_at of the two.
NewerProfile(src, dst) ==
  IF src.updated = 0 THEN dst
  ELSE IF dst.updated = 0 THEN src
  ELSE [updated |-> Larger(src.updated, dst.updated),
        first |-> EarlierFirstSeen(src.first, dst.first)]

\* tableImportStrategy: anything else is replaced, by nothing if the source has nothing.
MergeTable(t, src, dst) ==
  CASE t = "message_info" -> KeepExisting(src, dst)
    [] t = "actions" -> AddUnknown(src, dst)
    [] t = "scheduled_events" -> LaterEvent(src, dst)
    [] t = "user_profiles" -> NewerProfile(src, dst)
    [] t = "user_daily_activity" -> Larger(src, dst)
    [] OTHER -> src

\* ImportFromLocalFile, once its transaction is committed.  copyTableTx and the merges take a
\* failing query for the columns for a table that is not there: nothing comes from the file.
Import(src, dst, conf) ==
  [t \in Tables |-> IF t = "config_values" /\ ~conf THEN dst[t] ELSE MergeTable(t, src[t], dst[t])]

---------------------------------------------------------------------------
(* Requests.                                                               *)

Fault == faults < MaxFaults /\ faults' = faults + 1
SetJob(w, j) == job' = [job EXCEPT ![w] = j]
Goto(w, pc) == SetJob(w, [job[w] EXCEPT !.pc = pc])
Done(w) == SetJob(w, NoJob)

\* ExportToLocalFile leaves config_values empty when the configuration is not asked for.
Todo(conf) == IF conf THEN TableNames ELSE Tail(TableNames)

\* Whether the data comes from the other database, and where an import goes.
Source(k) == IF (k = "clone_down" /\ isLocal) \/ (k = "clone_up" /\ ~isLocal) THEN far ELSE live
IntoLive(k) == k = "upload" \/ (k = "clone_down" /\ isLocal) \/ (k = "clone_up" /\ ~isLocal)

\* handleDownloadDB, handleCloneRemoteToLocal, handleCloneLocalToRemote, backup.Run and
\* snapshot: what is copied whole (a local database, by file, after a checkpoint) and what is
\* exported; handleUploadDB and a clone from the local file import at once.
Start(w, k, conf) ==
  /\ job[w] = NoJob /\ jobs < MaxJobs /\ jobs' = jobs + 1
  /\ LET whole == [kind |-> k, pc |-> "got", conf |-> conf, tmp |-> Source(k), todo |-> <<>>]
         byTable == [kind |-> k, pc |-> "export", conf |-> conf, tmp |-> Empty, todo |-> Todo(conf)]
     IN CASE k = "upload" -> \E f \in file : SetJob(w, [whole EXCEPT !.tmp = f])
          [] k = "download" /\ isLocal -> SetJob(w, whole)
          [] k = "backup" /\ isLocal /\ conf -> SetJob(w, whole)
          [] k = "clone_up" /\ ~isLocal -> SetJob(w, whole)
          [] OTHER -> SetJob(w, byTable)
  /\ UNCHANGED <<live, far, isLocal, fromDB, file, saved, memory, cached, cut, faults, writes>>

\* copyTable: each table in a query of its own.  An export that fails removes its file; but
\* a query for the columns that fails passes for a table that is not there.
CopyTable(w) ==
  /\ job[w].pc = "export"
  /\ LET t == Head(job[w].todo)
         rest == Tail(job[w].todo)
     IN \/ /\ SetJob(w, [job[w] EXCEPT !.tmp[t] = Source(job[w].kind)[t], !.todo = rest,
                                       !.pc = IF rest = <<>> THEN "got" ELSE "export"])
           /\ UNCHANGED faults
        \/ /\ Fault
           /\ \/ Done(w)
              \/ SetJob(w, [job[w] EXCEPT !.todo = rest, !.pc = IF rest = <<>> THEN "got" ELSE "export"])
  /\ UNCHANGED <<live, far, isLocal, fromDB, file, saved, memory, cached, cut, writes, jobs>>

\* The copy is handed out, renamed into place, or put at the backup destination under its
\* final name; a Put that fails leaves the backup that was there.
Deliver(w) ==
  /\ job[w].pc = "got" /\ ~IntoLive(job[w].kind) /\ ~(job[w].kind = "clone_up")
  /\ LET k == job[w].kind
     IN \/ /\ file' = IF k = "download" THEN {job[w].tmp} ELSE file
           /\ far' = IF k = "clone_down" THEN job[w].tmp ELSE far
           /\ saved' = (saved \/ k = "backup")
           /\ UNCHANGED faults
        \/ Fault /\ UNCHANGED <<file, far, saved>>
  /\ Done(w)
  /\ UNCHANGED <<live, isLocal, fromDB, memory, cached, cut, writes, jobs>>

\* What follows an import: the password is made safe, the configuration read again, the mute
\* cache told.  Nothing of it has to be told of an import into the other database.
AfterImportForgetful(k, conf) == IF conf THEN "secure" ELSE "idle"
AfterImport(k, conf) ==
  IF conf THEN "secure" ELSE IF IntoLive(k) THEN "invalidate" ELSE "idle"
AfterSecure(k) ==
  IF ~IntoLive(k) THEN "idle" ELSE IF fromDB THEN "reload" ELSE "invalidate"

To(w, pc) == IF pc = "idle" THEN Done(w) ELSE Goto(w, pc)

\* ImportFromLocalFile: all of it, nothing, or all of it and an error because the reply to the
\* commit was lost; after an error the handler ends.
ImportFile(w) ==
  /\ job[w].pc = "got" /\ (IntoLive(job[w].kind) \/ job[w].kind = "clone_up")
  /\ LET k == job[w].kind
         into == IntoLive(k)
         merged == Import(job[w].tmp, IF into THEN live ELSE far, job[w].conf)
         \* a table of which nothing was read
         without(t) == Import([job[w].tmp EXCEPT ![t] = Empty[t]], IF into THEN live ELSE far,
                              job[w].conf)
     IN \/ /\ live' = IF into THEN merged ELSE live
           /\ far' = IF into THEN far ELSE merged
           /\ \/ To(w, AfterImport(k, job[w].conf)) /\ UNCHANGED <<faults, cut>>
              \/ Fault /\ Done(w) /\ cut' = (cut \/ into)
        \/ \E t \in Tables :
             /\ Fault
             /\ live' = IF into THEN without(t) ELSE live
             /\ far' = IF into THEN far ELSE without(t)
             /\ To(w, AfterImport(k, job[w].conf)) /\ UNCHANGED cut
        \/ Fault /\ Done(w) /\ UNCHANGED <<live, far, cut>>
  /\ UNCHANGED <<isLocal, fromDB, file, saved, memory, cached, writes, jobs>>

\* hashStoredWebUIPasswordOn: what is stored in its place.
Secured(pw) == IF pw = "plain" THEN "hash" ELSE pw

HashStoredWebUIPassword(w) ==
  /\ job[w].pc = "secure"
  /\ LET into == IntoLive(job[w].kind)
     IN \/ /\ live' = IF into THEN [live EXCEPT !["config_values"] = Secured(@)] ELSE live
           /\ far' = IF into THEN far ELSE [far EXCEPT !["config_values"] = Secured(@)]
           /\ To(w, AfterSecure(job[w].kind)) /\ UNCHANGED <<faults, cut>>
        \/ Fault /\ Done(w) /\ cut' = (cut \/ into) /\ UNCHANGED <<live, far>>
  /\ UNCHANGED <<isLocal, fromDB, file, saved, memory, cached, writes, jobs>>

\* reloadConfigFromDB: refused by Validate, or by a failing read, it ends the request before
\* the mute cache is told.
ReloadConfigFromDB(w) ==
  /\ job[w].pc = "reload"
  /\ \/ memory' = live["config_values"] /\ Goto(w, "invalidate") /\ UNCHANGED <<faults, cut>>
     \/ Fault /\ Done(w) /\ cut' = TRUE /\ UNCHANGED memory
  /\ UNCHANGED <<live, far, isLocal, fromDB, file, saved, cached, writes, jobs>>

InvalidateMuteCache(w) ==
  /\ job[w].pc = "invalidate"
  /\ cached' = "unloaded"
  /\ Done(w)
  /\ UNCHANGED <<live, far, isLocal, fromDB, file, saved, memory, cut, faults, writes, jobs>>

---------------------------------------------------------------------------
(* The bot at work on the live database.                                   *)

LoadMuteCache ==
  /\ cached = "unloaded" /\ cached' = live["muted_users"]
  /\ UNCHANGED <<live, far, isLocal, fromDB, file, saved, memory, job, cut, faults, writes, jobs>>

\* A mute or an unmute: the table and a loaded cache.
Mute(v) ==
  /\ writes < MaxWrites /\ writes' = writes + 1
  /\ live' = [live EXCEPT !["muted_users"] = v]
  /\ cached' = IF cached = "unloaded" THEN cached ELSE v
  /\ UNCHANGED <<far, isLocal, fromDB, file, saved, memory, job, cut, faults, jobs>>

\* A task starts and holds its lock, or is done; a counter goes up.
Work ==
  /\ writes < MaxWrites /\ writes' = writes + 1
  /\ \/ /\ live["scheduled_events"].fired > 0
        /\ live' = [live EXCEPT !["scheduled_events"].started = ~@]
     \/ /\ live["user_daily_activity"] < 2
        /\ live' = [live EXCEPT !["user_daily_activity"] = @ + 1]
  /\ UNCHANGED <<far, isLocal, fromDB, file, saved, memory, cached, job, cut, faults, jobs>>

Next ==
  \/ \E w \in Workers :
       \/ \E k \in Kinds, conf \in BOOLEAN : Start(w, k, conf)
       \/ CopyTable(w) \/ Deliver(w) \/ ImportFile(w)
       \/ HashStoredWebUIPassword(w) \/ ReloadConfigFromDB(w) \/ InvalidateMuteCache(w)
  \/ LoadMuteCache \/ (\E v \in Mutes : Mute(v)) \/ Work

Spec == Init /\ [][Next]_vars

---------------------------------------------------------------------------
(* Properties.                                                             *)

IsDB(d) == \A t \in Tables : d[t] \in Values(t)

\* Every database, file and copy has the tables of the program, in the right types.
TypeOK ==
  /\ IsDB(live) /\ IsDB(far)
  /\ (\A d \in file : IsDB(d))
  /\ memory \in Passwords /\ cached \in Mutes \cup {"unloaded"}
  /\ \A w \in Workers :
       /\ job[w].kind \in Kinds \cup {"none"} /\ IsDB(job[w].tmp)
       /\ job[w].pc \in {"idle", "export", "got", "secure", "reload", "invalidate"}
  /\ {isLocal, fromDB, cut, saved} \subseteq BOOLEAN

\* What follows an import is done, but for the time until its handler has done it and after a
\* handler that ended on an error: the bot does not go on with mutes that the import has
\* replaced, and no imported password lies in the clear in the live database.
\* (handleUploadDB, cloneRemoteIntoActiveLocal, handleCloneLocalToRemote)
ImportFollowedUp ==
  LET after(pcs) == \E w \in Workers : job[w].pc \in pcs /\ IntoLive(job[w].kind)
  IN \/ cut
     \/ /\ cached \in {"unloaded", live["muted_users"]} \/ after({"secure", "reload", "invalidate"})
        /\ live["config_values"] # "plain" \/ after({"secure"})

\* Whatever file is imported: no message and no entry of the log is lost or overwritten, no
\* count goes down, no task forgets that it has run, nobody is first seen later than before, or
\* never; and the same file once more changes nothing.  (mergeTableTx, mergeScheduledEventsTx, earlierFirstSeen,
\* the MAX merges: "keeps re-imports idempotent")
NothingGoesBack ==
  \A dbs \in {<<live, far>>, <<far, live>>} :
    LET src == dbs[1]
        dst == dbs[2]
        new == Import(src, dst, TRUE)
    IN /\ dst["actions"] \subseteq new["actions"]
       /\ dst["message_info"] # "none" => new["message_info"] = dst["message_info"]
       /\ new["user_daily_activity"] >= dst["user_daily_activity"]
       /\ new["scheduled_events"].fired >= dst["scheduled_events"].fired
       /\ dst["user_profiles"].first > 0 =>
            new["user_profiles"].first \in 1 .. dst["user_profiles"].first
       /\ Import(src, new, TRUE) = new
============================================================================
