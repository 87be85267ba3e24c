--------------------------- MODULE Configuration ---------------------------
(***************************************************************************)
(* The configuration: config_db.go, env_apply.go, defaults.go and          *)
(* validation.go of internal/config, the handlers of web/api.go and        *)
(* web/api_files.go that change it, and how main.go starts from it.        *)
(* A process holds one Config in memory, saves the whole of it to the      *)
(* table config_values or to the file, and starts from what is there, with *)
(* the environment on top.  Each kind of field the reflection walks know   *)
(* is one key here.                                                        *)
(***************************************************************************)
EXTENDS Integers, FiniteSets

CONSTANTS
  Procs,          \* processes on one database
  Handlers,       \* requests that change the configuration
  DefaultHours,   \* what setDefaults puts in place of a zero
  MaxSaves, MaxFaults

VARIABLES
  fromDB,    \* apiHandler.configFromDB
  env,       \* what the environment pins: key -> no value, or one
  home,      \* the process a handler runs in
  up, mem,   \* per process: whether it runs, and its Config
  stored,    \* config_values or the file: key -> no value, or one
  job,       \* per handler: what it is doing
  saves, faults,
  rough,     \* history, per process: memory holds something that was never validated as it will run
  roughRow,  \* history: so does what is stored
  torn,      \* history: a process died while it wrote the file
  acked      \* history: key -> the value last reported as saved, if nothing has questioned it

vars == <<fromDB, env, home, up, mem, stored, job, saves, faults, rough, roughRow, torn, acked>>

---------------------------------------------------------------------------
(* Values and strings.                                                     *)

\* One field of each kind: night_mode.enabled (bool), night_mode.days (list), web_ui.otp_enabled
\* (pointer), database_cleanup.cleanup_interval_hours (number with a default), web_ui.password
\* (string), ai.rss.feeds with the topic of post_to (list of structures).
Values == [enabled  |-> BOOLEAN,
           days     |-> {{}, {"mon"}, {"bad"}},
           otp      |-> {"nil", "on", "off"},
           hours    |-> {0, DefaultHours, DefaultHours + 1},
           password |-> {"", "p1", "p2", "h1", "h2"},
           feeds    |-> {{}, {"main"}, {"any"}}]
Keys == DOMAIN Values
Zero == [enabled |-> FALSE, days |-> {}, otp |-> "nil", hours |-> 0, password |-> "", feeds |-> {}]
IsConfig(c) == DOMAIN c = Keys /\ \A k \in Keys : c[k] \in Values[k]

\* Keys whose string is missing or empty, and then ignored, when the value is its zero.
BlankKeys == {"days", "otp", "feeds"}
NoRows == [k \in Keys |-> {}]
Over(c, kv) == [k \in Keys |-> IF kv[k] = {} THEN c[k] ELSE CHOOSE v \in kv[k] : TRUE]

\* HashWebUIPasswordForStorage
Hashed(pw) == IF pw = "p1" THEN "h1" ELSE IF pw = "p2" THEN "h2" ELSE pw

\* collectStringKV
ConfigToStringMap(c) == [k \in Keys |-> IF k \in BlankKeys /\ c[k] = Zero[k] THEN {} ELSE {c[k]}]
\* The plausible slip: the password is written as it was typed.
ConfigInTheClear(c) == ConfigToStringMap(c)
ConfigToDBStringMap(c) == ConfigToStringMap([c EXCEPT !.password = Hashed(@)])

\* applyMapRecursive, applyEnvRecursive: what is there replaces what was in the field.
ApplyStringMap(c, kv) == Over(c, kv)
ApplyEnvOverrides(c) == Over(c, env)

SetDefaults(c) == [c EXCEPT !.otp = IF @ = "nil" THEN "on" ELSE @,
                            !.hours = IF @ = 0 THEN DefaultHours ELSE @]

ValidateNightMode(c) == c.enabled => "bad" \notin c.days
ValidatePostToDestinations(c) == "any" \notin c.feeds
Validate(c) == ValidateNightMode(c) /\ ValidatePostToDestinations(c)

\* LoadFromStringMap, and Load of a file, up to the call of Validate.
Load(kv) == SetDefaults(ApplyEnvOverrides(ApplyStringMap(Zero, kv)))

\* MissingConfigFields: nothing can be started from an empty file.
Startable(kv) == Validate(Load(kv)) /\ (fromDB \/ kv # NoRows)

---------------------------------------------------------------------------
(* The handlers.                                                           *)

NoJob == [pc |-> "idle", kv |-> NoRows, put |-> NoRows, rough |-> FALSE, alone |-> TRUE]
InFlight == {h \in Handlers : job[h].pc # "idle"}

\* What the form can be given for each key: the value, or the sentinel of a secret, which
\* changes nothing and is left out.
Put(k, v) == [NoRows EXCEPT ![k] = {v}]
FormUpdates ==
  (UNION {{Put(k, v) : v \in Values[k]} : k \in {"enabled", "days", "otp", "hours"}})
    \cup {Put("password", pw) : pw \in {"", "p1", "p2"}}
    \cup {[Put("enabled", TRUE) EXCEPT !.days = {d}] : d \in Values["days"]}

\* The requests on the way, once another one has come between them.
Disturbed == [g \in Handlers |->
  IF g \in InFlight THEN [job[g] EXCEPT !.alone = FALSE] ELSE job[g]]

\* A handler begins to save what memory holds.
Begin(h, put) ==
  /\ job' = [Disturbed EXCEPT ![h] = [NoJob EXCEPT !.pc = "collect", !.put = put,
                                                   !.alone = InFlight = {}]]
  /\ acked' = [k \in Keys |-> IF put[k] # {} THEN {} ELSE acked[k]]

CanSave(h) ==
  /\ up[home[h]] /\ job[h].pc = "idle"
  /\ saves < MaxSaves /\ saves' = saves + 1

\* Keys that the environment pins are left out of a form.
EditableAll(updates) == updates
Editable(updates) == [k \in Keys |-> IF env[k] # {} THEN {} ELSE updates[k]]

\* Whether memory still has what the environment pins.
EnvHolds(c) == ApplyEnvOverrides(c) = c

\* handleSaveConfig puts the snapshot back: what the snapshot has no string for stays.
RolledBack(c, old) == ApplyStringMap(c, ConfigToStringMap(old))

\* handleSaveConfig: the updates are applied, the whole validated, under
\* config.Lock.
SaveForm(h, updates) ==
  /\ CanSave(h)
  /\ LET p == home[h]
         put == Editable(updates)
         new == Over(mem[p], put)
     IN IF Validate(new)
        THEN /\ mem' = [mem EXCEPT ![p] = new]
             /\ rough' = [rough EXCEPT ![p] = @ /\ ~EnvHolds(new)]
             /\ Begin(h, put)
        ELSE /\ mem' = [mem EXCEPT ![p] = RolledBack(new, @)]
             /\ rough' = [rough EXCEPT ![p] = @ \/ mem'[p] # mem[p]]
             /\ acked' = [k \in Keys |-> IF mem'[p][k] # mem[p][k] THEN {} ELSE acked[k]]
             /\ job' = IF mem' = mem THEN job ELSE Disturbed
  /\ UNCHANGED <<fromDB, env, home, up, stored, faults, roughRow, torn>>

\* handleSaveRssFeeds, handleSaveWatchedSites: the list is replaced, and nothing validated.
SaveList(h, feeds) ==
  /\ CanSave(h)
  /\ mem' = [mem EXCEPT ![home[h]].feeds = feeds]
  /\ rough' = [rough EXCEPT ![home[h]] = @ \/ ~Validate(mem'[home[h]])]
  /\ Begin(h, Put("feeds", feeds))
  /\ UNCHANGED <<fromDB, env, home, up, stored, faults, roughRow, torn>>

\* setConfigFieldByEnv: no pointer to a bool, and nothing is refused.
UploadEnv(h, updates) ==
  /\ CanSave(h)
  /\ LET put == [updates EXCEPT !.otp = {}, !.feeds = {}]
     IN mem' = [mem EXCEPT ![home[h]] = Over(@, put)] /\ Begin(h, put)
  /\ rough' = [rough EXCEPT ![home[h]] = TRUE]
  /\ UNCHANGED <<fromDB, env, home, up, stored, faults, roughRow, torn>>

\* handleUploadConfig: the table or the file first; memory follows when that has worked.
UploadConfig(h, c) ==
  /\ CanSave(h)
  /\ job' = [Disturbed EXCEPT ![h] =
       [NoJob EXCEPT !.pc = "write", !.rough = TRUE, !.alone = FALSE, !.put = ConfigToStringMap(c),
                     !.kv = IF fromDB THEN ConfigToDBStringMap(c) ELSE ConfigToStringMap(c)]]
  /\ acked' = NoRows
  /\ UNCHANGED <<fromDB, env, home, up, mem, stored, faults, rough, roughRow, torn>>

\* persistConfig outside of the lock: the strings of the memory of this moment ...
Collect(h) ==
  /\ job[h].pc = "collect"
  /\ LET c == mem[home[h]]
     IN job' = [job EXCEPT ![h].pc = "write", ![h].rough = rough[home[h]],
          ![h].kv = IF fromDB THEN ConfigToDBStringMap(c) ELSE ConfigToStringMap(c)]
  /\ UNCHANGED <<fromDB, env, home, up, mem, stored, saves, faults, rough, roughRow, torn, acked>>

Fault == faults < MaxFaults /\ faults' = faults + 1
Done(h) == job' = [job EXCEPT ![h] = NoJob]

\* SetAllConfigValues: rows of keys that are no longer there are deleted.
AllButStale(kv) == [k \in Keys |-> IF kv[k] = {} THEN stored[k] ELSE kv[k]]
AllConfigValues(kv) == kv

\* ... into the table, in one transaction, or into the file, which os.WriteFile empties first.
\* An error is reported; a transaction may have been committed all the same.
Write(h) ==
  /\ job[h].pc = "write"
  /\ \/ /\ stored' = IF fromDB THEN AllConfigValues(job[h].kv) ELSE NoRows
        /\ roughRow' = (IF fromDB THEN job[h].rough ELSE roughRow)
        /\ \/ job' = [job EXCEPT ![h].pc = IF fromDB THEN "back" ELSE "fill"] /\ UNCHANGED faults
           \/ fromDB /\ Fault /\ Done(h)
     \/ Fault /\ Done(h) /\ UNCHANGED <<stored, roughRow>>
  /\ UNCHANGED <<fromDB, env, home, up, mem, saves, rough, torn, acked>>

Fill(h) ==
  /\ job[h].pc = "fill"
  /\ stored' = job[h].kv /\ roughRow' = job[h].rough
  /\ job' = [job EXCEPT ![h].pc = "back"]
  /\ UNCHANGED <<fromDB, env, home, up, mem, saves, faults, rough, torn, acked>>

Uploaded(h) == \A k \in Keys \ BlankKeys : job[h].put[k] # {}

\* The answer.  An upload now replaces memory, without the environment and the defaults;
\* persistConfig has put the hashed password into memory, whatever is there by now.
WriteBack(h) ==
  /\ job[h].pc = "back"
  /\ LET p == home[h]
     IN /\ IF Uploaded(h)
           THEN mem' = [mem EXCEPT ![p] = ApplyStringMap(Zero, job[h].kv)]
           ELSE mem' = [mem EXCEPT ![p].password =
                          IF fromDB THEN CHOOSE v \in job[h].kv.password : TRUE ELSE @]
        /\ rough' = [rough EXCEPT ![p] = @ \/ Uploaded(h)]
  /\ acked' = IF ~job[h].alone THEN NoRows
              ELSE [k \in Keys |-> IF job[h].put[k] # {} THEN job[h].put[k] ELSE acked[k]]
  /\ Done(h)
  /\ UNCHANGED <<fromDB, env, home, up, stored, saves, faults, roughRow, torn>>

---------------------------------------------------------------------------
(* Start and end of a process.                                             *)

\* runBot: an empty table is seeded from the example; a password in the clear is hashed there;
\* a configuration that Validate refuses, or with fields missing, is the end.
StoredAtStart ==
  IF ~fromDB THEN stored
  ELSE IF stored = NoRows THEN ConfigToDBStringMap(SetDefaults(ApplyEnvOverrides(Zero)))
  ELSE [stored EXCEPT !.password = {Hashed(v) : v \in @}]

Start(p) ==
  /\ ~up[p] /\ Startable(StoredAtStart)
  /\ stored' = StoredAtStart
  /\ up' = [up EXCEPT ![p] = TRUE]
  /\ mem' = [mem EXCEPT ![p] = Load(stored')]
  /\ rough' = [rough EXCEPT ![p] = FALSE]
  /\ UNCHANGED <<fromDB, env, home, job, saves, faults, roughRow, torn, acked>>

\* The process stops, for a restart or by a crash, with whatever its handlers were doing.
Stop(p) ==
  /\ Fault
  /\ up' = [up EXCEPT ![p] = FALSE]
  /\ job' = [h \in Handlers |-> IF home[h] = p THEN NoJob ELSE job[h]]
  /\ torn' = (torn \/ \E h \in Handlers : home[h] = p /\ job[h].pc = "fill")
  /\ UNCHANGED <<fromDB, env, home, mem, stored, saves, rough, roughRow, acked>>

\* Any configuration that starts may be there at first, or none.
Init ==
  /\ fromDB \in BOOLEAN
  /\ env \in {NoRows, Put("enabled", TRUE)}
  /\ home \in [Handlers -> Procs]
  /\ up = [p \in Procs |-> FALSE]
  /\ mem = [p \in Procs |-> Zero]
  /\ stored \in {NoRows, ConfigToStringMap([Zero EXCEPT !.enabled = TRUE, !.otp = "off", !.password = "p1"])}
  /\ fromDB \/ stored # NoRows
  /\ job = [h \in Handlers |-> NoJob]
  /\ saves = 0 /\ faults = 0
  /\ rough = [p \in Procs |-> FALSE] /\ roughRow = FALSE /\ torn = FALSE
  /\ acked = NoRows

Next ==
  \/ \E h \in Handlers :
       \/ \E u \in FormUpdates : SaveForm(h, u)
       \/ \E f \in Values["feeds"] : SaveList(h, f)
       \/ \E u \in {Put("enabled", FALSE), Put("days", {"bad"}), Put("otp", "off")} : UploadEnv(h, u)
       \/ UploadConfig(h, [Zero EXCEPT !.enabled = TRUE, !.days = {"bad"}, !.password = "p2"])
       \/ Collect(h) \/ Write(h) \/ Fill(h) \/ WriteBack(h)
  \/ \E p \in Procs : Start(p) \/ Stop(p)

Spec == Init /\ [][Next]_vars

---------------------------------------------------------------------------
(* Properties.                                                             *)

IsRows(kv) == DOMAIN kv = Keys /\ \A k \in Keys : kv[k] \subseteq Values[k] /\ Cardinality(kv[k]) <= 1

\* Every variable has its type, and a process that runs from the table has a password only
\* hashed there.
TypeOK ==
  /\ fromDB \in BOOLEAN /\ torn \in BOOLEAN /\ roughRow \in BOOLEAN
  /\ IsRows(env) /\ IsRows(stored) /\ IsRows(acked)
  /\ home \in [Handlers -> Procs] /\ up \in [Procs -> BOOLEAN] /\ rough \in [Procs -> BOOLEAN]
  /\ \A p \in Procs : IsConfig(mem[p])
  /\ \A h \in Handlers : job[h].pc \in {"idle", "collect", "write", "fill", "back"}
  /\ (fromDB /\ \E p \in Procs : up[p]) => stored.password \subseteq {"", "h1", "h2"}

\* What was reported as saved is what the next start finds, whatever else was saved, refused or
\* failed since: unless another request was on the way at the same time, another process saved
\* too, a refused form left something behind, or the file was lost.  (persistConfig,
\* SetAllConfigValues, LoadFromStringMap)
AckedSurvives ==
  \/ torn \/ Cardinality({home[h] : h \in Handlers}) > 1
  \/ \E h \in Handlers : job[h].pc = "fill"
  \/ \A k \in Keys : acked[k] # {} =>
       Load(stored)[k] = LET c == Load(acked)[k] IN IF k = "password" /\ fromDB THEN Hashed(c) ELSE c

\* A process can start again from what the form has saved, although another request may have
\* changed memory, or failed half-way, meanwhile: only what was never validated as it will run
\* (a list, an uploaded file, what a refused form left) and a file lost in a crash can stop it.
\* (handleSaveConfig, Validate)
StartsAgain ==
  roughRow \/ torn \/ (\E h \in Handlers : job[h].pc = "fill") \/ Startable(StoredAtStart)
============================================================================
