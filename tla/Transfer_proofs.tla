--------------------------- MODULE Transfer_proofs ---------------------------
(***************************************************************************)
(* What copies between databases promise, for any number of requests at    *)
(* the same time, any writes and any faults: whatever may be in the two    *)
(* databases, in the uploaded file and in the half-read copies, it is a    *)
(* database of the program; an import of any such into any other loses     *)
(* nothing; and what follows an import is done or is being done.           *)
(***************************************************************************)
EXTENDS Transfer, TLAPS

---------------------------------------------------------------------------
(* Databases.                                                              *)

Cells == UNION {Values(t) : t \in Tables}
DBs == {d \in [Tables -> Cells] : IsDB(d)}

LEMMA NamesAre ==
  /\ TableNames \in Seq(Tables) /\ TableNames # <<>>
  /\ Tail(TableNames) \in Seq(Tables) /\ Tail(TableNames) # <<>>
  /\ Tables = {"config_values", "muted_users", "message_info", "actions", "scheduled_events",
               "user_profiles", "user_daily_activity"}
<1> DEFINE Seven == {"config_values", "muted_users", "message_info", "actions", "scheduled_events",
                     "user_profiles", "user_daily_activity"}
<1>1. /\ TableNames \in Seq(Seven) /\ Len(TableNames) = 7 /\ DOMAIN TableNames = 1 .. 7
      /\ TableNames[1] = "config_values" /\ TableNames[2] = "muted_users"
      /\ TableNames[3] = "message_info" /\ TableNames[4] = "actions"
      /\ TableNames[5] = "scheduled_events" /\ TableNames[6] = "user_profiles"
      /\ TableNames[7] = "user_daily_activity"
    BY DEF TableNames
<1>2. Tables = Seven
    BY <1>1 DEF Tables, ToSet
<1>3. Len(Tail(TableNames)) = 6 /\ Tail(TableNames) \in Seq(Seven)
    BY <1>1
<1>4. Len(<<>>) = 0
    OBVIOUS
<1>5. Tail(TableNames) # <<>> /\ TableNames # <<>>
  <2>1. ASSUME Tail(TableNames) = <<>> PROVE FALSE
    <3>1. Len(Tail(TableNames)) = 0
        BY <2>1, <1>4, Zenon
    <3> QED
        BY <3>1, <1>3
  <2>2. ASSUME TableNames = <<>> PROVE FALSE
    <3>1. Len(TableNames) = 0
        BY <2>2, <1>4, Zenon
    <3> QED
        BY <3>1, <1>1
  <2> QED
      BY <2>1, <2>2
<1> HIDE DEF Seven
<1>6. TableNames \in Seq(Tables) /\ Tail(TableNames) \in Seq(Tables)
    BY <1>1, <1>2, <1>3
<1> QED
    BY <1>2, <1>5, <1>6 DEF Seven

LEMMA ValuesAre ==
  /\ Values("config_values") = Passwords /\ Values("muted_users") = Mutes
  /\ Values("message_info") = {"none", "a", "b"} /\ Values("actions") = SUBSET {"x"}
  /\ Values("scheduled_events") = Events /\ Values("user_profiles") = Profiles
  /\ Values("user_daily_activity") = 0 .. 2
BY DEF Values

LEMMA InCells == \A t \in Tables : Values(t) \subseteq Cells
BY DEF Cells

LEMMA DBsAre == ASSUME NEW d \in DBs PROVE d \in [Tables -> Cells] /\ \A t \in Tables : d[t] \in Values(t)
BY DEF DBs, IsDB

LEMMA MadeDB == ASSUME NEW d, d = [t \in Tables |-> d[t]], \A t \in Tables : d[t] \in Values(t) PROVE d \in DBs
BY InCells DEF DBs, IsDB

\* One table written.
LEMMA Written ==
  ASSUME NEW d \in DBs, NEW t \in Tables, NEW v \in Values(t)
  PROVE  /\ [d EXCEPT ![t] = v] \in DBs /\ [d EXCEPT ![t] = v][t] = v
         /\ \A u \in Tables \ {t} : [d EXCEPT ![t] = v][u] = d[u]
<1>1. d \in [Tables -> Cells] /\ \A u \in Tables : d[u] \in Values(u)
    BY DBsAre
<1>2. \A u \in Tables : [d EXCEPT ![t] = v][u] = IF u = t THEN v ELSE d[u]
    BY <1>1
<1>3. [d EXCEPT ![t] = v] = [u \in Tables |-> [d EXCEPT ![t] = v][u]]
    BY <1>1
<1>4. \A u \in Tables : [d EXCEPT ![t] = v][u] \in Values(u)
    BY <1>1, <1>2
<1> QED
    BY <1>2, <1>3, <1>4, MadeDB

LEMMA EmptyIsDB == Empty \in DBs
<1>1. /\ Empty["config_values"] = "none" /\ Empty["muted_users"] = "none"
      /\ Empty["message_info"] = "none" /\ Empty["actions"] = {}
      /\ Empty["scheduled_events"] = [fired |-> 0, started |-> FALSE]
      /\ Empty["user_profiles"] = [updated |-> 0, first |-> 0]
      /\ Empty["user_daily_activity"] = 0
      /\ Empty = [t \in Tables |-> Empty[t]]
    BY NamesAre DEF Empty
<1>2. \A t \in Tables : Empty[t] \in Values(t)
    BY <1>1, NamesAre, ValuesAre DEF Passwords, Mutes, Events, Profiles
<1> QED
    BY <1>1, <1>2, MadeDB

---------------------------------------------------------------------------
(* Import: what each strategy gives, keeps and does when it is repeated.   *)

LEMMA Merges ==
  ASSUME NEW t \in Tables, NEW s \in Values(t), NEW d \in Values(t)
  PROVE  /\ MergeTable(t, s, d) \in Values(t)
         /\ MergeTable(t, s, MergeTable(t, s, d)) = MergeTable(t, s, d)
         /\ t = "actions" => d \subseteq MergeTable(t, s, d)
         /\ t = "message_info" /\ d # "none" => MergeTable(t, s, d) = d
         /\ t = "user_daily_activity" => MergeTable(t, s, d) >= d
         /\ t = "scheduled_events" => MergeTable(t, s, d).fired >= d.fired
         /\ t = "user_profiles" /\ d.first > 0 => MergeTable(t, s, d).first \in 1 .. d.first
<1>1. CASE t \in {"config_values", "muted_users"}
    BY <1>1 DEF MergeTable
<1>2. CASE t = "message_info"
    BY <1>2, ValuesAre DEF MergeTable, KeepExisting
<1>3. CASE t = "actions"
    BY <1>3, ValuesAre DEF MergeTable, AddUnknown
<1>4. CASE t = "scheduled_events"
  <2>1. /\ s.fired \in 0 .. 2 /\ d.fired \in 0 .. 2
        /\ s \in Events /\ d \in Events
        /\ \A x \in 1 .. 2 : [fired |-> x, started |-> FALSE] \in Events
      BY <1>4, ValuesAre DEF Events
  <2>2. MergeTable(t, s, d) = LaterEvent(s, d) /\ MergeTable(t, s, LaterEvent(s, d)) = LaterEvent(s, LaterEvent(s, d))
      BY <1>4 DEF MergeTable
  <2>3. CASE s.fired # 0 /\ s.fired > d.fired
    <3>1. LaterEvent(s, d) = [fired |-> s.fired, started |-> FALSE]
        BY <2>3 DEF LaterEvent
    <3>2. LaterEvent(s, [fired |-> s.fired, started |-> FALSE]) = [fired |-> s.fired, started |-> FALSE]
        BY <2>1 DEF LaterEvent
    <3> DEFINE n == [fired |-> s.fired, started |-> FALSE]
    <3>3. n \in Events /\ n.fired = s.fired /\ n.fired >= d.fired
      <4>1. s.fired \in 1 .. 2 /\ d.fired \in Nat /\ n.fired = s.fired
          BY <2>1, <2>3
      <4>2. \A x \in 1 .. 2 : [fired |-> x, started |-> FALSE] \in Events
          BY <2>1
      <4>3. n \in Events
          BY <4>1, <4>2, Zenon
      <4> QED
          BY <2>3, <4>1, <4>3
    <3>4. MergeTable(t, s, d) = n /\ MergeTable(t, s, n) = n
        BY <2>2, <3>1, <3>2
    <3> HIDE DEF n
    <3> QED
        BY <1>4, <3>3, <3>4, ValuesAre
  <2>4. CASE ~(s.fired # 0 /\ s.fired > d.fired)
    <3>1. LaterEvent(s, d) = d
        BY <2>4 DEF LaterEvent
    <3> QED
        BY <1>4, <2>1, <2>2, <3>1, ValuesAre
  <2> QED
      BY <2>3, <2>4
<1>5. CASE t = "user_profiles"
  <2>1. /\ s \in Profiles /\ d \in Profiles
        /\ s.updated \in 0 .. 2 /\ s.first \in 0 .. 2 /\ d.updated \in 0 .. 2 /\ d.first \in 0 .. 2
        /\ d.updated = 0 => d.first = 0
        /\ \A x \in 1 .. 2, y \in 0 .. 2 : [updated |-> x, first |-> y] \in Profiles
      BY <1>5, ValuesAre DEF Profiles
  <2>2. \A x : MergeTable(t, s, x) = NewerProfile(s, x)
      BY <1>5 DEF MergeTable
  <2>3. CASE s.updated = 0
      BY <1>5, <2>1, <2>2, <2>3, ValuesAre DEF NewerProfile
  <2>4. CASE s.updated # 0 /\ d.updated = 0
    <3>1. NewerProfile(s, d) = s
        BY <2>4 DEF NewerProfile
    <3>2. NewerProfile(s, s) = [updated |-> s.updated, first |-> s.first]
        BY <2>1, <2>4 DEF NewerProfile, Larger, EarlierFirstSeen
    <3>3. s = [updated |-> s.updated, first |-> s.first]
        BY <2>1 DEF Profiles
    <3> QED
        BY <1>5, <2>1, <2>2, <2>4, <3>1, <3>2, <3>3, ValuesAre
  <2>5. CASE s.updated # 0 /\ d.updated # 0
    <3> DEFINE u == Larger(s.updated, d.updated)
               f == EarlierFirstSeen(s.first, d.first)
               n == [updated |-> u, first |-> f]
    <3>1. NewerProfile(s, d) = n
        BY <2>5 DEF NewerProfile
    <3>2. /\ u \in 1 .. 2 /\ f \in 0 .. 2 /\ (d.first > 0 => f \in 1 .. d.first)
          /\ Larger(s.updated, u) = u /\ EarlierFirstSeen(s.first, f) = f
        BY <2>1, <2>5 DEF Larger, EarlierFirstSeen
    <3>3. n.updated = u /\ n.first = f
        OBVIOUS
    <3> HIDE DEF u, f
    <3>4. NewerProfile(s, n) = n
        BY <2>5, <3>2, <3>3 DEF NewerProfile
    <3> QED
        BY <1>5, <2>1, <2>2, <3>1, <3>2, <3>3, <3>4, ValuesAre
  <2> QED
      BY <2>3, <2>4, <2>5
<1>6. CASE t = "user_daily_activity"
    BY <1>6, ValuesAre DEF MergeTable, Larger
<1> QED
    BY <1>1, <1>2, <1>3, <1>4, <1>5, <1>6, NamesAre

LEMMA Imports ==
  ASSUME NEW s \in DBs, NEW d \in DBs, NEW conf \in BOOLEAN
  PROVE  /\ Import(s, d, conf) \in DBs
         /\ \A t \in Tables : Import(s, d, conf)[t] =
              IF t = "config_values" /\ ~conf THEN d[t] ELSE MergeTable(t, s[t], d[t])
<1>1. /\ \A t \in Tables : s[t] \in Values(t) /\ d[t] \in Values(t)
    BY DBsAre
<1>2. \A t \in Tables : Import(s, d, conf)[t] =
              IF t = "config_values" /\ ~conf THEN d[t] ELSE MergeTable(t, s[t], d[t])
    BY DEF Import
<1>3. \A t \in Tables : MergeTable(t, s[t], d[t]) \in Values(t)
    BY <1>1, Merges
<1>4. \A t \in Tables : Import(s, d, conf)[t] \in Values(t)
    BY <1>1, <1>2, <1>3
<1>5. Import(s, d, conf) = [t \in Tables |-> Import(s, d, conf)[t]]
    BY DEF Import
<1> QED
    BY <1>2, <1>4, <1>5, MadeDB

\* The configuration comes along only when it is asked for.
LEMMA Asked ==
  ASSUME NEW s \in DBs, NEW d \in DBs, NEW conf \in BOOLEAN
  PROVE  /\ Import(s, d, conf) \in DBs
         /\ ~conf => Import(s, d, conf)["config_values"] = d["config_values"]
<1>1. "config_values" \in Tables
    BY NamesAre
<1> QED
    BY <1>1, Imports

\* The same file once more.
LEMMA Again ==
  ASSUME NEW s \in DBs, NEW d \in DBs
  PROVE  Import(s, Import(s, d, TRUE), TRUE) = Import(s, d, TRUE)
<1> DEFINE n == Import(s, d, TRUE)
<1>1. n \in DBs /\ \A t \in Tables : n[t] = MergeTable(t, s[t], d[t])
    BY Imports
<1>2. \A t \in Tables : s[t] \in Values(t) /\ d[t] \in Values(t)
    BY DBsAre
<1>3. n \in [Tables -> Cells]
    BY <1>1, DBsAre
<1> HIDE DEF n
<1>4. Import(s, n, TRUE) \in DBs /\ \A t \in Tables : Import(s, n, TRUE)[t] = MergeTable(t, s[t], n[t])
    BY <1>1, Imports
<1>5. ASSUME NEW t \in Tables PROVE Import(s, n, TRUE)[t] = n[t]
  <2>1. MergeTable(t, s[t], MergeTable(t, s[t], d[t])) = MergeTable(t, s[t], d[t])
      BY <1>2, Merges
  <2> QED
      BY <1>1, <1>4, <2>1
<1>6. Import(s, n, TRUE) \in [Tables -> Cells]
    BY <1>4, DBsAre
<1> DEFINE m == Import(s, n, TRUE)
<1>7. n = [t \in Tables |-> n[t]] /\ m = [t \in Tables |-> m[t]]
    BY <1>3, <1>6
<1>8. \A t \in Tables : m[t] = n[t]
    BY <1>5
<1> HIDE DEF m
<1>9. m = n
    BY <1>7, <1>8
<1> QED
    BY <1>9 DEF m, n

---------------------------------------------------------------------------
(* The invariant: what the state is made of, and the property itself.      *)

Following == {"secure", "reload", "invalidate"}
Jobs == [kind : Kinds \cup {"none"}, pc : {"idle", "export", "got"} \cup Following,
         conf : BOOLEAN, tmp : DBs, todo : Seq(Tables)]

\* An export that is not at its end has a table to copy.
Exporting(j) == j.pc = "export" => j.todo # <<>>

Shape ==
  /\ live \in DBs /\ far \in DBs /\ file \in SUBSET DBs
  /\ isLocal \in BOOLEAN /\ fromDB \in BOOLEAN /\ saved \in BOOLEAN /\ cut \in BOOLEAN
  /\ memory \in Passwords /\ cached \in Mutes \cup {"unloaded"}
  /\ job \in [Workers -> Jobs]
  /\ \A w \in Workers : Exporting(job[w])

\* Somebody is at one of these steps after an import into the live database.
After(pcs) == \E w \in Workers : job[w].pc \in pcs /\ IntoLive(job[w].kind)

TransferInv == Shape /\ ImportFollowedUp

FollowUp ==
  \/ cut
  \/ /\ cached \in {"unloaded", live["muted_users"]} \/ After(Following)
     /\ live["config_values"] # "plain" \/ After({"secure"})

LEMMA FollowedUpIs == (ImportFollowedUp <=> FollowUp) /\ (ImportFollowedUp <=> FollowUp)'
BY DEF ImportFollowedUp, FollowUp, After, Following

LEMMA Cases ==
  Shape => /\ live["config_values"] \in Passwords /\ live["muted_users"] \in Mutes
           /\ far["config_values"] \in Passwords
           /\ live["scheduled_events"] \in Events /\ live["user_daily_activity"] \in 0 .. 2
BY DBsAre, ValuesAre, NamesAre DEF Shape

\* A job replaced by another.
LEMMA JobSet ==
  ASSUME Shape, NEW w \in Workers, NEW j \in Jobs, Exporting(j), job' = [job EXCEPT ![w] = j]
  PROVE  /\ job' \in [Workers -> Jobs] /\ \A v \in Workers : Exporting(job'[v])
         /\ job'[w] = j /\ \A v \in Workers \ {w} : job'[v] = job[v]
BY DEF Shape

LEMMA StillAfter ==
  ASSUME Shape, NEW w \in Workers, NEW j \in Jobs, Exporting(j), job' = [job EXCEPT ![w] = j],
         isLocal' = isLocal, NEW pcs
  PROVE  /\ After(pcs) /\ ~(job[w].pc \in pcs /\ IntoLive(job[w].kind)) => After(pcs)'
         /\ j.pc \in pcs /\ IntoLive(j.kind) => After(pcs)'
<1>1. job'[w] = j /\ \A v \in Workers \ {w} : job'[v] = job[v]
    BY JobSet
<1>2. ASSUME After(pcs), ~(job[w].pc \in pcs /\ IntoLive(job[w].kind)) PROVE After(pcs)'
  <2>1. PICK v \in Workers : job[v].pc \in pcs /\ IntoLive(job[v].kind)
      BY <1>2 DEF After
  <2>2. v # w
      BY <1>2, <2>1
  <2>3. job'[v] = job[v]
      BY <1>1, <2>2
  <2> QED
      BY <2>1, <2>3 DEF After, IntoLive
<1>3. ASSUME j.pc \in pcs, IntoLive(j.kind) PROVE After(pcs)'
    BY <1>1, <1>3 DEF After, IntoLive
<1> QED
    BY <1>2, <1>3

\* The worker was not following an import up, and what that is about stays.
LEMMA Kept ==
  ASSUME TransferInv, NEW w \in Workers, NEW j \in Jobs, Exporting(j),
         job' = [job EXCEPT ![w] = j], isLocal' = isLocal, cached' = cached, cut => cut',
         live'["muted_users"] = live["muted_users"],
         live'["config_values"] = live["config_values"],
         ~(job[w].pc \in Following /\ IntoLive(job[w].kind))
  PROVE  ImportFollowedUp'
<1>1. After(Following) => After(Following)'
    BY StillAfter DEF TransferInv
<1>2. After({"secure"}) => After({"secure"})'
  <2>1. ~(job[w].pc \in {"secure"} /\ IntoLive(job[w].kind))
      BY DEF Following
  <2> QED
      BY <2>1, StillAfter DEF TransferInv
<1> QED
    BY <1>1, <1>2, FollowedUpIs DEF TransferInv, FollowUp

LEMMA NoJobIs ==
  NoJob \in Jobs /\ Exporting(NoJob) /\ NoJob.pc = "idle" /\ NoJob.kind = "none"
BY EmptyIsDB DEF NoJob, Jobs, Exporting

---------------------------------------------------------------------------
(* One lemma for each step.                                                *)

LEMMA InitInv == Init => TransferInv
<1> SUFFICES ASSUME Init PROVE TransferInv
    OBVIOUS
<1>1. PICK t \in Tables : /\ live \in {[Empty EXCEPT ![t] = v] : v \in Values(t)}
                          /\ far \in {[Empty EXCEPT ![t] = v] : v \in Values(t)}
    BY DEF Init
<1>2. live \in DBs /\ far \in DBs
    BY <1>1, EmptyIsDB, Written
<1>3. live["config_values"] \in Passwords
    BY <1>2, DBsAre, ValuesAre, NamesAre
<1>4. job \in [Workers -> Jobs] /\ \A w \in Workers : Exporting(job[w])
    BY NoJobIs DEF Init
<1>5. Shape
    BY <1>2, <1>3, <1>4 DEF Init, Shape
<1>6. ImportFollowedUp
    BY FollowedUpIs DEF Init, FollowUp
<1> QED
    BY <1>5, <1>6 DEF TransferInv

LEMMA StartKeeps ==
  ASSUME TransferInv, NEW w \in Workers, NEW k \in Kinds, NEW conf \in BOOLEAN, Start(w, k, conf)
  PROVE  TransferInv'
<1> DEFINE whole == [kind |-> k, pc |-> "got", conf |-> conf, tmp |-> Source(k), todo |-> <<>>]
           byTable == [kind |-> k, pc |-> "export", conf |-> conf, tmp |-> Empty, todo |-> Todo(conf)]
<1>1. Source(k) \in DBs
    BY DEF TransferInv, Shape, Source
<1>2. whole \in Jobs /\ Exporting(whole)
  <2>1. <<>> \in Seq(Tables)
      OBVIOUS
  <2> QED
      BY <1>1, <2>1 DEF Jobs, Exporting
<1>3. byTable \in Jobs /\ Exporting(byTable)
    BY EmptyIsDB, NamesAre DEF Jobs, Exporting, Todo
<1>4. \A f \in DBs : [whole EXCEPT !.tmp = f] \in Jobs /\ Exporting([whole EXCEPT !.tmp = f])
    BY <1>2 DEF Jobs, Exporting
<1>5. \/ \E f \in file : SetJob(w, [whole EXCEPT !.tmp = f])
      \/ SetJob(w, whole) \/ SetJob(w, byTable)
    BY DEF Start
<1> HIDE DEF whole, byTable
<1>6. \E j \in Jobs : Exporting(j) /\ job' = [job EXCEPT ![w] = j]
    BY <1>2, <1>3, <1>4, <1>5 DEF SetJob, TransferInv, Shape
<1>7. PICK j \in Jobs : Exporting(j) /\ job' = [job EXCEPT ![w] = j]
    BY <1>6
<1>8. ~(job[w].pc \in Following /\ IntoLive(job[w].kind))
    BY NoJobIs DEF Start, Following
<1>9. UNCHANGED <<live, far, isLocal, fromDB, file, saved, memory, cached, cut>>
    BY DEF Start
<1>10. Shape'
    BY <1>7, <1>9, JobSet DEF TransferInv, Shape
<1>11. ImportFollowedUp'
    BY <1>7, <1>8, <1>9, Kept
<1> QED
    BY <1>10, <1>11 DEF TransferInv

LEMMA CopyTableKeeps ==
  ASSUME TransferInv, NEW w \in Workers, CopyTable(w)
  PROVE  TransferInv'
<1> DEFINE o == job[w]
           t == Head(o.todo)
           rest == Tail(o.todo)
           pc == IF rest = <<>> THEN "got" ELSE "export"
<1>1. o \in Jobs /\ o.pc = "export" /\ o.todo # <<>>
    BY DEF TransferInv, Shape, CopyTable, Exporting
<1>2. t \in Tables /\ rest \in Seq(Tables)
    BY <1>1 DEF Jobs
<1>3. Source(o.kind) \in DBs
    BY DEF TransferInv, Shape, Source
<1>4. Source(o.kind)[t] \in Values(t)
    BY <1>2, <1>3, DBsAre
<1> DEFINE src == Source(o.kind)[t]
           read == [o EXCEPT !.tmp[t] = src, !.todo = rest, !.pc = pc]
           skip == [o EXCEPT !.todo = rest, !.pc = pc]
<1>5. SetJob(w, read) \/ Done(w) \/ SetJob(w, skip)
    BY DEF CopyTable
<1>6. pc \in {"got", "export"} /\ (pc = "export" => rest # <<>>)
    OBVIOUS
<1> HIDE DEF t, rest, pc, src
<1>7. skip \in Jobs /\ Exporting(skip)
    BY <1>1, <1>2, <1>6 DEF Jobs, Exporting
<1>8. read \in Jobs /\ Exporting(read)
  <2> DEFINE d == [o.tmp EXCEPT ![t] = src]
  <2>1. o.tmp \in DBs
      BY <1>1 DEF Jobs
  <2>2. d \in DBs
      BY <1>2, <1>4, <2>1, Written DEF src
  <2>3. read = [o EXCEPT !.tmp = d, !.todo = rest, !.pc = pc]
      BY <1>1 DEF Jobs
  <2> HIDE DEF d, read
  <2>4. [o EXCEPT !.tmp = d, !.todo = rest, !.pc = pc] \in Jobs
      BY <1>1, <1>2, <1>6, <2>2 DEF Jobs
  <2>5. Exporting([o EXCEPT !.tmp = d, !.todo = rest, !.pc = pc])
      BY <1>1, <1>6 DEF Jobs, Exporting
  <2> QED
      BY <2>3, <2>4, <2>5
<1> HIDE DEF read, skip
<1>9. \E j \in Jobs : Exporting(j) /\ job' = [job EXCEPT ![w] = j]
    BY <1>5, <1>7, <1>8, NoJobIs DEF SetJob, Done
<1>10. PICK j \in Jobs : Exporting(j) /\ job' = [job EXCEPT ![w] = j]
    BY <1>9
<1>11. ~(job[w].pc \in Following /\ IntoLive(job[w].kind))
    BY <1>1 DEF Following
<1>12. UNCHANGED <<live, far, isLocal, fromDB, file, saved, memory, cached, cut>>
    BY DEF CopyTable
<1>13. Shape'
    BY <1>10, <1>12, JobSet DEF TransferInv, Shape
<1>14. ImportFollowedUp'
    BY <1>10, <1>11, <1>12, Kept
<1> QED
    BY <1>13, <1>14 DEF TransferInv

LEMMA DeliverKeeps ==
  ASSUME TransferInv, NEW w \in Workers, Deliver(w)
  PROVE  TransferInv'
<1>1. job' = [job EXCEPT ![w] = NoJob]
    BY DEF Deliver, Done, SetJob
<1>2. job[w] \in Jobs /\ job[w].pc = "got"
    BY DEF TransferInv, Shape, Deliver
<1>3. job[w].tmp \in DBs
    BY <1>2 DEF Jobs
<1>4. file' \in SUBSET DBs /\ far' \in DBs /\ saved' \in BOOLEAN
    BY <1>3 DEF Deliver, TransferInv, Shape
<1>5. UNCHANGED <<live, isLocal, fromDB, memory, cached, cut>>
    BY DEF Deliver
<1>6. ~(job[w].pc \in Following /\ IntoLive(job[w].kind))
    BY <1>2 DEF Following
<1>7. Shape'
    BY <1>1, <1>4, <1>5, NoJobIs, JobSet DEF TransferInv, Shape
<1>8. ImportFollowedUp'
    BY <1>1, <1>5, <1>6, NoJobIs, Kept
<1> QED
    BY <1>7, <1>8 DEF TransferInv

\* The next step of a job: on, or at its end.
LEMMA Goes ==
  ASSUME Shape, NEW w \in Workers, NEW pc \in {"idle"} \cup Following, To(w, pc)
  PROVE  \E j \in Jobs : /\ Exporting(j) /\ job' = [job EXCEPT ![w] = j]
                         /\ j.pc = pc /\ (pc # "idle" => j.kind = job[w].kind)
<1>1. CASE pc = "idle"
    BY <1>1, NoJobIs DEF To, Done, SetJob
<1>2. CASE pc # "idle"
  <2>1. job[w] \in Jobs
      BY DEF Shape
  <2> DEFINE j == [job[w] EXCEPT !.pc = pc]
  <2>2. j \in Jobs /\ j.pc = pc /\ j.kind = job[w].kind
      BY <2>1 DEF Jobs
  <2>3. Exporting(j)
      BY <1>2, <2>2 DEF Exporting, Following
  <2>4. job' = [job EXCEPT ![w] = j]
      BY <1>2 DEF To, Goto, SetJob
  <2> HIDE DEF j
  <2> QED
      BY <1>2, <2>2, <2>3, <2>4
<1> QED
    BY <1>1, <1>2

LEMMA ImportFileKeeps ==
  ASSUME TransferInv, NEW w \in Workers, ImportFile(w)
  PROVE  TransferInv'
<1> DEFINE o == job[w]
           k == o.kind
           into == IntoLive(k)
           dst == IF into THEN live ELSE far
           without(u) == Import([o.tmp EXCEPT ![u] = Empty[u]], dst, o.conf)
           merged == Import(o.tmp, dst, o.conf)
           next == AfterImport(k, o.conf)
<1>1. o \in Jobs /\ o.pc = "got" /\ (into \/ k = "clone_up")
    BY DEF TransferInv, Shape, ImportFile
<1>2. o.tmp \in DBs /\ o.conf \in BOOLEAN /\ dst \in DBs
    BY <1>1 DEF Jobs, TransferInv, Shape
<1>3. Shape
    BY DEF TransferInv
<1>4. UNCHANGED <<isLocal, fromDB, file, saved, memory, cached>>
    BY DEF ImportFile
<1>5. ~(job[w].pc \in Following /\ IntoLive(job[w].kind))
    BY <1>1 DEF Following
<1>6. next \in {"idle"} \cup Following
    BY DEF AfterImport, Following
\* What is imported is a database, and the configuration is imported only when asked for.
<1> DEFINE Copied(n) == n \in DBs /\ (~o.conf => n["config_values"] = dst["config_values"])
<1>7. Copied(merged)
    BY <1>2, Asked
<1>8. \A u \in Tables : Copied(without(u))
  <2> TAKE u \in Tables
  <2>1. Empty[u] \in Values(u)
      BY EmptyIsDB, DBsAre
  <2>2. [o.tmp EXCEPT ![u] = Empty[u]] \in DBs
      BY <1>2, <2>1, Written
  <2> QED
      BY <1>2, <2>2, Asked
<1>9. \/ /\ \E n : /\ Copied(n)
                   /\ live' = IF into THEN n ELSE live
                   /\ far' = IF into THEN far ELSE n
         /\ \/ To(w, next) /\ cut' = cut
            \/ Done(w) /\ cut' = (cut \/ into)
      \/ Done(w) /\ UNCHANGED <<live, far, cut>>
  <2> HIDE DEF Copied
  <2> QED
      BY <1>7, <1>8 DEF ImportFile
<1>10. CASE Done(w) /\ UNCHANGED <<live, far, cut>>
  <2>1. job' = [job EXCEPT ![w] = NoJob]
      BY <1>10 DEF Done, SetJob
  <2>2. Shape'
      BY <1>3, <1>4, <1>10, <2>1, NoJobIs, JobSet DEF Shape
  <2>3. ImportFollowedUp'
      BY <1>4, <1>5, <1>10, <2>1, NoJobIs, Kept
  <2> QED
      BY <2>2, <2>3 DEF TransferInv
<1>11. ASSUME NEW n, Copied(n), live' = IF into THEN n ELSE live, far' = IF into THEN far ELSE n,
              \/ To(w, next) /\ cut' = cut
              \/ Done(w) /\ cut' = (cut \/ into)
       PROVE  TransferInv'
  <2>1. live' \in DBs /\ far' \in DBs /\ cut' \in BOOLEAN
    <3>1. cut \in BOOLEAN /\ into \in BOOLEAN
        BY <1>3 DEF Shape, IntoLive
    <3>2. cut' \in BOOLEAN
        BY <1>11, <3>1
    <3> QED
        BY <1>3, <1>11, <3>2 DEF Shape
  <2>2. PICK j \in Jobs : /\ Exporting(j) /\ job' = [job EXCEPT ![w] = j]
                          /\ \/ j.pc = next /\ (next # "idle" => j.kind = k) /\ cut' = cut
                             \/ j = NoJob /\ cut' = (cut \/ into)
    <3> HIDE DEF next
    <3>1. CASE To(w, next) /\ cut' = cut
        BY <1>3, <1>6, <3>1, Goes
    <3>2. CASE Done(w) /\ cut' = (cut \/ into)
        BY <3>2, NoJobIs DEF Done, SetJob
    <3> QED
        BY <1>11, <3>1, <3>2
  <2>3. Shape'
      BY <1>3, <1>4, <2>1, <2>2, JobSet DEF Shape
  <2>4. CASE ~into
    <3>1. live' = live /\ (cut => cut')
      <4>1. live' = live
          BY <1>11, <2>4
      <4>2. cut => cut'
        <5> HIDE DEF into, next
        <5> QED
            BY <2>2, Zenon
      <4> QED
          BY <4>1, <4>2
    <3>2. ImportFollowedUp'
        BY <1>4, <1>5, <2>2, <3>1, Kept
    <3> QED
        BY <2>3, <3>2 DEF TransferInv
  <2>5. CASE into /\ cut'
      BY <2>3, <2>5, FollowedUpIs DEF TransferInv, FollowUp
  <2>6. CASE into /\ ~cut'
    <3>1. cut' = cut /\ j.pc = next /\ (next # "idle" => j.kind = k)
        BY <2>2, <2>6
    <3>2. next = IF o.conf THEN "secure" ELSE "invalidate"
        BY <2>6 DEF AfterImport
    <3>3. j.pc \in Following /\ IntoLive(j.kind) /\ (o.conf => j.pc \in {"secure"})
        BY <2>6, <3>1, <3>2 DEF Following
    <3>4. After(Following)' /\ (o.conf => After({"secure"})')
        BY <1>3, <1>4, <2>2, <3>3, StillAfter
    <3>5. ~o.conf => live'["config_values"] = live["config_values"]
        BY <1>11, <2>6
    <3>6. After({"secure"}) => After({"secure"})'
      <4>1. ~(job[w].pc \in {"secure"} /\ IntoLive(job[w].kind))
          BY <1>5 DEF Following
      <4> QED
          BY <1>3, <1>4, <2>2, <4>1, StillAfter
    <3>7. ~cut
        BY <2>6, <3>1
    <3>8. live["config_values"] # "plain" \/ After({"secure"})
        BY <3>7, FollowedUpIs DEF TransferInv, FollowUp
    <3>9. FollowUp'
        BY <3>4, <3>5, <3>6, <3>8 DEF FollowUp
    <3> QED
        BY <2>3, <3>9, FollowedUpIs DEF TransferInv
  <2> QED
      BY <2>4, <2>5, <2>6
<1> QED
  <2> HIDE DEF Copied, into, next
  <2> QED
      BY <1>9, <1>10, <1>11

LEMMA HashStoredWebUIPasswordKeeps ==
  ASSUME TransferInv, NEW w \in Workers, HashStoredWebUIPassword(w)
  PROVE  TransferInv'
<1> DEFINE k == job[w].kind
           into == IntoLive(k)
           next == AfterSecure(k)
<1>1. Shape /\ job[w].pc = "secure" /\ UNCHANGED <<isLocal, fromDB, file, saved, memory, cached>>
    BY DEF TransferInv, HashStoredWebUIPassword
<1>2. next \in {"idle"} \cup Following
    BY DEF AfterSecure, Following
<1>3. \A pw \in Passwords : Secured(pw) \in Passwords /\ Secured(pw) # "plain"
    BY DEF Secured, Passwords
<1>4. "config_values" \in Tables /\ "muted_users" \in Tables /\ Values("config_values") = Passwords
    BY NamesAre, ValuesAre
<1>5. into \in BOOLEAN /\ live \in DBs /\ far \in DBs /\ cut \in BOOLEAN
    BY <1>1 DEF Shape, IntoLive
<1> DEFINE newLive == [live EXCEPT !["config_values"] = Secured(@)]
           newFar == [far EXCEPT !["config_values"] = Secured(@)]
<1>6. /\ newLive \in DBs /\ newFar \in DBs
      /\ newLive["config_values"] # "plain" /\ newLive["muted_users"] = live["muted_users"]
  <2>1. Secured(live["config_values"]) \in Values("config_values")
        /\ Secured(live["config_values"]) # "plain"
        /\ Secured(far["config_values"]) \in Values("config_values")
      BY <1>1, <1>3, <1>4, Cases
  <2>2. "muted_users" \in Tables \ {"config_values"}
      BY <1>4
  <2>3. /\ newLive = [live EXCEPT !["config_values"] = Secured(live["config_values"])]
        /\ newFar = [far EXCEPT !["config_values"] = Secured(far["config_values"])]
      OBVIOUS
  <2> HIDE DEF newLive, newFar
  <2>4. newLive \in DBs /\ newFar \in DBs
      BY <1>4, <1>5, <2>1, <2>3, Written
  <2>5. newLive["config_values"] = Secured(live["config_values"])
        /\ newLive["muted_users"] = live["muted_users"]
      BY <1>4, <1>5, <2>2, <2>3, DBsAre
  <2> QED
      BY <2>1, <2>4, <2>5
<1>7. \/ /\ live' = IF into THEN newLive ELSE live
         /\ far' = IF into THEN far ELSE newFar
         /\ To(w, next) /\ cut' = cut
      \/ Done(w) /\ cut' = (cut \/ into) /\ live' = live /\ far' = far
    BY DEF HashStoredWebUIPassword
<1> HIDE DEF newLive, newFar
<1>8. live' \in DBs /\ far' \in DBs /\ cut' \in BOOLEAN
    BY <1>5, <1>6, <1>7
<1>9. PICK j \in Jobs : /\ Exporting(j) /\ job' = [job EXCEPT ![w] = j]
                        /\ \/ /\ live' = IF into THEN newLive ELSE live
                              /\ j.pc = next /\ (next # "idle" => j.kind = k) /\ cut' = cut
                           \/ j = NoJob /\ cut' = (cut \/ into) /\ live' = live
  <2> HIDE DEF into, next
  <2>1. CASE To(w, next) /\ live' = (IF into THEN newLive ELSE live) /\ cut' = cut
      BY <1>1, <1>2, <2>1, Goes
  <2>2. CASE Done(w) /\ cut' = (cut \/ into) /\ live' = live
      BY <2>2, NoJobIs DEF Done, SetJob
  <2> QED
      BY <1>7, <2>1, <2>2
<1>10. Shape'
    BY <1>1, <1>8, <1>9, JobSet DEF Shape
<1>11. CASE ~into
  <2>1. live' = live /\ (cut => cut')
    <3>1. live' = live
        BY <1>9, <1>11
    <3>2. cut => cut'
      <4> HIDE DEF into, next
      <4> QED
          BY <1>9, Zenon
    <3> QED
        BY <3>1, <3>2
  <2>2. ImportFollowedUp'
      BY <1>1, <1>9, <1>11, <2>1, Kept
  <2> QED
      BY <1>10, <2>2 DEF TransferInv
<1>12. CASE into /\ cut'
    BY <1>10, <1>12, FollowedUpIs DEF TransferInv, FollowUp
<1>13. CASE into /\ ~cut'
  <2>1. live' = newLive /\ j.pc = next /\ (next # "idle" => j.kind = k)
      BY <1>9, <1>13
  <2>2. next \in {"reload", "invalidate"}
      BY <1>13 DEF AfterSecure
  <2>3. j.pc \in Following /\ IntoLive(j.kind)
      BY <1>13, <2>1, <2>2 DEF Following
  <2>4. After(Following)'
      BY <1>1, <1>9, <2>3, StillAfter
  <2>5. FollowUp'
      BY <1>6, <2>1, <2>4 DEF FollowUp
  <2> QED
      BY <1>10, <2>5, FollowedUpIs DEF TransferInv
<1> QED
    BY <1>11, <1>12, <1>13

LEMMA ReloadKeeps ==
  ASSUME TransferInv, NEW w \in Workers, ReloadConfigFromDB(w)
  PROVE  TransferInv'
<1> DEFINE k == job[w].kind
<1>1. Shape /\ job[w].pc = "reload" /\ UNCHANGED <<live, far, isLocal, fromDB, file, saved, cached>>
    BY DEF TransferInv, ReloadConfigFromDB
<1>2. PICK j \in Jobs : /\ Exporting(j) /\ job' = [job EXCEPT ![w] = j]
                        /\ \/ j.pc = "invalidate" /\ j.kind = k /\ cut' = cut
                           \/ j = NoJob /\ cut' = TRUE
  <2>1. CASE Goto(w, "invalidate") /\ UNCHANGED <<faults, cut>>
    <3>1. To(w, "invalidate")
        BY <2>1 DEF To
    <3> QED
        BY <1>1, <2>1, <3>1, Goes DEF Following
  <2>2. CASE Done(w) /\ cut' = TRUE
      BY <2>2, NoJobIs DEF Done, SetJob
  <2> QED
      BY <2>1, <2>2 DEF ReloadConfigFromDB
<1>3. memory' \in Passwords /\ cut' \in BOOLEAN
    BY <1>1, <1>2, Cases DEF ReloadConfigFromDB, Shape
<1>4. Shape'
    BY <1>1, <1>2, <1>3, JobSet DEF Shape
<1>5. CASE cut'
    BY <1>4, <1>5, FollowedUpIs DEF TransferInv, FollowUp
<1>6. CASE ~cut'
  <2>1. j.pc = "invalidate" /\ j.kind = k /\ ~cut
      BY <1>2, <1>6
  <2>2. After(Following) => After(Following)'
    <3>1. CASE IntoLive(k)
        BY <1>1, <1>2, <2>1, <3>1, StillAfter DEF Following
    <3>2. CASE ~IntoLive(k)
        BY <1>1, <1>2, <3>2, StillAfter
    <3> QED
        BY <3>1, <3>2
  <2>3. After({"secure"}) => After({"secure"})'
      BY <1>1, <1>2, StillAfter
  <2>4. FollowUp'
      BY <1>1, <2>1, <2>2, <2>3, FollowedUpIs DEF TransferInv, FollowUp
  <2> QED
      BY <1>4, <2>4, FollowedUpIs DEF TransferInv
<1> QED
    BY <1>5, <1>6

LEMMA InvalidateMuteCacheKeeps ==
  ASSUME TransferInv, NEW w \in Workers, InvalidateMuteCache(w)
  PROVE  TransferInv'
<1>1. /\ Shape /\ job[w].pc = "invalidate" /\ job' = [job EXCEPT ![w] = NoJob] /\ cached' = "unloaded"
      /\ UNCHANGED <<live, far, isLocal, fromDB, file, saved, memory, cut>>
    BY DEF TransferInv, InvalidateMuteCache, Done, SetJob
<1>2. Shape'
    BY <1>1, NoJobIs, JobSet DEF Shape
<1>3. After({"secure"}) => After({"secure"})'
    BY <1>1, NoJobIs, StillAfter
<1>4. FollowUp'
    BY <1>1, <1>3, FollowedUpIs DEF TransferInv, FollowUp
<1> QED
    BY <1>2, <1>4, FollowedUpIs DEF TransferInv

\* The bot writes, with no job doing anything.
LEMMA BotKeeps ==
  ASSUME TransferInv, LoadMuteCache \/ (\E v \in Mutes : Mute(v)) \/ Work
  PROVE  TransferInv'
<1>1. Shape /\ FollowUp /\ UNCHANGED <<far, isLocal, fromDB, file, saved, memory, job, cut>>
    BY FollowedUpIs DEF TransferInv, LoadMuteCache, Mute, Work
<1>2. \A pcs : After(pcs) => After(pcs)'
    BY <1>1 DEF After, IntoLive
<1>3. \A v \in Workers : Exporting(job'[v])
    BY <1>1 DEF Shape
<1>4. CASE LoadMuteCache
  <2>1. live' = live /\ cached' = live["muted_users"]
      BY <1>4 DEF LoadMuteCache
  <2>2. Shape'
      BY <1>1, <1>3, <2>1, Cases DEF Shape
  <2>3. FollowUp'
      BY <1>1, <1>2, <2>1 DEF FollowUp
  <2> QED
      BY <2>2, <2>3, FollowedUpIs DEF TransferInv
<1>5. CASE \E v \in Mutes : Mute(v)
  <2>1. PICK v \in Mutes : Mute(v)
      BY <1>5
  <2>2. /\ live' = [live EXCEPT !["muted_users"] = v]
        /\ cached' = IF cached = "unloaded" THEN cached ELSE v
      BY <2>1 DEF Mute
  <2>3. /\ live' \in DBs /\ live'["muted_users"] = v
        /\ live'["config_values"] = live["config_values"]
    <3>1. /\ "muted_users" \in Tables /\ v \in Values("muted_users")
          /\ "config_values" \in Tables \ {"muted_users"}
        BY ValuesAre, NamesAre
    <3>2. live \in DBs
        BY <1>1 DEF Shape
    <3>3. live' \in DBs
        BY <2>2, <3>1, <3>2, Written
    <3>4. live'["muted_users"] = v /\ live'["config_values"] = live["config_values"]
        BY <2>2, <3>1, <3>2, DBsAre
    <3> QED
        BY <3>3, <3>4
  <2>4. Shape'
      BY <1>1, <1>3, <2>2, <2>3 DEF Shape
  <2>5. cached' \in {"unloaded", live'["muted_users"]}
      BY <2>2, <2>3
  <2>6. FollowUp'
      BY <1>1, <1>2, <2>3, <2>5 DEF FollowUp
  <2> QED
      BY <2>4, <2>6, FollowedUpIs DEF TransferInv
<1>6. CASE Work
  <2>1. live \in DBs /\ live["scheduled_events"] \in Events /\ live["user_daily_activity"] \in 0 .. 2
      BY <1>1, Cases DEF Shape
  <2>2. PICK u \in {"scheduled_events", "user_daily_activity"} : \E x \in Values(u) : live' = [live EXCEPT ![u] = x]
    <3>1. CASE live["scheduled_events"].fired > 0 /\ live' = [live EXCEPT !["scheduled_events"].started = ~@]
      <4>1. live["scheduled_events"] \in [fired : 1 .. 2, started : BOOLEAN]
          BY <2>1, <3>1 DEF Events
      <4>2. [live["scheduled_events"] EXCEPT !.started = ~@] \in Events
          BY <4>1 DEF Events
      <4>3. live' = [live EXCEPT !["scheduled_events"] = [live["scheduled_events"] EXCEPT !.started = ~@]]
          BY <2>1, <3>1
      <4> QED
          BY <4>2, <4>3, ValuesAre
    <3>2. CASE /\ live["user_daily_activity"] < 2
               /\ live' = [live EXCEPT !["user_daily_activity"] = @ + 1]
      <4>1. live["user_daily_activity"] + 1 \in 0 .. 2
          BY <2>1, <3>2
      <4>2. live' = [live EXCEPT !["user_daily_activity"] = live["user_daily_activity"] + 1]
          BY <3>2
      <4> QED
          BY <4>1, <4>2, ValuesAre
    <3> QED
        BY <1>6, <3>1, <3>2 DEF Work
  <2>3. PICK x \in Values(u) : live' = [live EXCEPT ![u] = x]
      BY <2>2
  <2>4. /\ u \in Tables /\ "muted_users" \in Tables \ {u} /\ "config_values" \in Tables \ {u}
      BY NamesAre
  <2>5. /\ live' \in DBs /\ live'["muted_users"] = live["muted_users"]
        /\ live'["config_values"] = live["config_values"]
    <3>1. live' \in DBs
        BY <2>1, <2>3, <2>4, Written
    <3>2. /\ live'["muted_users"] = live["muted_users"]
          /\ live'["config_values"] = live["config_values"]
        BY <2>1, <2>3, <2>4, DBsAre
    <3> QED
        BY <3>1, <3>2
  <2>6. cached' = cached
      BY <1>6 DEF Work
  <2>7. Shape'
      BY <1>1, <1>3, <2>5, <2>6 DEF Shape
  <2>8. FollowUp'
      BY <1>1, <1>2, <2>5, <2>6 DEF FollowUp
  <2> QED
      BY <2>7, <2>8, FollowedUpIs DEF TransferInv
<1> QED
    BY <1>4, <1>5, <1>6

LEMMA NextKeeps == TransferInv /\ [Next]_vars => TransferInv'
<1> SUFFICES ASSUME TransferInv, [Next]_vars PROVE TransferInv'
    OBVIOUS
<1>1. ASSUME NEW w \in Workers,
             \/ \E k \in Kinds, conf \in BOOLEAN : Start(w, k, conf)
             \/ CopyTable(w) \/ Deliver(w) \/ ImportFile(w)
             \/ HashStoredWebUIPassword(w) \/ ReloadConfigFromDB(w) \/ InvalidateMuteCache(w)
      PROVE  TransferInv'
    BY <1>1, StartKeeps, CopyTableKeeps, DeliverKeeps, ImportFileKeeps,
       HashStoredWebUIPasswordKeeps, ReloadKeeps, InvalidateMuteCacheKeeps
<1>2. CASE UNCHANGED vars
  <2>1. Shape'
      BY <1>2 DEF TransferInv, Shape, Exporting, vars
  <2>2. \A pcs : After(pcs) => After(pcs)'
      BY <1>2 DEF After, IntoLive, vars
  <2>3. FollowUp'
      BY <1>2, <2>2, FollowedUpIs DEF TransferInv, FollowUp, vars
  <2> QED
      BY <2>1, <2>3, FollowedUpIs DEF TransferInv
<1> QED
    BY <1>1, <1>2, BotKeeps DEF Next

LEMMA TransferInvHolds == Spec => []TransferInv
BY InitInv, NextKeeps, PTL DEF Spec

---------------------------------------------------------------------------
(* The theorems.                                                           *)

\* Every reachable state is well typed: the two databases, the file an admin has and every copy
\* under way hold what the tables of the program can hold, for any number of requests.
THEOREM TypeCorrect == Spec => []TypeOK
<1>1. TransferInv => TypeOK
  <2> SUFFICES ASSUME Shape PROVE TypeOK
      BY DEF TransferInv
  <2>1. \A w \in Workers : /\ job[w].kind \in Kinds \cup {"none"} /\ job[w].tmp \in DBs
                           /\ job[w].pc \in {"idle", "export", "got", "secure", "reload", "invalidate"}
      BY DEF Shape, Jobs, Following
  <2>2. \A d \in DBs : IsDB(d)
      BY DEF DBs
  <2> QED
      BY <2>1, <2>2 DEF Shape, TypeOK
<1> QED
    BY <1>1, TransferInvHolds, PTL

\* What follows an import into the live database is done or being done: however many requests
\* overlap, the bot goes on with mutes that an import replaced, and an imported password lies in
\* the clear, only until the handler has come to it or after one that ended on an error.
THEOREM ImportsAreFollowedUp == Spec => []ImportFollowedUp
<1>1. TransferInv => ImportFollowedUp
    BY DEF TransferInv
<1> QED
    BY <1>1, TransferInvHolds, PTL

\* An import of either database into the other takes nothing away and may be repeated.
THEOREM ImportsLoseNothing == Spec => []NothingGoesBack
<1>1. TransferInv => NothingGoesBack
  <2> SUFFICES ASSUME Shape PROVE NothingGoesBack
      BY DEF TransferInv
  <2> DEFINE Forward(src, dst) ==
        LET new == Import(src, dst, TRUE)
        IN /\ dst["actions"] \subseteq new["actions"]
           /\ dst["message_info"] # "none" => new["message_info"] = dst["message_info"]
           /\ new["user_daily_activity"] >= dst["user_daily_activity"]
           /\ new["scheduled_events"].fired >= dst["scheduled_events"].fired
           /\ dst["user_profiles"].first > 0 =>
                new["user_profiles"].first \in 1 .. dst["user_profiles"].first
           /\ Import(src, new, TRUE) = new
  <2>1. ASSUME NEW src \in DBs, NEW dst \in DBs PROVE Forward(src, dst)
    <3> DEFINE new == Import(src, dst, TRUE)
    <3>1. \A t \in Tables : new[t] = MergeTable(t, src[t], dst[t])
        BY Imports
    <3>2. \A t \in Tables : src[t] \in Values(t) /\ dst[t] \in Values(t)
        BY DBsAre
    <3>3. Import(src, new, TRUE) = new
        BY Again
    <3> HIDE DEF new
    <3>4. dst["actions"] \subseteq new["actions"]
        BY <3>1, <3>2, Merges, NamesAre
    <3>5. dst["message_info"] # "none" => new["message_info"] = dst["message_info"]
        BY <3>1, <3>2, Merges, NamesAre
    <3>6. new["user_daily_activity"] >= dst["user_daily_activity"]
        BY <3>1, <3>2, Merges, NamesAre
    <3>7. new["scheduled_events"].fired >= dst["scheduled_events"].fired
        BY <3>1, <3>2, Merges, NamesAre
    <3>8. dst["user_profiles"].first > 0 =>
            new["user_profiles"].first \in 1 .. dst["user_profiles"].first
        BY <3>1, <3>2, Merges, NamesAre
    <3> QED
        BY <3>3, <3>4, <3>5, <3>6, <3>7, <3>8 DEF new
  <2>2. Forward(live, far) /\ Forward(far, live)
    <3> HIDE DEF Forward
    <3> QED
        BY <2>1 DEF Shape
  <2>3. \A dbs \in {<<live, far>>, <<far, live>>} : Forward(dbs[1], dbs[2])
    <3> HIDE DEF Forward
    <3> QED
        BY <2>2
  <2> QED
      BY <2>3 DEF NothingGoesBack
<1> QED
    BY <1>1, TransferInvHolds, PTL

=============================================================================
