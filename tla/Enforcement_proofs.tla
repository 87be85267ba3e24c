-------------------------- MODULE Enforcement_proofs --------------------------
(***************************************************************************)
(* A mute on record is carried out, and a restriction is on record, for    *)
(* any number of chats, handlers, mutes and faults, whether or not a mute  *)
(* holds in every chat.  The argument is about who has a chat to itself:   *)
(* two jobs whose chats are near each other have torn them and know it, so *)
(* a job that has not met another finds the chats as it left them, and a   *)
(* chat that is not torn was last changed by whoever is at work on it now. *)
(***************************************************************************)
EXTENDS Enforcement, TLAPS

---------------------------------------------------------------------------
(* The inductive invariant.                                                *)

\* What is done to a user in chat c is done in chat t: with
\* mute_across_all_chats every chat is near every other.
Near(c, t) == everywhere \/ c = t

\* The chats a job is named for; its scope is what is near them.
Busy(j) == j.list \cup (IF j.step \in {"idle", "next"} THEN {} ELSE {j.chat})

Torn(c) == "torn" \in upset[c]
Clean(c) == "torn" \notin upset[c] /\ "crossed" \notin upset[c]
Quiet(c) == upset[c] \subseteq {"crossed"}

\* A job's step goes with its task, and its locals with its step.
Formed(j) ==
  /\ j.step = "idle" => j = NoJob
  /\ j.step # "idle" => j.task # "none"
  /\ j.step = "restrict" => j.task \in {"mute", "command"}
  /\ j.step = "rollback" => j.task = "mute" /\ j.refused
  /\ j.step = "free" => /\ j.task \in {"unmute", "expire", "command"}
                        /\ j.chat \notin j.harsh
  /\ j.step \in {"next", "drop"} => j.task = "expire"
  /\ j.task # "expire" => j.list = {} /\ j.harsh = {}
  /\ j.step \notin {"idle", "next"} => j.chat \in Chats
  /\ j.todo # {} <=> j.step \in {"restrict", "free"}
  /\ \A t \in j.todo : Near(j.chat, t)
  /\ j.chat \notin j.list
  /\ j.until <= Forever

Jobs == job \in [Workers -> Job] /\ \A w \in Workers : Formed(job[w])

Dated == \A c \in Chats : rec[c].until <= Forever

Typed == TypeOK /\ Jobs /\ Dated

\* Jobs that met have torn their chats, and neither believes to be alone.
Apart ==
  \A v, w \in Workers : v # w =>
    \A c \in Busy(job[v]), d \in Busy(job[w]) : Near(c, d) => Torn(c) /\ ~job[v].sole

\* Chats near each other are torn, or crossed, together.
Uniform ==
  \A c, t \in Chats : Near(c, t) => (Torn(c) <=> Torn(t)) /\ (Clean(c) <=> Clean(t))

\* Table and cache agree on chat c, but for a record that has expired, which
\* cleanup or a load may have taken out of one of them.
Sync(c) ==
  /\ Active(cache[c]) => rec[c] = cache[c]
  /\ rec[c] = None \/ rec[c] = cache[c] \/ (cache[c] = None /\ Expired(rec[c]))

Synced == \A c \in Chats : ~Torn(c) => Sync(c)

\* Behind every restriction there is a plain mute in the cache, or the job that
\* is about to lift it.
Accounted ==
  \A t \in Chats : Quiet(t) /\ Restricted(t) =>
    \/ \E c \in Chats : Near(c, t) /\ cache[c].is = "plain"
    \/ \E w \in Workers : job[w].step = "free" /\ t \in job[w].todo

\* No job is named for a chat near c.
Idle(c) == \A w \in Workers : \A d \in Busy(job[w]) : ~Near(d, c)

Carried(c) ==
  Active(rec[c]) /\ rec[c].is = "plain" =>
    \A t \in Chats : Near(c, t) => tg[t] >= rec[c].until

MutesCarried == \A c \in Chats : Clean(c) /\ Idle(c) => Carried(c)

\* What a job knows of its chats.  No other record shares them:
Uncrowded(j) == \A c \in Busy(j) : Clean(c) => ~Crowded(c)

\* a mute the checker is ending has expired,
Ending(j) ==
  \A c \in Busy(j) : j.task = "expire" /\ ~Torn(c) =>
    /\ ~Active(rec[c]) /\ ~Active(cache[c])
    /\ c \in j.harsh => cache[c].is # "plain"

\* a command has torn its chat,
Commanding(j) == \A c \in Busy(j) : j.task = "command" => Torn(c)

\* a mute finds the record it wrote, unless it was cleaned up,
Muting(j) ==
  j.step = "restrict" /\ j.task = "mute" =>
    /\ ~Torn(j.chat) \/ j.sole =>
         rec[j.chat] = None \/ rec[j.chat] = [is |-> "plain", until |-> j.until]
    /\ j.sole => Sync(j.chat)
    /\ \A t \in Chats : Near(j.chat, t) /\ (j.sole \/ Quiet(t)) =>
         cache[j.chat] = [is |-> "plain", until |-> j.until]

\* and has restricted the user in the chats it has visited;
Restricting(j) ==
  j.step = "restrict" /\ j.task = "mute" /\ ~j.refused /\ (j.sole \/ ~Torn(j.chat)) =>
    \A t \in Chats : Near(j.chat, t) /\ t \notin j.todo => tg[t] >= j.until

\* a refusal is remembered;
Refusing(j) ==
  j.task = "mute" /\ j.refused => \A t \in Chats : Near(j.chat, t) => ~Quiet(t)

\* an unmute finds no record,
Unmuting(j) ==
  j.step = "free" /\ j.task = "unmute" /\ (j.sole \/ ~Torn(j.chat)) =>
    rec[j.chat] = None /\ cache[j.chat] = None

\* and the chats that were visited are free.
Freeing(j) ==
  j.step \in {"free", "drop"} /\ j.task # "command" /\ j.chat \notin j.harsh =>
    \A t \in Chats :
      Near(j.chat, t) /\ t \notin j.todo /\ ((j.sole /\ ~j.refused) \/ Quiet(t)) =>
        tg[t] = 0

Knows(j) ==
  /\ Uncrowded(j) /\ Ending(j) /\ Commanding(j) /\ Muting(j) /\ Restricting(j)
  /\ Refusing(j) /\ Unmuting(j) /\ Freeing(j)

EInv ==
  /\ Typed /\ Apart /\ Uniform /\ Synced /\ Accounted /\ MutesCarried
  /\ \A w \in Workers : Knows(job[w])

---------------------------------------------------------------------------
(* Values.                                                                 *)

LEMMA Numbers ==
  /\ NoChat \notin Chats /\ Checker \notin Handlers
  /\ Minutes \subseteq Nat
  /\ NightEnd \in Nat /\ MinRestrict \in Nat /\ Retention \in Nat
  /\ Forever \in Nat /\ MaxTime \in Nat /\ Forever > MaxTime
  /\ NightEnd <= Forever /\ \A m \in Minutes : MaxTime + m <= Forever
  /\ MaxMutes \in Nat /\ MaxFaults \in Nat
BY ChatsAssumption, CheckerAssumption, TimesAssumption, ForeverAssumption,
   BoundsAssumption

LEMMA NoneTyped == None \in Record /\ None.is = "none" /\ None.until = 0
BY DEF None, Record

LEMMA RecordTyped ==
  ASSUME NEW k \in {"plain", "cruel"}, NEW u \in Nat
  PROVE  /\ [is |-> k, until |-> u] \in Record /\ [is |-> k, until |-> u] # None
         /\ [is |-> k, until |-> u].is = k /\ [is |-> k, until |-> u].until = u
<1>1. [is |-> k, until |-> u].is = k /\ [is |-> k, until |-> u].until = u
  OBVIOUS
<1>2. k # "none"
  OBVIOUS
<1> QED
  BY <1>1, <1>2 DEF Record, None

\* What there is to know about a record.
LEMMA RecordIs ==
  ASSUME NEW r \in Record
  PROVE  /\ r.is \in {"none", "plain", "cruel"} /\ r.until \in Nat
         /\ r.is = "none" <=> r = None
<1>1. CASE r = None
  BY <1>1 DEF None
<1>2. CASE r \in [is : {"plain", "cruel"}, until : Nat]
  <2>1. r.is \in {"plain", "cruel"} /\ r.until \in Nat
    BY <1>2
  <2>2. r.is # "none"
    BY <2>1
  <2> QED
    BY <2>1, <2>2, NoneTyped
<1> QED
  BY <1>1, <1>2 DEF Record

LEMMA NoJobIs ==
  /\ NoJob \in Job /\ NoJob.task = "none" /\ NoJob.step = "idle"
  /\ NoJob.chat = NoChat /\ NoJob.until = 0 /\ NoJob.todo = {}
  /\ NoJob.refused = FALSE /\ NoJob.list = {} /\ NoJob.harsh = {}
  /\ NoJob.sole = TRUE /\ Busy(NoJob) = {} /\ Formed(NoJob)
<1>1. /\ NoJob \in Job /\ NoJob.task = "none" /\ NoJob.step = "idle"
      /\ NoJob.chat = NoChat /\ NoJob.until = 0 /\ NoJob.todo = {}
      /\ NoJob.refused = FALSE /\ NoJob.list = {} /\ NoJob.harsh = {}
      /\ NoJob.sole = TRUE
  BY DEF NoJob, Job, Tasks, Steps
<1>2. Busy(NoJob) = {}
  BY <1>1 DEF Busy
<1>3. 0 <= Forever
  BY Numbers
<1>4. Formed(NoJob)
  BY <1>1, <1>3 DEF Formed
<1> QED
  BY <1>1, <1>2, <1>4

LEMMA JobIs ==
  ASSUME NEW j \in Job
  PROVE  /\ j.task \in Tasks /\ j.step \in Steps /\ j.chat \in Chats \cup {NoChat}
         /\ j.until \in Nat /\ j.todo \subseteq Chats /\ j.refused \in BOOLEAN
         /\ j.list \subseteq Chats /\ j.harsh \subseteq Chats /\ j.sole \in BOOLEAN
BY DEF Job

\* Two jobs with the same fields are the same job.
LEMMA SameJob ==
  ASSUME NEW j \in Job, NEW k \in Job,
         j.task = k.task, j.step = k.step, j.chat = k.chat, j.until = k.until,
         j.todo = k.todo, j.refused = k.refused, j.list = k.list,
         j.harsh = k.harsh, j.sole = k.sole
  PROVE  j = k
BY DEF Job

LEMMA TargetsAre ==
  ASSUME NEW c \in Chats, everywhere \in BOOLEAN
  PROVE  /\ Targets(c) \subseteq Chats /\ c \in Targets(c)
         /\ \A t \in Chats : t \in Targets(c) <=> Near(c, t)
BY DEF Targets, Near

LEMMA BehindIs ==
  ASSUME NEW t \in Chats, everywhere \in BOOLEAN
  PROVE  Behind(t) = {c \in Chats : Near(c, t)}
BY TargetsAre DEF Behind

LEMMA BusyChats ==
  ASSUME NEW j \in Job, Formed(j)
  PROVE  Busy(j) \subseteq Chats
BY JobIs DEF Busy, Formed

\* A job's scope is what is near the chats it is named for.
LEMMA ScopeIs ==
  ASSUME NEW j \in Job, Busy(j) \subseteq Chats, everywhere \in BOOLEAN
  PROVE  /\ Scope(j) \subseteq Chats
         /\ \A t \in Chats : t \in Scope(j) <=> \E c \in Busy(j) : Near(c, t)
<1>1. Scope(j) = UNION {Targets(c) : c \in Busy(j)}
  BY DEF Scope, Busy
<1> QED
  BY <1>1, TargetsAre

LEMMA MarkIs ==
  ASSUME NEW S, NEW why \in SUBSET Reasons, upset \in [Chats -> SUBSET Reasons]
  PROVE  /\ Mark(S, why) \in [Chats -> SUBSET Reasons]
         /\ \A t \in Chats : /\ t \notin S => Mark(S, why)[t] = upset[t]
                             /\ "torn" \in Mark(S, why)[t] <=>
                                  Torn(t) \/ (t \in S /\ "torn" \in why)
                             /\ \A r \in why : t \in S => r \in Mark(S, why)[t]
                                                     \/ "torn" \in Mark(S, why)[t]
                             /\ \A r \in upset[t] : r \in Mark(S, why)[t]
                                                     \/ "torn" \in Mark(S, why)[t]
                             /\ \A r \in Mark(S, why)[t] : \/ r = "torn" \/ r \in upset[t]
                                                           \/ t \in S /\ r \in why
<1>1. {"torn"} \in SUBSET Reasons
  BY DEF Reasons
<1>2. Mark(S, why) \in [Chats -> SUBSET Reasons]
  BY <1>1 DEF Mark
<1>3. ASSUME NEW t \in Chats
      PROVE  Mark(S, why)[t] = IF t \notin S \/ upset[t] = {"torn"} THEN upset[t]
                     ELSE IF "torn" \in why THEN {"torn"}
                     ELSE upset[t] \cup why
  BY DEF Mark
<1> QED
  BY <1>2, <1>3 DEF Torn

---------------------------------------------------------------------------
(* Steps of the jobs.                                                      *)

LEMMA WorkersAre == Handlers \subseteq Workers /\ Checker \in Workers
BY DEF Workers

\* One job moves, the others stay.
LEMMA OneJob ==
  ASSUME Jobs, NEW w \in Workers, NEW l \in Job, Formed(l), everywhere' = everywhere,
         job' = [job EXCEPT ![w] = l]
  PROVE  /\ Jobs' /\ job'[w] = l
         /\ \A v \in Workers : v # w => job'[v] = job[v]
<1>1. job' \in [Workers -> Job] /\ job'[w] = l
  BY DEF Jobs
<1>2. ASSUME NEW v \in Workers, v # w
      PROVE  job'[v] = job[v]
  BY <1>2 DEF Jobs
<1>3. ASSUME NEW v \in Workers
      PROVE  Formed(job[v])'
  BY <1>1, <1>2, <1>3 DEF Jobs, Formed, Near
<1> QED
  BY <1>1, <1>2, <1>3 DEF Jobs

\* Job v is near a chat of job j.
Meets(v, j) == \E c \in Busy(job[v]), d \in Busy(j) : Near(c, d)

\* Some job is near chat t.
Shared(t) == \E v \in Workers : \E c \in Busy(job[v]) : Near(c, t)

\* A job that forgets, or not, that it is alone is otherwise the same job.
LEMMA SoleOnly ==
  ASSUME NEW j \in Job, NEW b \in BOOLEAN
  PROVE  LET k == [j EXCEPT !.sole = b]
         IN  /\ k \in Job /\ k.sole = b /\ Busy(k) = Busy(j)
             /\ k.task = j.task /\ k.step = j.step /\ k.chat = j.chat
             /\ k.until = j.until /\ k.todo = j.todo /\ k.refused = j.refused
             /\ k.list = j.list /\ k.harsh = j.harsh
             /\ Formed(j) /\ (j.step # "idle" \/ b) => Formed(k)
<1> DEFINE k == [j EXCEPT !.sole = b]
<1>1. /\ k \in Job /\ k.sole = b /\ k.task = j.task /\ k.step = j.step
      /\ k.chat = j.chat /\ k.until = j.until /\ k.todo = j.todo
      /\ k.refused = j.refused /\ k.list = j.list /\ k.harsh = j.harsh
  BY DEF Job
<1> HIDE DEF k
<1>2. Busy(k) = Busy(j)
  BY <1>1 DEF Busy
<1>3. ASSUME Formed(j), j.step # "idle" \/ b
      PROVE  Formed(k)
  <2>1. CASE j.step # "idle"
    BY <2>1, <1>1, <1>3 DEF Formed
  <2>2. CASE j.step = "idle"
    <3>1. k = NoJob
      BY <2>2, <1>1, <1>3, NoJobIs, SameJob DEF Formed
    <3> QED
      BY <3>1, NoJobIs
  <2> QED
    BY <2>1, <2>2
<1> QED
  BY <1>1, <1>2, <1>3 DEF k

\* What a goroutine that begins knows, and what it tells the others.
Begun(w, j, k, why) ==
  /\ job[w] = NoJob /\ Jobs'
  /\ upset' \in [Chats -> SUBSET Reasons]
  /\ job'[w].sole => k = NoJob \/ \A v \in Workers : ~Meets(v, j)
  /\ job'[w] = [k EXCEPT !.sole = job'[w].sole]
  /\ \A v \in Workers : v # w =>
        /\ job'[v] = [job[v] EXCEPT !.sole = job'[v].sole]
        /\ job'[v].sole => job[v].sole /\ ~Meets(v, j)
  /\ \A t \in Chats : (\A d \in Busy(j) : ~Near(d, t)) => upset'[t] = upset[t]
  /\ \A t \in Chats, d \in Busy(j) : Near(d, t) =>
        /\ Torn(t)' <=> Torn(t) \/ "torn" \in why \/ Shared(t)
        /\ \A r \in why \cup upset[t] : r \in upset'[t] \/ Torn(t)'
        /\ (\E c \in Busy(j) : Crowded(c)) => ~Clean(t)'
        /\ \A r \in upset'[t] :
              \/ r \in {"torn"} \cup why \cup upset[t]
              \/ r = "crossed" /\ \E c \in Busy(j) : Crowded(c)

\* A handler that begins learns whom it meets, and they learn of it.
LEMMA BeginIs ==
  ASSUME TypeOK, Jobs, NEW w \in Workers, NEW j \in Job, NEW k \in Job,
         NEW why \in SUBSET Reasons, everywhere' = everywhere,
         Busy(j) \subseteq Chats, Chats \cap (j.list \cup {j.chat}) = Busy(j),
         Formed(k), k.step # "idle" \/ k = NoJob,
         Begin(w, j, k, why)
  PROVE  Begun(w, j, k, why)
<1> DEFINE met == {v \in Workers : Scope(job[v]) \cap Scope(j) # {}}
           shared == UNION {Scope(job[v]) : v \in met}
           crossed == IF \E c \in Chats \cap (j.list \cup {j.chat}) : Crowded(c)
                      THEN {"crossed"} ELSE {}
           alone == met = {} \/ k = NoJob
           all(c) == why \cup crossed \cup IF c \in shared THEN {"torn"} ELSE {}
<1>1. /\ job[w].step = "idle"
      /\ job' = [v \in Workers |-> IF v = w THEN [k EXCEPT !.sole = alone]
                                  ELSE [job[v] EXCEPT !.sole = @ /\ v \notin met]]
      /\ upset' = [c \in Chats |-> Mark(Scope(j), all(c))[c]]
  BY DEF Begin, At
<1>2. job[w] = NoJob
  BY <1>1 DEF Jobs, Formed
<1>3. \A v \in Workers : job[v] \in Job /\ Formed(job[v]) /\ Busy(job[v]) \subseteq Chats
  BY BusyChats DEF Jobs
<1>4. /\ Scope(j) \subseteq Chats
      /\ \A t \in Chats : t \in Scope(j) <=> \E c \in Busy(j) : Near(c, t)
  BY ScopeIs DEF TypeOK
<1>5. ASSUME NEW v \in Workers
      PROVE  /\ Scope(job[v]) \subseteq Chats
             /\ \A t \in Chats : t \in Scope(job[v]) <=> \E c \in Busy(job[v]) : Near(c, t)
  BY <1>3, ScopeIs DEF TypeOK
<1>6. ASSUME NEW v \in Workers
      PROVE  v \in met <=> Meets(v, j)
  BY <1>3, <1>4, <1>5 DEF Meets, Near
<1>7. ASSUME NEW t \in Chats, t \in Scope(j)
      PROVE  t \in shared <=> Shared(t)
  BY <1>3, <1>4, <1>5, <1>7 DEF Shared
<1>8. crossed = IF \E c \in Busy(j) : Crowded(c) THEN {"crossed"} ELSE {}
  OBVIOUS
<1>9. \A c : all(c) \in SUBSET Reasons
  BY DEF Reasons
<1> HIDE DEF met, shared, crossed
<1>10. /\ alone \in BOOLEAN
       /\ \A v \in Workers : (job[v].sole /\ v \notin met) \in BOOLEAN
  BY DEF met
<1>11. job'[w] = [k EXCEPT !.sole = alone]
  BY <1>1
<1>12. ASSUME NEW v \in Workers, v # w
       PROVE  job'[v] = [job[v] EXCEPT !.sole = job[v].sole /\ v \notin met]
  BY <1>1, <1>12
<1>13. /\ job'[w] \in Job /\ Formed(job'[w]) /\ job'[w].sole = alone
  <2>1. k.step # "idle" \/ alone
    OBVIOUS
  <2>2. PICK b \in BOOLEAN : b = alone
    BY <1>10
  <2>3. PICK i : i = [k EXCEPT !.sole = b]
    OBVIOUS
  <2>4. i = job'[w]
    BY <2>2, <2>3, <1>11
  <2>5. i \in Job /\ i.sole = b /\ Formed(i)
    <3>1. k.step # "idle" \/ b
      BY <2>1, <2>2
    <3> HIDE DEF alone
    <3> QED
      BY <2>3, <3>1, SoleOnly
  <2> QED
    BY <2>2, <2>4, <2>5
<1>14. ASSUME NEW v \in Workers, v # w
       PROVE  /\ job'[v] \in Job /\ Formed(job'[v])
              /\ job'[v].sole = (job[v].sole /\ v \notin met)
  <2>1. job[v].step = "idle" => job[v] = NoJob /\ job[v].sole
    BY <1>3, NoJobIs DEF Formed
  <2>2. job[v].step = "idle" => v \notin met
    BY <2>1, <1>6, NoJobIs DEF Meets
  <2>3. job[v] \in Job /\ Formed(job[v])
    BY <1>3
  <2>4. DEFINE b == job[v].sole /\ v \notin met
  <2>5. b \in BOOLEAN /\ job'[v] = [job[v] EXCEPT !.sole = b]
    BY <1>10, <1>12, <1>14
  <2>6. job[v].step # "idle" \/ b
    BY <2>1, <2>2
  <2> HIDE DEF b
  <2>7. job'[v] \in Job /\ Formed(job'[v]) /\ job'[v].sole = b
    BY <2>3, <2>5, <2>6, SoleOnly
  <2> QED
    BY <2>7 DEF b
<1>15. Jobs'
  <2>1. job' \in [Workers -> Job]
    BY <1>1, <1>13, <1>14
  <2>2. ASSUME NEW v \in Workers
        PROVE  Formed(job[v])'
    <3>1. Formed(job'[v])
      BY <1>13, <1>14
    <3> QED
      BY <3>1 DEF Formed, Near
  <2> QED
    BY <2>1, <2>2 DEF Jobs
<1>16. \A c \in Chats : upset'[c] = Mark(Scope(j), all(c))[c]
  BY <1>1
<1>17. upset' \in [Chats -> SUBSET Reasons]
  <2> HIDE DEF all
  <2>1. \A c \in Chats : Mark(Scope(j), all(c)) \in [Chats -> SUBSET Reasons]
    BY <1>9, MarkIs DEF TypeOK
  <2> QED
    BY <1>1, <2>1
<1>18. ASSUME NEW t \in Chats, \A d \in Busy(j) : ~Near(d, t)
       PROVE  upset'[t] = upset[t]
  <2>1. t \notin Scope(j)
    BY <1>4, <1>18
  <2> HIDE DEF all
  <2> QED
    BY <2>1, <1>9, <1>16, MarkIs DEF TypeOK
<1>19. ASSUME NEW t \in Chats, NEW d \in Busy(j), Near(d, t)
       PROVE  /\ Torn(t)' <=> Torn(t) \/ "torn" \in why \/ Shared(t)
              /\ \A r \in why \cup upset[t] : r \in upset'[t] \/ Torn(t)'
              /\ (\E c \in Busy(j) : Crowded(c)) => ~Clean(t)'
              /\ \A r \in upset'[t] : \/ r \in {"torn"} \cup why \cup upset[t]
                                      \/ r = "crossed" /\ \E c \in Busy(j) : Crowded(c)
  <2>1. t \in Scope(j) /\ (t \in shared <=> Shared(t))
    BY <1>4, <1>7, <1>19
  <2>2. all(t) = why \cup crossed \cup IF Shared(t) THEN {"torn"} ELSE {}
    BY <2>1
  <2> HIDE DEF all
  <2>3. DEFINE m == Mark(Scope(j), all(t))[t]
  <2>4. /\ "torn" \in m <=> Torn(t) \/ "torn" \in all(t)
        /\ \A r \in all(t) : r \in m \/ "torn" \in m
        /\ \A r \in upset[t] : r \in m \/ "torn" \in m
        /\ \A r \in m : r = "torn" \/ r \in upset[t] \/ r \in all(t)
    BY <2>1, <1>9, MarkIs DEF TypeOK
  <2>5. m = upset'[t]
    BY <1>16
  <2> HIDE DEF m
  <2>6. "torn" \in all(t) <=> "torn" \in why \/ Shared(t)
    BY <2>2, <1>8
  <2>7. (\E c \in Busy(j) : Crowded(c)) => "crossed" \in all(t)
    BY <2>2, <1>8
  <2>8. Torn(t)' <=> "torn" \in m
    BY <2>5 DEF Torn
  <2>9. Clean(t)' <=> "torn" \notin m /\ "crossed" \notin m
    BY <2>5 DEF Clean
  <2>10. \A r \in all(t) : \/ r = "torn"
                           \/ r \in why
                           \/ r = "crossed" /\ \E c \in Busy(j) : Crowded(c)
    <3>1. ASSUME NEW r \in all(t)
          PROVE  r = "torn" \/ r \in why \/ r \in crossed
      BY <2>2, <3>1
    <3>2. ASSUME NEW r \in crossed
          PROVE  r = "crossed" /\ \E c \in Busy(j) : Crowded(c)
      <4>1. CASE \E c \in Busy(j) : Crowded(c)
        BY <4>1, <3>2, <1>8
      <4>2. CASE ~ \E c \in Busy(j) : Crowded(c)
        BY <4>2, <3>2, <1>8
      <4> QED
        BY <4>1, <4>2
    <3> QED
      BY <3>1, <3>2
  <2>11. \A r \in why : r \in all(t)
    BY <2>2
  <2>12. Torn(t)' <=> Torn(t) \/ "torn" \in why \/ Shared(t)
    BY <2>4, <2>6, <2>8
  <2>13. \A r \in why \cup upset[t] : r \in upset'[t] \/ Torn(t)'
    BY <2>4, <2>5, <2>8, <2>11
  <2>14. (\E c \in Busy(j) : Crowded(c)) => ~Clean(t)'
    BY <2>4, <2>7, <2>9
  <2>15. \A r \in upset'[t] : \/ r \in {"torn"} \cup why \cup upset[t]
                              \/ r = "crossed" /\ \E c \in Busy(j) : Crowded(c)
    <3>1. ASSUME NEW r \in upset'[t]
          PROVE  r = "torn" \/ r \in upset[t] \/ r \in all(t)
      BY <3>1, <2>4, <2>5
    <3>2. ASSUME NEW r \in all(t)
          PROVE  \/ r \in {"torn"} \cup why \cup upset[t]
                 \/ r = "crossed" /\ \E c \in Busy(j) : Crowded(c)
      BY <3>2, <2>10
    <3> QED
      BY <3>1, <3>2
  <2> QED
    BY <2>12, <2>13, <2>14, <2>15
<1>20. job'[w].sole => k = NoJob \/ \A v \in Workers : ~Meets(v, j)
  BY <1>6, <1>13
<1>21. job'[w] = [k EXCEPT !.sole = job'[w].sole]
  BY <1>11, <1>13
<1>22. ASSUME NEW v \in Workers, v # w
       PROVE  /\ job'[v] = [job[v] EXCEPT !.sole = job'[v].sole]
              /\ job'[v].sole => job[v].sole /\ ~Meets(v, j)
  BY <1>6, <1>12, <1>14, <1>22
<1> QED
  BY <1>2, <1>15, <1>17, <1>18, <1>19, <1>20, <1>21, <1>22 DEF Begun

---------------------------------------------------------------------------
(* The jobs the handlers take on.                                          *)

LEMMA MuteJobIs ==
  ASSUME everywhere \in BOOLEAN, NEW c \in Chats, NEW u \in Nat, u <= Forever,
         NEW k \in {"mute", "command"}
  PROVE  \E j \in Job :
             /\ j = [MuteJob(c, u) EXCEPT !.task = k] /\ j.task = k /\ j.step = "restrict" /\ j.chat = c
             /\ j.until = u /\ j.todo = Targets(c) /\ ~j.refused /\ j.list = {}
             /\ j.harsh = {} /\ Busy(j) = {c} /\ Formed(j)
             /\ Chats \cap (j.list \cup {j.chat}) = Busy(j)
             /\ k = "mute" => j = MuteJob(c, u)
<1> DEFINE i == MuteJob(c, u)
           j == [i EXCEPT !.task = k]
<1>1. /\ i \in Job /\ i.task = "mute" /\ i.step = "restrict" /\ i.chat = c
      /\ i.until = u /\ i.todo = Targets(c) /\ ~i.refused /\ i.list = {} /\ i.harsh = {}
  BY TargetsAre, NoJobIs DEF MuteJob, Job, Tasks, Steps
<1> HIDE DEF i
<1>2. /\ j \in Job /\ j.task = k /\ j.step = "restrict" /\ j.chat = c
      /\ j.until = u /\ j.todo = Targets(c) /\ ~j.refused /\ j.list = {} /\ j.harsh = {}
  BY <1>1 DEF Job, Tasks
<1>3. k = "mute" => j = i
  BY <1>1 DEF Job
<1> HIDE DEF j
<1>4. Busy(j) = {c}
  BY <1>2 DEF Busy
<1>5. c \notin {} /\ Targets(c) # {} /\ \A t \in Targets(c) : Near(c, t)
  BY TargetsAre
<1>6. Formed(j)
  BY <1>2, <1>5 DEF Formed
<1>7. Chats \cap (j.list \cup {j.chat}) = Busy(j)
  BY <1>2, <1>4
<1> QED
  BY <1>2, <1>3, <1>4, <1>6, <1>7 DEF j, i

LEMMA UnmuteJobIs ==
  ASSUME everywhere \in BOOLEAN, NEW c \in Chats, NEW k \in {"unmute", "command"}
  PROVE  \E j \in Job :
             /\ j = [UnmuteJob(c) EXCEPT !.task = k] /\ j.task = k /\ j.step = "free" /\ j.chat = c
             /\ j.todo = Targets(c) /\ ~j.refused /\ j.list = {}
             /\ j.harsh = {} /\ Busy(j) = {c} /\ Formed(j)
             /\ Chats \cap (j.list \cup {j.chat}) = Busy(j)
             /\ k = "unmute" => j = UnmuteJob(c)
<1> DEFINE i == UnmuteJob(c)
           j == [i EXCEPT !.task = k]
<1>1. /\ i \in Job /\ i.task = "unmute" /\ i.step = "free" /\ i.chat = c
      /\ i.until = 0 /\ i.todo = Targets(c) /\ ~i.refused /\ i.list = {} /\ i.harsh = {}
  BY TargetsAre, NoJobIs DEF UnmuteJob, Job, Tasks, Steps
<1> HIDE DEF i
<1>2. /\ j \in Job /\ j.task = k /\ j.step = "free" /\ j.chat = c
      /\ j.until = 0 /\ j.todo = Targets(c) /\ ~j.refused /\ j.list = {} /\ j.harsh = {}
  BY <1>1 DEF Job, Tasks
<1>3. k = "unmute" => j = i
  BY <1>1 DEF Job
<1> HIDE DEF j
<1>4. Busy(j) = {c}
  BY <1>2 DEF Busy
<1>5. /\ c \notin {} /\ Targets(c) # {} /\ \A t \in Targets(c) : Near(c, t)
      /\ 0 <= Forever
  BY TargetsAre, Numbers
<1>6. Formed(j)
  BY <1>2, <1>5 DEF Formed
<1>7. Chats \cap (j.list \cup {j.chat}) = Busy(j)
  BY <1>2, <1>4
<1> QED
  BY <1>2, <1>3, <1>4, <1>6, <1>7 DEF j, i

\* The job of CheckExpiredMutes.
ExpireJob(L, H) ==
  [NoJob EXCEPT !.task = "expire", !.step = "next", !.list = L, !.harsh = H]

LEMMA ExpireJobIs ==
  ASSUME NEW L \in SUBSET Chats, NEW H \in SUBSET Chats, L # {}
  PROVE  LET j == ExpireJob(L, H)
         IN  /\ j \in Job /\ j.task = "expire" /\ j.step = "next"
             /\ j.chat = NoChat /\ j.until = 0 /\ j.todo = {} /\ ~j.refused
             /\ j.list = L /\ j.harsh = H /\ Busy(j) = L /\ Formed(j)
             /\ Chats \cap (j.list \cup {j.chat}) = Busy(j)
<1> DEFINE j == ExpireJob(L, H)
<1>1. /\ j \in Job /\ j.task = "expire" /\ j.step = "next"
      /\ j.chat = NoChat /\ j.until = 0 /\ j.todo = {} /\ ~j.refused
      /\ j.list = L /\ j.harsh = H
  BY NoJobIs DEF ExpireJob, Job, Tasks, Steps
<1> HIDE DEF j
<1>2. Busy(j) = L
  BY <1>1 DEF Busy
<1>3. Formed(j)
  BY <1>1, Numbers DEF Formed
<1>4. Chats \cap (j.list \cup {j.chat}) = Busy(j)
  BY <1>1, <1>2, Numbers
<1> QED
  BY <1>1, <1>2, <1>3, <1>4 DEF j

---------------------------------------------------------------------------
(* What a step near one chat leaves of what the other jobs know.           *)

\* Nothing has changed in chat t.
Same(t) ==
  rec'[t] = rec[t] /\ cache'[t] = cache[t] /\ tg'[t] = tg[t] /\ upset'[t] = upset[t]

\* A job whose chats are untouched, or torn before its eyes, knows what it knew.
LEMMA KnowsStill ==
  ASSUME Typed, NEW v \in Workers, Knows(job[v]),
         everywhere' = everywhere, now' = now,
         job'[v] = [job[v] EXCEPT !.sole = job'[v].sole],
         job'[v].sole => job[v].sole, job'[v] \in Job,
         \A c \in Busy(job[v]) :
            \/ \A t \in Chats : Near(c, t) => Same(t)
            \/ ~job'[v].sole /\ \A t \in Chats : Near(c, t) => Torn(t)'
  PROVE  Knows(job[v])'
<1>1. PICK j \in Job : j = job[v]
  BY DEF Typed, Jobs
<1>2. PICK k \in Job : k = job'[v]
  OBVIOUS
<1>3. PICK b \in BOOLEAN : b = k.sole
  BY JobIs
<1>4. k = [j EXCEPT !.sole = b] /\ (k.sole => j.sole)
  BY <1>1, <1>2, <1>3
<1>5. Formed(j) /\ Busy(j) \subseteq Chats /\ Knows(j)
  BY <1>1, BusyChats DEF Typed, Jobs
<1>6. /\ k.task = j.task /\ k.step = j.step /\ k.chat = j.chat
      /\ k.until = j.until /\ k.todo = j.todo /\ k.refused = j.refused
      /\ k.list = j.list /\ k.harsh = j.harsh /\ Busy(k) = Busy(j)
  BY <1>4, SoleOnly
<1>7. j.step \notin {"idle", "next"} => j.chat \in Busy(j) /\ j.chat \in Chats
  BY <1>5 DEF Busy, Formed
<1>8. \A c \in Chats : Near(c, c)
  BY DEF Near
<1>9. \A c \in Busy(j) :
            \/ \A t \in Chats : Near(c, t) => Same(t)
            \/ ~k.sole /\ \A t \in Chats : Near(c, t) => Torn(t)'
  BY <1>1, <1>2
<1>10. j.step \in {"restrict", "rollback", "free", "drop"} =>
            \/ \A t \in Chats : Near(j.chat, t) => Same(t)
            \/ ~k.sole /\ \A t \in Chats : Near(j.chat, t) => Torn(t)'
  BY <1>7, <1>9
<1>11. j.task = "mute" => j.step \in {"restrict", "rollback"}
  BY <1>5, JobIs, NoJobIs DEF Formed, Steps
<1>12. ASSUME NEW c \in Chats, \A t \in Chats : Near(c, t) => Same(t)
       PROVE  /\ Crowded(c)' => Crowded(c)
              /\ Torn(c)' <=> Torn(c)
              /\ Clean(c)' <=> Clean(c)
              /\ Sync(c)' <=> Sync(c)
              /\ Active(rec[c])' <=> Active(rec[c])
              /\ Active(cache[c])' <=> Active(cache[c])
              /\ cache'[c] = cache[c] /\ rec'[c] = rec[c]
              /\ \A t \in Chats : Near(c, t) => tg'[t] = tg[t] /\ (Quiet(t)' <=> Quiet(t))
  <2>1. Same(c)
    BY <1>8, <1>12
  <2>2. Crowded(c)' => Crowded(c)
    BY <1>12 DEF Crowded, Same, Near
  <2> QED
    BY <1>12, <2>1, <2>2 DEF Same, Torn, Clean, Sync, Active, Expired, Quiet
<1>13. \A t \in Chats : Torn(t)' => ~Clean(t)' /\ ~Quiet(t)'
  BY DEF Torn, Clean, Quiet
<1>14. Uncrowded(job[v])'
  <2> SUFFICES ASSUME NEW c \in Busy(j), Clean(c)'
               PROVE  ~Crowded(c)'
    BY <1>2, <1>6 DEF Uncrowded, Busy
  <2> QED
    BY <1>5, <1>8, <1>9, <1>12, <1>13 DEF Uncrowded, Knows
<1>15. Ending(job[v])'
  <2> SUFFICES ASSUME NEW c \in Busy(j), j.task = "expire", ~Torn(c)'
               PROVE  /\ ~Active(rec[c])' /\ ~Active(cache[c])'
                      /\ c \in j.harsh => cache'[c].is # "plain"
    BY <1>2, <1>6 DEF Ending, Busy
  <2>1. \A t \in Chats : Near(c, t) => Same(t)
    BY <1>5, <1>8, <1>9
  <2> QED
    BY <1>5, <1>12, <2>1 DEF Ending, Knows
<1>16. Commanding(job[v])'
  <2> SUFFICES ASSUME NEW c \in Busy(j), j.task = "command"
               PROVE  Torn(c)'
    BY <1>2, <1>6 DEF Commanding, Busy
  <2> QED
    BY <1>5, <1>8, <1>9, <1>12 DEF Commanding, Knows
<1>17. Muting(job[v])'
  <2> SUFFICES ASSUME j.step = "restrict", j.task = "mute"
               PROVE  /\ ~Torn(j.chat)' \/ k.sole =>
                           \/ rec'[j.chat] = None
                           \/ rec'[j.chat] = [is |-> "plain", until |-> j.until]
                      /\ k.sole => Sync(j.chat)'
                      /\ \A t \in Chats : Near(j.chat, t) /\ (k.sole \/ Quiet(t)') =>
                           cache'[j.chat] = [is |-> "plain", until |-> j.until]
    BY <1>2, <1>6 DEF Muting, Torn, Sync, Active, Expired, Quiet, Near
  <2>1. /\ ~Torn(j.chat) \/ j.sole =>
             rec[j.chat] = None \/ rec[j.chat] = [is |-> "plain", until |-> j.until]
        /\ j.sole => Sync(j.chat)
        /\ \A t \in Chats : Near(j.chat, t) /\ (j.sole \/ Quiet(t)) =>
             cache[j.chat] = [is |-> "plain", until |-> j.until]
    BY <1>5 DEF Knows, Muting
  <2>2. CASE \A t \in Chats : Near(j.chat, t) => Same(t)
    BY <1>4, <1>7, <1>12, <2>1, <2>2
  <2>3. CASE ~k.sole /\ \A t \in Chats : Near(j.chat, t) => Torn(t)'
    BY <1>7, <1>8, <1>13, <2>3
  <2> QED
    BY <1>10, <2>2, <2>3
<1>18. Restricting(job[v])'
  <2> SUFFICES ASSUME j.step = "restrict", j.task = "mute", ~j.refused,
                      k.sole \/ ~Torn(j.chat)',
                      NEW t \in Chats, Near(j.chat, t), t \notin j.todo
               PROVE  tg'[t] >= j.until
    BY <1>2, <1>6 DEF Restricting, Torn, Near
  <2>1. \A u \in Chats : Near(j.chat, u) => Same(u)
    BY <1>7, <1>8, <1>10
  <2>2. tg'[t] = tg[t] /\ (Torn(j.chat)' <=> Torn(j.chat))
    BY <1>7, <1>12, <2>1
  <2> QED
    BY <1>4, <1>5, <2>2 DEF Knows, Restricting
<1>19. Refusing(job[v])'
  <2> SUFFICES ASSUME j.task = "mute", j.refused, NEW t \in Chats, Near(j.chat, t)
               PROVE  ~Quiet(t)'
    BY <1>2, <1>6 DEF Refusing, Quiet, Near
  <2>1. ~Quiet(t)
    BY <1>5 DEF Knows, Refusing
  <2> QED
    BY <1>7, <1>10, <1>11, <1>12, <1>13, <2>1
<1>20. Unmuting(job[v])'
  <2> SUFFICES ASSUME j.step = "free", j.task = "unmute", k.sole \/ ~Torn(j.chat)'
               PROVE  rec'[j.chat] = None /\ cache'[j.chat] = None
    BY <1>2, <1>6 DEF Unmuting, Torn
  <2>1. \A u \in Chats : Near(j.chat, u) => Same(u)
    BY <1>7, <1>8, <1>10
  <2> QED
    BY <1>4, <1>5, <1>7, <1>12, <2>1 DEF Knows, Unmuting
<1>21. Freeing(job[v])'
  <2> SUFFICES ASSUME j.step \in {"free", "drop"}, j.task # "command",
                      j.chat \notin j.harsh, NEW t \in Chats, Near(j.chat, t),
                      t \notin j.todo, (k.sole /\ ~j.refused) \/ Quiet(t)'
               PROVE  tg'[t] = 0
    BY <1>2, <1>6 DEF Freeing, Quiet, Near
  <2>1. \A u \in Chats : Near(j.chat, u) => Same(u)
    BY <1>7, <1>10, <1>13
  <2>2. tg'[t] = tg[t] /\ (Quiet(t)' <=> Quiet(t))
    BY <1>7, <1>12, <2>1
  <2> QED
    BY <1>4, <1>5, <2>2 DEF Knows, Freeing
<1> QED
  BY <1>14, <1>15, <1>16, <1>17, <1>18, <1>19, <1>20, <1>21 DEF Knows

LEMMA NearIs ==
  ASSUME everywhere' = everywhere
  PROVE  /\ \A c : Near(c, c)
         /\ \A c, d : Near(c, d) => Near(d, c)
         /\ \A c, d, e : Near(c, d) /\ Near(d, e) => Near(c, e)
         /\ \A c, d : Near(c, d)' <=> Near(c, d)
BY DEF Near

\* The jobs that run when another begins.
LEMMA OthersBegin ==
  ASSUME EInv, NEW w \in Workers, NEW j \in Job, NEW k \in Job,
         NEW why \in SUBSET Reasons, everywhere' = everywhere, now' = now, tg' = tg,
         Busy(j) \subseteq Chats, Chats \cap (j.list \cup {j.chat}) = Busy(j),
         Formed(k), k.step # "idle" \/ k = NoJob, Busy(k) \subseteq Busy(j),
         Begin(w, j, k, why),
         \A t \in Chats : (\A d \in Busy(j) : ~Near(d, t)) =>
                             rec'[t] = rec[t] /\ cache'[t] = cache[t]
  PROVE  /\ Apart' /\ Uniform'
         /\ \A v \in Workers : v # w => Knows(job[v])'
<1> USE NearIs
<1>1. TypeOK /\ Jobs /\ Typed /\ Apart /\ Uniform
      /\ \A v \in Workers : Knows(job[v])
  BY DEF EInv, Typed
<1>0. Begun(w, j, k, why)
  BY <1>1, BeginIs
<1>2. /\ job[w] = NoJob /\ Jobs'
      /\ job'[w].sole => \/ k = NoJob
                         \/ \A v \in Workers : ~Meets(v, j)
      /\ job'[w] = [k EXCEPT !.sole = job'[w].sole]
      /\ \A v \in Workers : v # w =>
            /\ job'[v] = [job[v] EXCEPT !.sole = job'[v].sole]
            /\ job'[v].sole => job[v].sole /\ ~Meets(v, j)
      /\ \A t \in Chats : (\A d \in Busy(j) : ~Near(d, t)) => upset'[t] = upset[t]
  BY <1>0 DEF Begun
<1>3. \A t \in Chats, d \in Busy(j) : Near(d, t) =>
            /\ Torn(t)' <=> Torn(t) \/ "torn" \in why \/ Shared(t)
            /\ \A r \in why \cup upset[t] : r \in upset'[t] \/ Torn(t)'
            /\ (\E c \in Busy(j) : Crowded(c)) => ~Clean(t)'
            /\ \A r \in upset'[t] :
                  \/ r \in {"torn"} \cup why \cup upset[t]
                  \/ r = "crossed" /\ \E c \in Busy(j) : Crowded(c)
  BY <1>0 DEF Begun
<1>4. \A v \in Workers : job[v] \in Job /\ Formed(job[v]) /\ Busy(job[v]) \subseteq Chats
  BY <1>1, BusyChats DEF Jobs
<1>5. \A v \in Workers : job'[v] \in Job
  BY <1>2 DEF Jobs
<1>6. \A v \in Workers : v # w => Busy(job'[v]) = Busy(job[v])
  <2> TAKE v \in Workers
  <2>1. job'[v].sole \in BOOLEAN
    BY <1>5, JobIs
  <2>2. v # w => job[v] \in Job /\ job'[v] = [job[v] EXCEPT !.sole = job'[v].sole]
    BY <1>2, <1>4
  <2> QED
    BY <2>1, <2>2, SoleOnly
<1>7. Busy(job'[w]) = Busy(k)
  <2>1. job'[w].sole \in BOOLEAN
    BY <1>5, JobIs
  <2> QED
    BY <2>1, <1>2, SoleOnly
<1>9. \A v \in Workers : Busy(job[v])' = Busy(job'[v])
  BY DEF Busy
<1>10. ASSUME NEW t \in Chats
       PROVE  Torn(t) => Torn(t)'
  <2>1. CASE \E d \in Busy(j) : Near(d, t)
    BY <2>1, <1>3
  <2>2. CASE \A d \in Busy(j) : ~Near(d, t)
    BY <2>2, <1>2 DEF Torn
  <2> QED
    BY <2>1, <2>2
<1>11. ASSUME NEW v \in Workers, v # w, NEW c \in Busy(job[v]), NEW d \in Busy(j),
              Near(c, d)
       PROVE  /\ ~job'[v].sole /\ Meets(v, j)
              /\ \A t \in Chats : Near(c, t) => Torn(t)'
  <2>1. Meets(v, j)
    BY <1>11 DEF Meets
  <2>2. ASSUME NEW t \in Chats, Near(c, t)
        PROVE  Torn(t)'
    <3>1. Near(d, t)
      BY <1>11, <2>2
    <3>2. Shared(t)
      BY <1>11, <2>2 DEF Shared
    <3> QED
      BY <3>1, <3>2, <1>3
  <2> QED
    BY <2>1, <2>2, <1>2, <1>11
<1>12. Apart'
  <2>1. SUFFICES ASSUME NEW u \in Workers, NEW v \in Workers, u # v,
                        NEW c \in Busy(job'[u]), NEW d \in Busy(job'[v]), Near(c, d)
                 PROVE  Torn(c)' /\ ~job'[u].sole
    BY <1>9 DEF Apart
  <2>2. CASE u # w /\ v # w
    <3>1. c \in Busy(job[u]) /\ d \in Busy(job[v]) /\ c \in Chats
      BY <2>2, <1>4, <1>6
    <3>2. Torn(c) /\ ~job[u].sole
      BY <2>1, <3>1, <1>1 DEF Apart
    <3> QED
      BY <2>2, <3>1, <3>2, <1>2, <1>10
  <2>3. CASE u = w
    <3>1. c \in Busy(j) /\ k # NoJob /\ d \in Busy(job[v])
      BY <2>1, <2>3, <1>6, <1>7, NoJobIs
    <3>2. Meets(v, j) /\ Torn(c)'
      BY <2>1, <2>3, <3>1, <1>11
    <3> QED
      BY <2>3, <3>1, <3>2, <1>2
  <2>4. CASE v = w
    <3>1. d \in Busy(j) /\ c \in Busy(job[u]) /\ c \in Chats
      BY <2>1, <2>4, <1>4, <1>6, <1>7
    <3> QED
      BY <2>1, <2>4, <3>1, <1>11
  <2> QED
    BY <2>2, <2>3, <2>4
<1>13. Uniform'
  <2> SUFFICES ASSUME NEW c \in Chats, NEW t \in Chats, Near(c, t)
               PROVE  (Torn(c)' <=> Torn(t)') /\ (Clean(c)' <=> Clean(t)')
    BY DEF Uniform
  <2>1. (Torn(c) <=> Torn(t)) /\ (Clean(c) <=> Clean(t))
    BY <1>1 DEF Uniform
  <2>2. CASE \A d \in Busy(j) : ~Near(d, t)
    <3>1. \A d \in Busy(j) : ~Near(d, c)
      BY <2>2
    <3> QED
      BY <2>1, <2>2, <3>1, <1>2 DEF Torn, Clean
  <2>3. CASE \E d \in Busy(j) : Near(d, t)
    <3>1. PICK d \in Busy(j) : Near(d, t) /\ Near(d, c)
      BY <2>3
    <3>2. Shared(c) <=> Shared(t)
      BY DEF Shared
    <3>3. Torn(c)' <=> Torn(t)'
      BY <2>1, <3>1, <3>2, <1>3
    <3>4. ASSUME NEW x \in {c, t}
          PROVE  Clean(x)' <=> /\ ~Torn(x)' /\ Clean(x) /\ "crossed" \notin why
                               /\ ~ \E e \in Busy(j) : Crowded(e)
      <4>1. x \in Chats /\ Near(d, x)
        BY <3>1
      <4> DEFINE full == \E e \in Busy(j) : Crowded(e)
      <4>2. /\ Torn(x)' <=> Torn(x) \/ "torn" \in why \/ Shared(x)
            /\ \A r \in why \cup upset[x] : r \in upset'[x] \/ Torn(x)'
            /\ full => ~Clean(x)'
            /\ \A r \in upset'[x] : r \in {"torn"} \cup why \cup upset[x] \/ (r = "crossed" /\ full)
        BY <4>1, <1>3
      <4> HIDE DEF full
      <4>3. Clean(x)' => ~Torn(x)' /\ Clean(x) /\ "crossed" \notin why /\ ~full
        BY <4>2 DEF Clean, Torn
      <4>4. ~Torn(x)' /\ Clean(x) /\ "crossed" \notin why /\ ~full => Clean(x)'
        BY <4>2 DEF Clean, Torn
      <4> QED
        BY <4>3, <4>4 DEF full
    <3> QED
      BY <2>1, <3>3, <3>4
  <2> QED
    BY <2>2, <2>3
<1>14. ASSUME NEW v \in Workers, v # w
       PROVE  Knows(job[v])'
  <2>1. ASSUME NEW c \in Busy(job[v])
        PROVE  \/ \A t \in Chats : Near(c, t) => Same(t)
               \/ ~job'[v].sole /\ \A t \in Chats : Near(c, t) => Torn(t)'
    <3>1. CASE \E d \in Busy(j) : Near(c, d)
      BY <3>1, <2>1, <1>11, <1>14
    <3>2. CASE \A d \in Busy(j) : ~Near(c, d)
      <4> SUFFICES ASSUME NEW t \in Chats, Near(c, t)
                   PROVE  Same(t)
        OBVIOUS
      <4>1. \A d \in Busy(j) : ~Near(d, t)
        BY <3>2
      <4> QED
        BY <4>1, <1>2 DEF Same
    <3> QED
      BY <3>1, <3>2
  <2> QED
    BY <2>1, <1>1, <1>2, <1>5, <1>14, KnowsStill
<1> QED
  BY <1>12, <1>13, <1>14

\* Job w goes on, and is left as l, with what is near one of its chats.
GoesOn(w, l, e) ==
  /\ everywhere' = everywhere /\ now' = now
  /\ job' = [job EXCEPT ![w] = l]
  /\ Busy(l) \subseteq Busy(job[w])
  /\ l.sole => job[w].sole \/ Busy(l) = {}
  /\ e \in Busy(job[w])
  /\ \A t \in Chats : ~Near(e, t) => Same(t)
  /\ \A t \in Chats : Torn(t) => Torn(t)' \/ (job[w].sole /\ Near(e, t))

\* The jobs that run when another goes on.
LEMMA OthersGoOn ==
  ASSUME EInv, NEW w \in Workers, NEW l \in Job, NEW e, Formed(l), GoesOn(w, l, e)
  PROVE  /\ Jobs' /\ Apart' /\ job'[w] = l
         /\ \A v \in Workers : v # w => job'[v] = job[v] /\ Knows(job[v])'
<1>1. TypeOK /\ Jobs /\ Typed /\ Apart /\ \A v \in Workers : Knows(job[v])
  BY DEF EInv, Typed
<1>2. /\ everywhere' = everywhere /\ now' = now
      /\ job' = [job EXCEPT ![w] = l]
      /\ Busy(l) \subseteq Busy(job[w]) /\ (l.sole => job[w].sole \/ Busy(l) = {})
      /\ e \in Busy(job[w])
      /\ \A t \in Chats : ~Near(e, t) => Same(t)
      /\ \A t \in Chats : Torn(t) => Torn(t)' \/ (job[w].sole /\ Near(e, t))
  BY DEF GoesOn
<1>3. \A v \in Workers : job[v] \in Job /\ Formed(job[v]) /\ Busy(job[v]) \subseteq Chats
  BY <1>1, BusyChats DEF Jobs
<1>4. Jobs' /\ job'[w] = l /\ \A v \in Workers : v # w => job'[v] = job[v]
  BY <1>1, <1>2, OneJob
<1>5. \A v \in Workers : Busy(job[v])' = Busy(job'[v])
  BY DEF Busy
<1>6. ASSUME NEW u \in Workers, NEW v \in Workers, u # v,
             NEW c \in Busy(job[u]), NEW d \in Busy(job[v]), Near(c, d)
      PROVE  /\ c \in Chats /\ Torn(c) /\ ~job[u].sole
             /\ d \in Chats /\ Torn(d) /\ ~job[v].sole
  BY <1>1, <1>3, <1>6, NearIs, <1>2 DEF Apart
<1>7. ASSUME NEW u \in Workers, NEW v \in Workers, u # v,
             NEW c \in Busy(job[u]), NEW d \in Busy(job[v]), Near(c, d)
      PROVE  Torn(c)'
  <2>1. c \in Chats /\ Torn(c)
    BY <1>6, <1>7
  <2>2. CASE ~(job[w].sole /\ Near(e, c))
    BY <1>2, <2>1, <2>2
  <2>3. CASE job[w].sole /\ Near(e, c)
    <3>1. Near(e, d) /\ Near(c, e) /\ Near(d, e)
      BY <1>2, <1>7, <2>3, NearIs
    <3>2. ~job[w].sole
      BY <1>2, <1>6, <1>7, <3>1, <2>3
    <3> QED
      BY <2>3, <3>2
  <2> QED
    BY <2>2, <2>3
<1>8. Apart'
  <2>1. SUFFICES ASSUME NEW u \in Workers, NEW v \in Workers, u # v,
                        NEW c \in Busy(job'[u]), NEW d \in Busy(job'[v]), Near(c, d)
                 PROVE  Torn(c)' /\ ~job'[u].sole
    BY <1>2, <1>5, NearIs DEF Apart
  <2>2. c \in Busy(job[u]) /\ d \in Busy(job[v])
    BY <1>2, <1>4
  <2>3. Torn(c)' /\ ~job[u].sole
    BY <1>6, <1>7, <2>1, <2>2
  <2>4. ~job'[u].sole
    BY <1>2, <1>4, <2>1, <2>3
  <2> QED
    BY <2>3, <2>4
<1>9. ASSUME NEW v \in Workers, v # w
      PROVE  Knows(job[v])'
  <2>1. ASSUME NEW c \in Busy(job[v])
        PROVE  \/ \A t \in Chats : Near(c, t) => Same(t)
               \/ ~job'[v].sole /\ \A t \in Chats : Near(c, t) => Torn(t)'
    <3>1. CASE Near(e, c)
      <4>1. Near(c, e) /\ ~job[w].sole /\ ~job[v].sole
        BY <1>2, <1>6, <1>9, <2>1, <3>1, NearIs
      <4>2. ASSUME NEW t \in Chats, Near(c, t)
            PROVE  Torn(t)'
        <5>1. c \in Chats /\ Torn(c)
          BY <1>2, <1>6, <1>9, <2>1, <4>1
        <5>2. Torn(t)
          BY <4>2, <5>1 DEF EInv, Uniform
        <5> QED
          BY <5>2, <4>1, <1>2
      <4> QED
        BY <4>1, <4>2, <1>4, <1>9
    <3>2. CASE ~Near(e, c)
      <4>1. ASSUME NEW t \in Chats, Near(c, t)
            PROVE  ~Near(e, t)
        BY <1>2, <3>2, <4>1, NearIs
      <4> QED
        BY <4>1, <1>2
    <3> QED
      BY <3>1, <3>2
  <2>2. job'[v] = [job[v] EXCEPT !.sole = job'[v].sole] /\ job'[v] \in Job
    <3>1. job'[v] = job[v] /\ job[v] \in Job
      BY <1>3, <1>4, <1>9
    <3> QED
      BY <3>1 DEF Job
  <2> QED
    BY <2>1, <2>2, <1>1, <1>2, <1>4, <1>9, KnowsStill
<1> QED
  BY <1>4, <1>8, <1>9

---------------------------------------------------------------------------
(* What becomes of the marks.                                              *)

\* A refusal or a reload neither tears nor crosses.
LEMMA MarkMild ==
  ASSUME EInv, NEW S \in SUBSET Chats, NEW why \in {"refused", "reloaded"},
         upset' = Mark(S, {why}), everywhere' = everywhere
  PROVE  /\ upset' \in [Chats -> SUBSET Reasons] /\ Uniform'
         /\ \A t \in Chats : /\ Torn(t)' <=> Torn(t)
                             /\ Clean(t)' <=> Clean(t)
                             /\ Quiet(t)' => Quiet(t)
                             /\ t \in S => ~Quiet(t)'
                             /\ t \notin S => upset'[t] = upset[t]
<1>1. upset \in [Chats -> SUBSET Reasons] /\ Uniform /\ {why} \in SUBSET Reasons
  BY DEF EInv, Typed, TypeOK, Reasons
<1>2. upset' \in [Chats -> SUBSET Reasons]
  BY <1>1, MarkIs
<1>3. ASSUME NEW t \in Chats
      PROVE  /\ Torn(t)' <=> Torn(t)
             /\ Clean(t)' <=> Clean(t)
             /\ Quiet(t)' => Quiet(t)
             /\ t \in S => ~Quiet(t)'
             /\ t \notin S => upset'[t] = upset[t]
  <2>1. /\ t \notin S => upset'[t] = upset[t]
        /\ "torn" \in upset'[t] <=> Torn(t) \/ (t \in S /\ "torn" \in {why})
        /\ \A r \in {why} : t \in S => r \in upset'[t] \/ "torn" \in upset'[t]
        /\ \A r \in upset[t] : r \in upset'[t] \/ "torn" \in upset'[t]
        /\ \A r \in upset'[t] : \/ r = "torn" \/ r \in upset[t]
                                \/ t \in S /\ r \in {why}
    BY <1>1, MarkIs
  <2>2. Torn(t)' <=> "torn" \in upset'[t]
    BY DEF Torn
  <2> QED
    BY <2>1, <2>2 DEF Torn, Clean, Quiet
<1> QED
  BY <1>1, <1>2, <1>3, NearIs DEF Uniform

\* Every chat near c is torn.
LEMMA MarkTorn ==
  ASSUME EInv, NEW c \in Chats, upset' = Mark(Targets(c), {"torn"}),
         everywhere' = everywhere
  PROVE  /\ upset' \in [Chats -> SUBSET Reasons] /\ Uniform'
         /\ \A t \in Chats : /\ Near(c, t) => Torn(t)'
                             /\ ~Near(c, t) => upset'[t] = upset[t]
<1>1. /\ upset \in [Chats -> SUBSET Reasons] /\ Uniform /\ {"torn"} \in SUBSET Reasons
      /\ everywhere \in BOOLEAN
  BY DEF EInv, Typed, TypeOK, Reasons
<1>2. upset' \in [Chats -> SUBSET Reasons]
  BY <1>1, MarkIs
<1>3. ASSUME NEW t \in Chats
      PROVE  /\ Near(c, t) => Torn(t)'
             /\ ~Near(c, t) => upset'[t] = upset[t]
  <2>1. /\ t \notin Targets(c) => upset'[t] = upset[t]
        /\ "torn" \in upset'[t] <=> Torn(t) \/ (t \in Targets(c) /\ "torn" \in {"torn"})
    BY <1>1, MarkIs
  <2>2. Torn(t)' <=> "torn" \in upset'[t]
    BY DEF Torn
  <2> QED
    BY <1>1, <2>1, <2>2, TargetsAre
<1>4. Uniform'
  <2> SUFFICES ASSUME NEW d \in Chats, NEW t \in Chats, Near(d, t)
               PROVE  (Torn(d)' <=> Torn(t)') /\ (Clean(d)' <=> Clean(t)')
    BY NearIs DEF Uniform
  <2>1. CASE Near(c, d)
    BY <2>1, <1>3, NearIs DEF Torn, Clean
  <2>2. CASE ~Near(c, d)
    <3>1. ~Near(c, t)
      BY <2>2, NearIs
    <3> QED
      BY <2>2, <3>1, <1>1, <1>3 DEF Uniform, Torn, Clean
  <2> QED
    BY <2>1, <2>2
<1> QED
  BY <1>2, <1>3, <1>4

\* A handler that settles its chats was alone with them.
LEMMA SettledIs ==
  ASSUME EInv, NEW c \in Chats, NEW j, j.chat = c, upset' = Settled(j),
         everywhere' = everywhere
  PROVE  /\ upset' \in [Chats -> SUBSET Reasons] /\ Uniform'
         /\ \/ upset' = upset
            \/ /\ j.sole /\ ~j.refused /\ ~Crowded(c)
               /\ \A t \in Chats : /\ Near(c, t) => upset'[t] = {}
                                   /\ ~Near(c, t) => upset'[t] = upset[t]
<1>1. upset \in [Chats -> SUBSET Reasons] /\ Uniform /\ everywhere \in BOOLEAN
  BY DEF EInv, Typed, TypeOK
<1>2. CASE upset' = upset
  BY <1>1, <1>2, NearIs DEF Uniform, Torn, Clean
<1>3. CASE upset' # upset
  <2>1. /\ j.sole /\ ~j.refused /\ ~Crowded(c)
        /\ upset' = [t \in Chats |-> IF t \in Targets(c) THEN {} ELSE upset[t]]
    BY <1>3 DEF Settled
  <2>2. ASSUME NEW t \in Chats
        PROVE  /\ Near(c, t) => upset'[t] = {}
               /\ ~Near(c, t) => upset'[t] = upset[t]
    BY <1>1, <2>1, TargetsAre
  <2>3. upset' \in [Chats -> SUBSET Reasons]
    BY <1>1, <2>1
  <2>4. Uniform'
    <3> SUFFICES ASSUME NEW d \in Chats, NEW t \in Chats, Near(d, t)
                 PROVE  (Torn(d)' <=> Torn(t)') /\ (Clean(d)' <=> Clean(t)')
      BY NearIs DEF Uniform
    <3>1. CASE Near(c, d)
      BY <3>1, <2>2, NearIs DEF Torn, Clean
    <3>2. CASE ~Near(c, d)
      <4>1. ~Near(c, t)
        BY <3>2, NearIs
      <4> QED
        BY <3>2, <4>1, <1>1, <2>2 DEF Uniform, Torn, Clean
    <3> QED
      BY <3>1, <3>2
  <2> QED
    BY <2>1, <2>2, <2>3, <2>4
<1> QED
  BY <1>2, <1>3

---------------------------------------------------------------------------
(* The steps that begin a job.                                             *)

\* The cache, or the job that frees the user, accounts for a restriction of t.
Accounts(t) ==
  \/ \E c \in Chats : Near(c, t) /\ cache[c].is = "plain"
  \/ \E w \in Workers : job[w].step = "free" /\ t \in job[w].todo

\* Goroutine w begins job j on chats of its own accord and is left with job k.
TakesOn(w, j, k, why) ==
  /\ j \in Job /\ k \in Job /\ why \in SUBSET Reasons
  /\ Busy(j) \subseteq Chats /\ Chats \cap (j.list \cup {j.chat}) = Busy(j)
  /\ Formed(k) /\ (k.step # "idle" \/ k = NoJob)
  /\ k = NoJob \/ Busy(k) = Busy(j)
  /\ Begin(w, j, k, why)
  /\ everywhere' = everywhere /\ now' = now /\ tg' = tg
  /\ \A t \in Chats \ Busy(j) : rec'[t] = rec[t] /\ cache'[t] = cache[t]

LEMMA TakesOnIs ==
  ASSUME EInv, NEW w \in Workers, NEW j, NEW k, NEW why, TakesOn(w, j, k, why)
  PROVE  /\ Begun(w, j, k, why) /\ Apart' /\ Uniform' /\ job[w] = NoJob
         /\ \A v \in Workers : v # w => Knows(job[v])'
         /\ \A t \in Chats : (Torn(t) => Torn(t)') /\ (Quiet(t)' => Quiet(t))
                             /\ (Clean(t)' => Clean(t))
         /\ \A v \in Workers : v # w => /\ job'[v].step = job[v].step
                                         /\ job'[v].todo = job[v].todo
                                         /\ Busy(job[v])' = Busy(job[v])
         /\ job'[w].task = k.task /\ job'[w].step = k.step /\ job'[w].chat = k.chat
         /\ job'[w].until = k.until /\ job'[w].todo = k.todo
         /\ job'[w].refused = k.refused /\ job'[w].list = k.list
         /\ job'[w].harsh = k.harsh /\ Busy(job[w])' = Busy(k)
<1>1. /\ j \in Job /\ k \in Job /\ why \in SUBSET Reasons
      /\ Busy(j) \subseteq Chats /\ Chats \cap (j.list \cup {j.chat}) = Busy(j)
      /\ Formed(k) /\ (k.step # "idle" \/ k = NoJob)
      /\ k = NoJob \/ Busy(k) = Busy(j)
      /\ Begin(w, j, k, why)
      /\ everywhere' = everywhere /\ now' = now /\ tg' = tg
      /\ \A t \in Chats \ Busy(j) : rec'[t] = rec[t] /\ cache'[t] = cache[t]
  BY DEF TakesOn
<1>2. TypeOK /\ Jobs /\ Uniform
  BY DEF EInv, Typed
<1>3. Begun(w, j, k, why)
  BY <1>1, <1>2, BeginIs
<1>4. Busy(k) \subseteq Busy(j)
  BY <1>1, NoJobIs
<1>5. \A t \in Chats : (\A d \in Busy(j) : ~Near(d, t)) =>
                             rec'[t] = rec[t] /\ cache'[t] = cache[t]
  BY <1>1, NearIs
<1>6. Apart' /\ Uniform' /\ \A v \in Workers : v # w => Knows(job[v])'
  BY <1>1, <1>4, <1>5, OthersBegin
<1>7. /\ job[w] = NoJob /\ Jobs'
      /\ job'[w] = [k EXCEPT !.sole = job'[w].sole]
      /\ \A v \in Workers : v # w => job'[v] = [job[v] EXCEPT !.sole = job'[v].sole]
      /\ \A t \in Chats : (\A d \in Busy(j) : ~Near(d, t)) => upset'[t] = upset[t]
  BY <1>3 DEF Begun
<1>8. \A t \in Chats, d \in Busy(j) : Near(d, t) =>
            \A r \in upset[t] : r \in upset'[t] \/ Torn(t)'
  BY <1>3 DEF Begun
<1>9. ASSUME NEW t \in Chats
      PROVE  (Torn(t) => Torn(t)') /\ (Quiet(t)' => Quiet(t)) /\ (Clean(t)' => Clean(t))
  <2>1. CASE \E d \in Busy(j) : Near(d, t)
    <3>1. \A r \in upset[t] : r \in upset'[t] \/ Torn(t)'
      BY <2>1, <1>8
    <3> QED
      BY <3>1 DEF Torn, Quiet, Clean
  <2>2. CASE \A d \in Busy(j) : ~Near(d, t)
    BY <2>2, <1>7 DEF Torn, Quiet, Clean
  <2> QED
    BY <2>1, <2>2
<1>10. \A v \in Workers : job'[v] \in Job /\ job'[v].sole \in BOOLEAN /\ job[v] \in Job
  BY <1>2, <1>7, JobIs DEF Jobs
<1>11. \A v \in Workers : Busy(job[v])' = Busy(job'[v])
  BY DEF Busy
<1>12. ASSUME NEW v \in Workers, v # w
       PROVE  /\ job'[v].step = job[v].step
              /\ job'[v].todo = job[v].todo
              /\ Busy(job[v])' = Busy(job[v])
  <2>1. job[v] \in Job /\ job'[v].sole \in BOOLEAN
        /\ job'[v] = [job[v] EXCEPT !.sole = job'[v].sole]
    BY <1>7, <1>10, <1>12
  <2>2. PICK b \in BOOLEAN : b = job'[v].sole
    BY <2>1
  <2>3. PICK i \in Job : i = job[v]
    BY <2>1
  <2>4. job'[v] = [i EXCEPT !.sole = b]
    BY <2>1, <2>2, <2>3
  <2>5. Busy([i EXCEPT !.sole = b]) = Busy(i)
    BY SoleOnly
  <2> QED
    BY <2>3, <2>4, <2>5, <1>11, SoleOnly
<1>13. /\ job'[w].task = k.task /\ job'[w].step = k.step /\ job'[w].chat = k.chat
       /\ job'[w].until = k.until /\ job'[w].todo = k.todo
       /\ job'[w].refused = k.refused /\ job'[w].list = k.list
       /\ job'[w].harsh = k.harsh /\ Busy(job[w])' = Busy(k)
  <2>1. k \in Job /\ job'[w].sole \in BOOLEAN
        /\ job'[w] = [k EXCEPT !.sole = job'[w].sole]
    BY <1>1, <1>7, <1>10
  <2>2. PICK b \in BOOLEAN : b = job'[w].sole
    BY <2>1
  <2>3. PICK i \in Job : i = k
    BY <2>1
  <2>4. job'[w] = [i EXCEPT !.sole = b]
    BY <2>1, <2>2, <2>3
  <2>5. Busy([i EXCEPT !.sole = b]) = Busy(i)
    BY SoleOnly
  <2> QED
    BY <2>3, <2>4, <2>5, <1>11, SoleOnly
<1> QED
  BY <1>3, <1>6, <1>7, <1>9, <1>12, <1>13

\* A step that begins a job has to answer for the chats of the job only.
LEMMA BeginKeeps ==
  ASSUME EInv, NEW w \in Workers, NEW j, NEW k, NEW why, TakesOn(w, j, k, why),
         Typed',
         \A c \in Busy(j) : ~Torn(c)' => Sync(c)',
         \A t \in Chats, d \in Busy(j) :
            Near(d, t) /\ Quiet(t)' /\ Restricted(t)' => Accounts(t)',
         k = NoJob => \A c \in Busy(j) : Clean(c)' => Carried(c)',
         k # NoJob => Knows(job[w])'
  PROVE  EInv'
<1>1. /\ Begun(w, j, k, why) /\ Apart' /\ Uniform' /\ job[w] = NoJob
      /\ \A v \in Workers : v # w => Knows(job[v])'
      /\ \A t \in Chats : (Torn(t) => Torn(t)') /\ (Quiet(t)' => Quiet(t))
                          /\ (Clean(t)' => Clean(t))
      /\ \A v \in Workers : v # w => /\ job'[v].step = job[v].step
                                      /\ job'[v].todo = job[v].todo
                                      /\ Busy(job[v])' = Busy(job[v])
      /\ Busy(job[w])' = Busy(k)
  BY TakesOnIs
<1>2. /\ everywhere' = everywhere /\ now' = now /\ tg' = tg
      /\ \A t \in Chats \ Busy(j) : rec'[t] = rec[t] /\ cache'[t] = cache[t]
      /\ k = NoJob \/ Busy(k) = Busy(j)
      /\ Busy(j) \subseteq Chats
  BY DEF TakesOn
<1>3. Synced /\ Accounted /\ MutesCarried
  BY DEF EInv
<1>4. Synced'
  <2> SUFFICES ASSUME NEW c \in Chats, ~Torn(c)'
               PROVE  Sync(c)'
    BY DEF Synced
  <2>1. CASE c \notin Busy(j)
    <3>1. Sync(c)
      BY <1>1, <1>3 DEF Synced
    <3> QED
      BY <3>1, <2>1, <1>2 DEF Sync, Active, Expired
  <2> QED
    BY <2>1
<1>5. Accounted'
  <2> SUFFICES ASSUME NEW t \in Chats, Quiet(t)', Restricted(t)'
               PROVE  Accounts(t)'
    BY DEF Accounted, Accounts
  <2>1. CASE \E d \in Busy(j) : Near(d, t)
    BY <2>1
  <2>2. CASE \A d \in Busy(j) : ~Near(d, t)
    <3>1. Quiet(t) /\ Restricted(t)
      BY <1>1, <1>2 DEF Restricted
    <3>2. Accounts(t)
      BY <1>3, <3>1 DEF Accounted, Accounts
    <3>3. CASE \E c \in Chats : Near(c, t) /\ cache[c].is = "plain"
      <4>1. PICK c \in Chats : Near(c, t) /\ cache[c].is = "plain"
        BY <3>3
      <4>2. Near(c, t)' /\ cache'[c].is = "plain"
        BY <4>1, <2>2, <1>2, NearIs
      <4> QED
        BY <4>2 DEF Accounts
    <3>4. CASE \E v \in Workers : job[v].step = "free" /\ t \in job[v].todo
      <4>1. PICK v \in Workers : job[v].step = "free" /\ t \in job[v].todo
        BY <3>4
      <4>2. job'[v].step = "free" /\ t \in job'[v].todo
        BY <4>1, <1>1, NoJobIs
      <4> QED
        BY <4>2 DEF Accounts
    <3> QED
      BY <3>2, <3>3, <3>4 DEF Accounts
  <2> QED
    BY <2>1, <2>2
<1>6. MutesCarried'
  <2> SUFFICES ASSUME NEW c \in Chats, Clean(c)', Idle(c)'
               PROVE  Carried(c)'
    BY DEF MutesCarried
  <2>1. CASE c \in Busy(j)
    <3>1. CASE k = NoJob
      BY <2>1, <3>1
    <3>2. CASE k # NoJob
      <4>1. c \in Busy(job[w])' /\ Near(c, c)'
        BY <1>1, <1>2, <2>1, <3>2, NearIs
      <4> QED
        BY <4>1 DEF Idle
    <3> QED
      BY <3>1, <3>2
  <2>2. CASE c \notin Busy(j)
    <3>1. Idle(c)
      <4> SUFFICES ASSUME NEW v \in Workers, NEW d \in Busy(job[v]), Near(d, c)
                   PROVE  FALSE
        BY DEF Idle
      <4>1. v # w
        BY <1>1, NoJobIs
      <4>2. d \in Busy(job[v])' /\ Near(d, c)'
        BY <4>1, <1>1, <1>2, NearIs
      <4> QED
        BY <4>2 DEF Idle
    <3>2. Carried(c)
      BY <1>1, <1>3, <3>1 DEF MutesCarried
    <3> QED
      BY <2>2, <3>2, <1>2, NearIs DEF Carried, Active
  <2> QED
    BY <2>1, <2>2
<1>7. Knows(job[w])'
  <2>1. CASE k = NoJob
    <3>1. /\ Busy(job[w])' = {} /\ job'[w].step = "idle" /\ job'[w].task = "none"
          /\ Busy(job'[w]) = {}
      <4>1. job'[w].step = "idle" /\ job'[w].task = "none" /\ job'[w].list = {}
        BY <2>1, NoJobIs, TakesOnIs
      <4> QED
        BY <4>1 DEF Busy
    <3> QED
      BY <3>1 DEF Knows, Uncrowded, Ending, Commanding, Muting, Restricting,
                  Refusing, Unmuting, Freeing
  <2> QED
    BY <2>1
<1> QED
  BY <1>1, <1>4, <1>5, <1>6, <1>7 DEF EInv

\* A step that begins a job leaves the types alone if the records are typed.
LEMMA BeginTyped ==
  ASSUME EInv, NEW w \in Workers, NEW j, NEW k, NEW why, TakesOn(w, j, k, why),
         rec' \in [Chats -> Record], cache' \in [Chats -> Record], Dated',
         issued' \in 0 .. MaxMutes, faults' \in 0 .. MaxFaults
  PROVE  Typed'
<1>1. Begun(w, j, k, why)
  BY TakesOnIs
<1>2. Jobs' /\ upset' \in [Chats -> SUBSET Reasons]
  BY <1>1 DEF Begun
<1>3. everywhere' = everywhere /\ now' = now /\ tg' = tg /\ TypeOK
  BY DEF TakesOn, EInv, Typed
<1>4. job' \in [Workers -> Job] /\ \A v \in Workers :
        job'[v].todo # {} <=> job'[v].step \in {"restrict", "free"}
  BY <1>2 DEF Jobs, Formed
<1> QED
  BY <1>2, <1>3, <1>4 DEF Typed, TypeOK

\* Mute, for every handler that calls it.
LEMMA MuteKeeps ==
  ASSUME EInv, NEW w \in Workers, NEW c \in Chats, NEW is \in {"plain", "cruel"},
         NEW u \in Nat, u <= Forever, Mute(w, c, is, u)
  PROVE  EInv'
<1> DEFINE r == [is |-> is, until |-> u]
           over == IF is = "cruel" /\ \E t \in Targets(c) : Restricted(t)
                   THEN {"recast"} ELSE {}
<1>1. TypeOK /\ Jobs /\ Dated /\ everywhere \in BOOLEAN
  BY DEF EInv, Typed, TypeOK
<1>2. r \in Record /\ r.is = is /\ r.until = u
  BY RecordTyped
<1>3. PICK j \in Job : /\ j = MuteJob(c, u) /\ j.task = "mute" /\ j.step = "restrict"
                       /\ j.chat = c /\ j.until = u /\ j.todo = Targets(c) /\ ~j.refused
                       /\ j.list = {} /\ j.harsh = {} /\ Busy(j) = {c} /\ Formed(j)
                       /\ Chats \cap (j.list \cup {j.chat}) = Busy(j)
  BY <1>1, MuteJobIs
<1>4. /\ Issue(w) /\ rec' = [rec EXCEPT ![c] = r]
      /\ everywhere' = everywhere /\ now' = now /\ tg' = tg
      /\ \/ /\ cache' = [cache EXCEPT ![c] = r]
            /\ Begin(w, j, IF is = "cruel" THEN NoJob ELSE j, over)
            /\ UNCHANGED faults
         \/ Fault /\ Begin(w, j, NoJob, {"torn"}) /\ UNCHANGED cache
  BY <1>3 DEF Mute
<1> HIDE DEF r
<1>5. /\ rec' \in [Chats -> Record] /\ rec'[c] = r
      /\ cache' \in [Chats -> Record]
      /\ \A t \in Chats \ {c} : rec'[t] = rec[t] /\ cache'[t] = cache[t]
      /\ Dated'
  <2>1. /\ rec' \in [Chats -> Record] /\ rec'[c] = r
        /\ \A t \in Chats \ {c} : rec'[t] = rec[t]
    BY <1>1, <1>2, <1>4 DEF TypeOK
  <2>2. /\ cache' \in [Chats -> Record]
        /\ \A t \in Chats \ {c} : cache'[t] = cache[t]
    BY <1>1, <1>2, <1>4 DEF TypeOK
  <2>3. Dated'
    BY <1>1, <1>2, <2>1 DEF Dated
  <2> QED
    BY <2>1, <2>2, <2>3
<1>6. issued' \in 0 .. MaxMutes /\ faults' \in 0 .. MaxFaults
  BY <1>1, <1>4, Numbers DEF Issue, Fault, TypeOK
<1>7. ASSUME NEW k \in {j, NoJob}, NEW why \in SUBSET Reasons, Begin(w, j, k, why)
      PROVE  TakesOn(w, j, k, why) /\ Typed'
  <2>1. TakesOn(w, j, k, why)
    BY <1>3, <1>4, <1>5, <1>7, NoJobIs DEF TakesOn
  <2> QED
    BY <2>1, <1>5, <1>6, BeginTyped
<1>8. CASE Fault /\ Begin(w, j, NoJob, {"torn"}) /\ UNCHANGED cache
  <2>1. TakesOn(w, j, NoJob, {"torn"}) /\ Typed'
    BY <1>7, <1>8 DEF Reasons
  <2>2. Begun(w, j, NoJob, {"torn"})
    BY <2>1, TakesOnIs
  <2>3. \A t \in Chats, d \in Busy(j) : Near(d, t) => Torn(t)' /\ ~Quiet(t)' /\ ~Clean(t)'
    BY <2>2 DEF Begun, Torn, Quiet, Clean
  <2>4. \A d \in Busy(j) : Torn(d)' /\ ~Clean(d)'
    BY <2>3, <1>3, NearIs, <1>4
  <2> QED
    BY <2>1, <2>3, <2>4, BeginKeeps
<1>9. CASE /\ cache' = [cache EXCEPT ![c] = r]
           /\ Begin(w, j, IF is = "cruel" THEN NoJob ELSE j, over)
           /\ UNCHANGED faults
  <2>1. PICK k \in {j, NoJob} : k = IF is = "cruel" THEN NoJob ELSE j
    OBVIOUS
  <2>2. over \in SUBSET Reasons
    BY DEF Reasons
  <2>3. TakesOn(w, j, k, over) /\ Typed'
    BY <1>7, <1>9, <2>1, <2>2
  <2>4. Begun(w, j, k, over)
    BY <2>3, TakesOnIs
  <2>5. cache'[c] = r /\ rec'[c] = r
    BY <1>1, <1>5, <1>9 DEF TypeOK
  <2>6. Sync(c)'
    BY <2>5 DEF Sync
  <2>7. ASSUME NEW t \in Chats, Near(c, t), Quiet(t)', Restricted(t)'
        PROVE  Accounts(t)'
    <3>1. CASE is = "plain"
      <4>1. cache'[c].is = "plain" /\ Near(c, t)'
        BY <1>2, <1>4, <2>5, <2>7, <3>1, NearIs
      <4> QED
        BY <4>1 DEF Accounts
    <3>2. CASE is = "cruel"
      <4>1. t \in Targets(c) /\ Restricted(t)
        BY <1>1, <1>4, <2>7, TargetsAre DEF Restricted
      <4>2. "recast" \in over
        BY <3>2, <4>1
      <4>3. "recast" \in upset'[t] \/ Torn(t)'
        BY <1>3, <2>4, <2>7, <4>2 DEF Begun
      <4> QED
        BY <2>7, <4>3 DEF Quiet, Torn
    <3> QED
      BY <3>1, <3>2
  <2>8. k = NoJob => Carried(c)'
    <3>1. k = NoJob => is = "cruel"
      BY <1>3, <2>1, NoJobIs
    <3>2. is = "cruel" => rec'[c].is # "plain"
      BY <1>2, <2>5
    <3> QED
      BY <3>1, <3>2 DEF Carried
  <2>9. k # NoJob => Knows(job[w])'
    <3> SUFFICES ASSUME k # NoJob
                 PROVE  Knows(job[w])'
      OBVIOUS
    <3>1. k = j /\ is = "plain"
      BY <2>1
    <3>2. /\ job'[w].task = "mute" /\ job'[w].step = "restrict" /\ job'[w].chat = c
          /\ job'[w].until = u /\ job'[w].todo = Targets(c)
          /\ ~job'[w].refused /\ Busy(job[w])' = {c}
      BY <1>3, <2>3, <3>1, TakesOnIs
    <3>3. Uncrowded(job[w])'
      <4>1. Crowded(c)' => Crowded(c)
        BY <1>4, <1>5 DEF Crowded
      <4>2. Crowded(c) => ~Clean(c)'
        BY <1>3, <1>4, <2>4, NearIs DEF Begun
      <4> QED
        BY <3>2, <4>1, <4>2 DEF Uncrowded
    <3>4. Ending(job[w])' /\ Commanding(job[w])'
      BY <3>2 DEF Ending, Commanding
    <3>5. Muting(job[w])'
      BY <2>5, <2>6, <3>1, <3>2 DEF Muting, r, Sync, Active, Expired
    <3>6. Restricting(job[w])'
      <4>1. \A t \in Chats : Near(c, t)' => t \in Targets(c)
        BY <1>1, <1>4, TargetsAre, NearIs
      <4> QED
        BY <3>2, <4>1 DEF Restricting, Near
    <3>7. Refusing(job[w])' /\ Unmuting(job[w])' /\ Freeing(job[w])'
      BY <3>2 DEF Refusing, Unmuting, Freeing
    <3> QED
      BY <3>3, <3>4, <3>5, <3>6, <3>7 DEF Knows
  <2> QED
    BY <1>3, <2>3, <2>6, <2>7, <2>8, <2>9, BeginKeeps
<1> QED
  BY <1>4, <1>8, <1>9

\* The two commands of the super-admin: no record is touched, the chat is torn.
LEMMA CommandKeeps ==
  ASSUME EInv, NEW w \in Workers, NEW c \in Chats, NEW j \in Job,
         j.task = "command", j.chat = c, j.step \in {"restrict", "free"}, ~j.refused,
         Busy(j) = {c}, Formed(j), Chats \cap (j.list \cup {j.chat}) = Busy(j),
         Begin(w, j, j, {"torn"}), issued' \in 0 .. MaxMutes,
         UNCHANGED <<everywhere, now, rec, cache, tg, faults>>
  PROVE  EInv'
<1>1. TypeOK /\ Jobs /\ Dated
  BY DEF EInv, Typed, TypeOK
<1>2. {"torn"} \in SUBSET Reasons /\ j # NoJob /\ j.step # "idle"
  BY NoJobIs DEF Reasons
<1>3. TakesOn(w, j, j, {"torn"})
  BY <1>2 DEF TakesOn
<1>4. Typed'
  <2>1. /\ rec' \in [Chats -> Record] /\ cache' \in [Chats -> Record] /\ Dated'
        /\ faults' \in 0 .. MaxFaults
    BY <1>1 DEF TypeOK, Dated
  <2> QED
    BY <1>3, <2>1, BeginTyped
<1>5. Begun(w, j, j, {"torn"})
  BY <1>3, TakesOnIs
<1>6. \A t \in Chats, d \in Busy(j) : Near(d, t) => Torn(t)' /\ ~Quiet(t)' /\ ~Clean(t)'
  BY <1>5 DEF Begun, Torn, Quiet, Clean
<1>7. Torn(c)' /\ ~Clean(c)'
  BY <1>6, NearIs
<1>8. Knows(job[w])'
  <2>1. /\ job'[w].task = "command" /\ job'[w].step = j.step /\ job'[w].chat = c
        /\ ~job'[w].refused /\ Busy(job[w])' = {c}
    BY <1>3, TakesOnIs
  <2> QED
    BY <1>7, <2>1 DEF Knows, Uncrowded, Ending, Commanding, Muting, Restricting,
                       Refusing, Unmuting, Freeing
<1>9. /\ \A d \in Busy(j) : ~Torn(d)' => Sync(d)'
      /\ \A t \in Chats, d \in Busy(j) :
            Near(d, t) /\ Quiet(t)' /\ Restricted(t)' => Accounts(t)'
      /\ j = NoJob => \A d \in Busy(j) : Clean(d)' => Carried(d)'
      /\ j # NoJob => Knows(job[w])'
  BY <1>2, <1>6, <1>7, <1>8
<1> QED
  BY <1>3, <1>4, <1>9, BeginKeeps

\* Both ways to unmute, and their failures.
LEMMA UnmuteKeeps ==
  ASSUME EInv, NEW w \in Workers, NEW c \in Chats, NEW k \in {UnmuteJob(c), NoJob},
         NEW why \in SUBSET Reasons, Begin(w, UnmuteJob(c), k, why),
         rec' = [rec EXCEPT ![c] = None],
         \/ why = {"torn"} /\ k = NoJob
         \/ cache' = [cache EXCEPT ![c] = None] /\ k = UnmuteJob(c)
         \/ cache' = [cache EXCEPT ![c] = None] /\ rec[c] = None /\ cache[c] = None,
         cache' = cache \/ cache' = [cache EXCEPT ![c] = None],
         faults' = faults \/ Fault,
         UNCHANGED <<everywhere, now, tg, issued>>
  PROVE  EInv'
<1>1. TypeOK /\ Jobs /\ Dated /\ everywhere \in BOOLEAN
  BY DEF EInv, Typed, TypeOK
<1>2. PICK j \in Job : /\ j = UnmuteJob(c) /\ j.task = "unmute" /\ j.step = "free"
                       /\ j.chat = c /\ j.todo = Targets(c) /\ ~j.refused
                       /\ j.list = {} /\ j.harsh = {} /\ Busy(j) = {c} /\ Formed(j)
                       /\ Chats \cap (j.list \cup {j.chat}) = Busy(j)
  BY <1>1, UnmuteJobIs
<1>3. /\ rec' \in [Chats -> Record] /\ rec'[c] = None
      /\ cache' \in [Chats -> Record]
      /\ \A t \in Chats \ {c} : rec'[t] = rec[t] /\ cache'[t] = cache[t]
      /\ Dated'
  <2>1. /\ rec' \in [Chats -> Record] /\ rec'[c] = None
        /\ \A t \in Chats \ {c} : rec'[t] = rec[t]
    BY <1>1, NoneTyped DEF TypeOK
  <2>2. /\ cache' \in [Chats -> Record]
        /\ \A t \in Chats \ {c} : cache'[t] = cache[t]
    BY <1>1, NoneTyped DEF TypeOK
  <2>3. Dated'
    BY <1>1, <2>1, NoneTyped, Numbers DEF Dated
  <2> QED
    BY <2>1, <2>2, <2>3
<1>4. issued' \in 0 .. MaxMutes /\ faults' \in 0 .. MaxFaults
  BY <1>1, Numbers DEF Fault, TypeOK
<1>5. TakesOn(w, j, k, why)
  BY <1>2, <1>3, NoJobIs DEF TakesOn
<1>6. Typed'
  BY <1>3, <1>4, <1>5, BeginTyped
<1>7. Begun(w, j, k, why)
  BY <1>5, TakesOnIs
<1>8. Carried(c)'
  BY <1>3 DEF Carried, Active
<1>9. CASE why = {"torn"} /\ k = NoJob
  <2>1. \A t \in Chats, d \in Busy(j) : Near(d, t) => Torn(t)' /\ ~Quiet(t)'
    BY <1>7, <1>9 DEF Begun, Torn, Quiet
  <2>2. Torn(c)'
    BY <1>2, <2>1, NearIs
  <2> QED
    BY <1>2, <1>5, <1>6, <1>8, <1>9, <2>1, <2>2, BeginKeeps
<1>10. CASE cache' = [cache EXCEPT ![c] = None] /\ k = UnmuteJob(c)
  <2>1. cache'[c] = None
    BY <1>1, <1>10 DEF TypeOK
  <2>2. k = j /\ k # NoJob
    BY <1>2, <1>10, NoJobIs
  <2>3. /\ job'[w].task = "unmute" /\ job'[w].step = "free" /\ job'[w].chat = c
        /\ job'[w].todo = Targets(c) /\ ~job'[w].refused /\ Busy(job[w])' = {c}
    BY <1>2, <1>5, <2>2, TakesOnIs
  <2>4. Sync(c)'
    BY <1>3, <2>1 DEF Sync, Active
  <2>5. \A t \in Chats : Near(c, t) => t \in Targets(c)
    BY <1>1, TargetsAre
  <2>6. \A t \in Chats : Near(c, t) => Accounts(t)'
    BY <2>3, <2>5 DEF Accounts
  <2>7. Knows(job[w])'
    <3>1. Uncrowded(job[w])'
      <4>1. Crowded(c)' => Crowded(c)
        BY <1>3 DEF Crowded
      <4>2. Crowded(c) => ~Clean(c)'
        BY <1>2, <1>7, NearIs DEF Begun
      <4> QED
        BY <2>3, <4>1, <4>2 DEF Uncrowded
    <3>2. Unmuting(job[w])'
      BY <1>3, <2>1, <2>3 DEF Unmuting
    <3>3. Freeing(job[w])'
      <4>1. \A t \in Chats : Near(c, t)' => t \in Targets(c)
        BY <2>5, NearIs
      <4> QED
        BY <2>3, <4>1 DEF Freeing, Near
    <3> QED
      BY <2>3, <3>1, <3>2, <3>3 DEF Knows, Ending, Commanding, Muting, Restricting, Refusing
  <2> QED
    BY <1>2, <1>5, <1>6, <2>2, <2>4, <2>6, <2>7, BeginKeeps
<1>11. CASE /\ cache' = [cache EXCEPT ![c] = None] /\ rec[c] = None /\ cache[c] = None
            /\ k = NoJob
  <2>1. cache' = cache /\ rec' = rec
    BY <1>1, <1>11 DEF TypeOK
  <2>2. Sync(c)'
    BY <1>11, <2>1 DEF Sync, Active
  <2>3. ASSUME NEW t \in Chats, Quiet(t)', Restricted(t)'
        PROVE  Accounts(t)'
    <3>1. Quiet(t) /\ Restricted(t)
      BY <1>5, <2>3, TakesOnIs DEF Restricted
    <3>2. CASE \E e \in Chats : Near(e, t) /\ cache[e].is = "plain"
      BY <2>1, <3>2 DEF Accounts, Near
    <3>3. CASE \E v \in Workers : job[v].step = "free" /\ t \in job[v].todo
      <4>1. PICK v \in Workers : job[v].step = "free" /\ t \in job[v].todo
        BY <3>3
      <4>2. v # w
        BY <1>7, <4>1, NoJobIs DEF Begun
      <4>3. job'[v].step = "free" /\ t \in job'[v].todo
        BY <1>5, <4>1, <4>2, TakesOnIs
      <4> QED
        BY <4>3 DEF Accounts
    <3> QED
      BY <3>1, <3>2, <3>3 DEF EInv, Accounted
  <2> QED
    BY <1>2, <1>5, <1>6, <1>8, <1>11, <2>2, <2>3, BeginKeeps
<1> QED
  BY <1>9, <1>10, <1>11

\* The checker, and whoever else calls CheckExpiredMutes.
LEMMA ExpireKeeps ==
  ASSUME EInv, NEW w \in Workers, CheckExpiredMutes(w)
  PROVE  EInv'
<1> DEFINE L == {c \in Chats : Expired(cache[c])}
           H == {c \in L : cache[c].is = "cruel"}
<1>1. TypeOK /\ Jobs /\ Dated
  BY DEF EInv, Typed, TypeOK
<1>2. PICK j \in Job : /\ j = ExpireJob(L, H)
                       /\ j.task = "expire" /\ j.step = "next" /\ j.todo = {}
                       /\ ~j.refused /\ j.list = L /\ j.harsh = H /\ Busy(j) = L
                       /\ Formed(j) /\ Chats \cap (j.list \cup {j.chat}) = Busy(j)
  <2>1. L # {}
    BY DEF CheckExpiredMutes
  <2>2. L \in SUBSET Chats /\ H \in SUBSET Chats
    OBVIOUS
  <2> HIDE DEF L, H
  <2> QED
    BY <2>1, <2>2, ExpireJobIs
<1>3. Begin(w, j, j, {}) /\ UNCHANGED <<everywhere, now, rec, cache, tg, issued, faults>>
  BY <1>2 DEF CheckExpiredMutes, ExpireJob
<1> HIDE DEF L, H
<1>4. j # NoJob /\ j.step # "idle" /\ L \subseteq Chats
  BY <1>2, NoJobIs DEF L
<1>5. TakesOn(w, j, j, {})
  BY <1>2, <1>3, <1>4 DEF TakesOn
<1>6. Typed'
  <2>1. /\ rec' \in [Chats -> Record] /\ cache' \in [Chats -> Record] /\ Dated'
        /\ faults' \in 0 .. MaxFaults /\ issued' \in 0 .. MaxMutes
    BY <1>1, <1>3 DEF TypeOK, Dated
  <2> QED
    BY <1>5, <2>1, BeginTyped
<1>7. Begun(w, j, j, {})
  BY <1>5, TakesOnIs
<1>8. \A t \in Chats : (Torn(t) => Torn(t)') /\ (Quiet(t)' => Quiet(t))
  BY <1>5, TakesOnIs
<1>9. ASSUME NEW c \in Chats, ~Torn(c)'
      PROVE  Sync(c)' /\ Sync(c)
  <2>1. Sync(c)
    BY <1>8, <1>9 DEF EInv, Synced
  <2> QED
    BY <1>3, <2>1 DEF Sync, Active, Expired
<1>10. ASSUME NEW t \in Chats, Quiet(t)', Restricted(t)'
       PROVE  Accounts(t)'
  <2>1. Quiet(t) /\ Restricted(t)
    BY <1>3, <1>8, <1>10 DEF Restricted
  <2>2. CASE \E e \in Chats : Near(e, t) /\ cache[e].is = "plain"
    BY <1>3, <2>2 DEF Accounts, Near
  <2>3. CASE \E v \in Workers : job[v].step = "free" /\ t \in job[v].todo
    <3>1. PICK v \in Workers : job[v].step = "free" /\ t \in job[v].todo
      BY <2>3
    <3>2. v # w
      BY <1>7, <3>1, NoJobIs DEF Begun
    <3>3. job'[v].step = "free" /\ t \in job'[v].todo
      BY <1>5, <3>1, <3>2, TakesOnIs
    <3> QED
      BY <3>3 DEF Accounts
  <2> QED
    BY <2>1, <2>2, <2>3 DEF EInv, Accounted
<1>11. Knows(job[w])'
  <2>1. /\ job'[w].task = "expire" /\ job'[w].step = "next"
        /\ job'[w].harsh = H /\ Busy(job[w])' = L
    BY <1>2, <1>5, TakesOnIs
  <2>2. Uncrowded(job[w])'
    <3> SUFFICES ASSUME NEW c \in L, Clean(c)'
                 PROVE  ~Crowded(c)'
      BY <2>1 DEF Uncrowded
    <3>1. Crowded(c)' => Crowded(c)
      BY <1>3 DEF Crowded
    <3>2. Crowded(c) => ~Clean(c)'
      BY <1>2, <1>3, <1>4, <1>7, NearIs DEF Begun
    <3> QED
      BY <3>1, <3>2
  <2>3. Ending(job[w])'
    <3> SUFFICES ASSUME NEW c \in L, ~Torn(c)'
                 PROVE  /\ ~Active(rec[c])' /\ ~Active(cache[c])'
                        /\ c \in H => cache'[c].is # "plain"
      BY <2>1 DEF Ending
    <3>1. Sync(c) /\ Expired(cache[c]) /\ c \in Chats
      BY <1>4, <1>9 DEF L
    <3>2. cache[c].until \in Nat /\ now \in Nat /\ cache[c] # None
      BY <1>1, <3>1, RecordIs DEF TypeOK, Expired
    <3>3. ~Active(cache[c]) /\ ~Active(rec[c])
      BY <3>1, <3>2 DEF Sync, Active, Expired
    <3> QED
      BY <1>3, <3>3 DEF Active, H
  <2> QED
    BY <2>1, <2>2, <2>3 DEF Knows, Commanding, Muting, Restricting, Refusing,
                            Unmuting, Freeing
<1>12. /\ \A d \in Busy(j) : ~Torn(d)' => Sync(d)'
       /\ \A t \in Chats, d \in Busy(j) :
             Near(d, t) /\ Quiet(t)' /\ Restricted(t)' => Accounts(t)'
       /\ j = NoJob => \A d \in Busy(j) : Clean(d)' => Carried(d)'
       /\ j # NoJob => Knows(job[w])'
  BY <1>2, <1>4, <1>9, <1>10, <1>11
<1> QED
  BY <1>5, <1>6, <1>12, BeginKeeps

---------------------------------------------------------------------------
(* The steps that go on with a job.                                        *)

\* A step that goes on has to answer for what is near one chat of the job.
LEMMA GoOnKeeps ==
  ASSUME EInv, NEW w \in Workers, NEW l \in Job, NEW e \in Chats, Formed(l),
         GoesOn(w, l, e), Busy(job[w]) \subseteq Busy(l) \cup {e},
         rec' \in [Chats -> Record], cache' \in [Chats -> Record], Dated',
         tg' \in [Chats -> Nat], faults' \in 0 .. MaxFaults, issued' = issued,
         upset' \in [Chats -> SUBSET Reasons], Uniform',
         job[w].step = "free" => e = job[w].chat,
         \A t \in Chats : Near(e, t) => (~Torn(t)' => Sync(t)'),
         \A t \in Chats : Near(e, t) => (Quiet(t)' /\ Restricted(t)' => Accounts(t)'),
         \A t \in Chats : Near(e, t) => (Clean(t)' /\ Idle(t)' => Carried(t)'),
         Knows(job[w])'
  PROVE  EInv'
<1>1. /\ everywhere' = everywhere /\ now' = now
      /\ e \in Busy(job[w])
      /\ \A t \in Chats : ~Near(e, t) => Same(t)
  BY DEF GoesOn
<1>2. /\ Jobs' /\ Apart' /\ job'[w] = l
      /\ \A v \in Workers : v # w => job'[v] = job[v] /\ Knows(job[v])'
  BY OthersGoOn
<1>3. TypeOK /\ Jobs /\ Synced /\ Accounted /\ MutesCarried
  BY DEF EInv, Typed
<1>4. Typed'
  <2>1. job' \in [Workers -> Job] /\ \A v \in Workers :
          job'[v].todo # {} <=> job'[v].step \in {"restrict", "free"}
    BY <1>2 DEF Jobs, Formed
  <2> QED
    BY <1>1, <1>2, <1>3, <2>1 DEF Typed, TypeOK
<1>5. Synced'
  <2> SUFFICES ASSUME NEW t \in Chats, ~Torn(t)'
               PROVE  Sync(t)'
    BY DEF Synced
  <2>1. CASE ~Near(e, t)
    BY <1>1, <1>3, <2>1 DEF Synced, Same, Torn, Sync, Active, Expired
  <2> QED
    BY <2>1
<1>6. Accounted'
  <2> SUFFICES ASSUME NEW t \in Chats, Quiet(t)', Restricted(t)'
               PROVE  Accounts(t)'
    BY DEF Accounted, Accounts
  <2>1. CASE ~Near(e, t)
    <3>1. Quiet(t) /\ Restricted(t)
      BY <1>1, <2>1 DEF Same, Quiet, Restricted
    <3>2. CASE \E c \in Chats : Near(c, t) /\ cache[c].is = "plain"
      <4>1. PICK c \in Chats : Near(c, t) /\ cache[c].is = "plain"
        BY <3>2
      <4>2. ~Near(e, c)
        BY <1>1, <2>1, <4>1, NearIs
      <4>3. Near(c, t)' /\ cache'[c].is = "plain"
        BY <1>1, <4>1, <4>2, NearIs DEF Same
      <4> QED
        BY <4>3 DEF Accounts
    <3>3. CASE \E v \in Workers : job[v].step = "free" /\ t \in job[v].todo
      <4>1. PICK v \in Workers : job[v].step = "free" /\ t \in job[v].todo
        BY <3>3
      <4>2. CASE v # w
        BY <1>2, <4>1, <4>2 DEF Accounts
      <4>3. CASE v = w
        <5>1. Near(job[w].chat, t)
          BY <1>3, <4>1, <4>3 DEF Jobs, Formed
        <5> QED
          BY <5>1, <2>1, <4>1, <4>3
      <4> QED
        BY <4>2, <4>3
    <3> QED
      BY <1>3, <3>1, <3>2, <3>3 DEF Accounted
  <2> QED
    BY <2>1
<1>7. MutesCarried'
  <2> SUFFICES ASSUME NEW t \in Chats, Clean(t)', Idle(t)'
               PROVE  Carried(t)'
    BY DEF MutesCarried
  <2>1. CASE ~Near(e, t)
    <3>1. Idle(t)
      <4> SUFFICES ASSUME NEW v \in Workers, NEW d \in Busy(job[v]), Near(d, t)
                   PROVE  FALSE
        BY DEF Idle
      <4>1. d \in Busy(job'[v])
        <5>1. CASE v # w
          BY <1>2, <5>1
        <5>2. CASE v = w
          <6>1. d # e
            BY <2>1
          <6> QED
            BY <1>2, <5>2, <6>1
        <5> QED
          BY <5>1, <5>2
      <4>2. d \in Busy(job[v])' /\ Near(d, t)'
        BY <1>1, <4>1, NearIs DEF Busy
      <4> QED
        BY <4>2 DEF Idle
    <3>2. Carried(t)
      BY <1>1, <1>3, <2>1, <3>1 DEF MutesCarried, Same, Clean
    <3>3. \A u \in Chats : Near(t, u) => Same(u)
      BY <1>1, <2>1, NearIs
    <3>4. Same(t)
      BY <1>1, <2>1
    <3>5. \A u \in Chats : Near(t, u)' => Near(t, u)
      BY <1>1, NearIs
    <3> QED
      BY <1>1, <3>2, <3>3, <3>4, <3>5 DEF Carried, Active, Same
  <2> QED
    BY <2>1
<1> QED
  BY <1>2, <1>4, <1>5, <1>6, <1>7 DEF EInv

\* A job in a chat: what its invariants say, in one place.
LEMMA JobKnows ==
  ASSUME EInv, NEW w \in Workers, NEW j \in Job, j = job[w], j.step \notin {"idle", "next"}
  PROVE  /\ Formed(j) /\ Knows(j) /\ j.chat \in Chats /\ j.chat \in Busy(j)
         /\ Busy(j) = j.list \cup {j.chat} /\ Busy(j) \subseteq Chats
         /\ everywhere \in BOOLEAN /\ now \in Nat
         /\ rec \in [Chats -> Record] /\ cache \in [Chats -> Record]
         /\ tg \in [Chats -> Nat] /\ upset \in [Chats -> SUBSET Reasons]
         /\ issued \in 0 .. MaxMutes /\ faults \in 0 .. MaxFaults
         /\ \A u \in Chats : Near(j.chat, u) => (Torn(u) <=> Torn(j.chat))
         /\ \A u \in Chats : Near(j.chat, u) => (Clean(u) <=> Clean(j.chat))
         /\ \A u \in Chats : Torn(u) => ~Quiet(u) /\ ~Clean(u)
         /\ \A u \in Chats : /\ Near(j.chat, u) /\ u # j.chat
                             /\ ~Crowded(j.chat)
                             => rec[u] = None /\ cache[u] = None
<1>1. TypeOK /\ Jobs /\ Uniform /\ Knows(j)
  BY DEF EInv, Typed
<1>2. Formed(j) /\ j.chat \in Chats
  BY <1>1 DEF Jobs, Formed
<1>3. Busy(j) = j.list \cup {j.chat} /\ Busy(j) \subseteq Chats /\ j.chat \in Busy(j)
  BY <1>2, BusyChats DEF Busy
<1>4. now \in Nat
  BY <1>1, Numbers DEF TypeOK
<1>5. \A u \in Chats : Torn(u) => ~Quiet(u) /\ ~Clean(u)
  BY DEF Torn, Quiet, Clean
<1>6. \A u \in Chats : Near(j.chat, u) /\ u # j.chat /\ ~Crowded(j.chat)
                       => rec[u] = None /\ cache[u] = None
  BY DEF Crowded, Near
<1> QED
  BY <1>1, <1>2, <1>3, <1>4, <1>5, <1>6 DEF TypeOK, Uniform

\* A restriction that step k leaves accounted for.
LEMMA AccountsStill ==
  ASSUME EInv, NEW w \in Workers, job[w].step # "free", NEW t \in Chats, Accounts(t),
         \A v \in Workers : v # w => job'[v] = job[v], everywhere' = everywhere,
         \A c \in Chats : Near(c, t) /\ cache[c].is = "plain" => cache'[c].is = "plain"
  PROVE  Accounts(t)'
<1>1. CASE \E c \in Chats : Near(c, t) /\ cache[c].is = "plain"
  BY <1>1, NearIs DEF Accounts
<1>2. CASE \E v \in Workers : job[v].step = "free" /\ t \in job[v].todo
  <2>1. PICK v \in Workers : job[v].step = "free" /\ t \in job[v].todo
    BY <1>2
  <2>2. job'[v] = job[v]
    BY <2>1
  <2> QED
    BY <2>1, <2>2 DEF Accounts
<1> QED
  BY <1>1, <1>2 DEF Accounts

\* A job in its next step.
LEMMA StepIs ==
  ASSUME NEW j \in Job, NEW s \in Steps
  PROVE  \E m \in Job :
           /\ m = [j EXCEPT !.step = s]
           /\ m.task = j.task /\ m.step = s /\ m.chat = j.chat
           /\ m.until = j.until /\ m.todo = j.todo
           /\ m.refused <=> j.refused
           /\ m.list = j.list /\ m.harsh = j.harsh /\ m.sole = j.sole
<1> DEFINE m == [j EXCEPT !.step = s]
<1>1. m \in Job
  BY DEF Job
<1>2. /\ m.task = j.task /\ m.step = s /\ m.chat = j.chat
      /\ m.until = j.until /\ m.todo = j.todo
      /\ m.refused <=> j.refused
      /\ m.list = j.list /\ m.harsh = j.harsh /\ m.sole = j.sole
  BY DEF Job
<1> QED
  BY <1>1, <1>2

LEMMA UntilIs ==
  ASSUME NEW u \in Nat, u <= Forever
  PROVE  TelegramUntil(u) \in Nat /\ TelegramUntil(u) >= u
BY Numbers DEF TelegramUntil

LEMMA IdleKnows ==
  ASSUME NEW w \in Workers, job'[w] = NoJob
  PROVE  Knows(job[w])'
<1>1. Busy(job[w])' = {} /\ job'[w].step = "idle" /\ job'[w].task = "none"
  BY NoJobIs DEF Busy
<1> QED
  BY <1>1 DEF Knows, Uncrowded, Ending, Commanding, Muting, Restricting, Refusing,
              Unmuting, Freeing

LEMMA RestrictKeeps ==
  ASSUME EInv, NEW w \in Workers, RestrictNext(w)
  PROVE  EInv'
<1>1. PICK j \in Job : j = job[w]
  BY DEF EInv, Typed, Jobs
<1>2. j.step = "restrict" /\ j.step \notin {"idle", "next"}
  BY <1>1 DEF RestrictNext, At
<1>3. /\ Formed(j) /\ Knows(j) /\ j.chat \in Chats /\ j.chat \in Busy(j)
      /\ everywhere \in BOOLEAN /\ now \in Nat
      /\ rec \in [Chats -> Record] /\ cache \in [Chats -> Record]
      /\ tg \in [Chats -> Nat] /\ upset \in [Chats -> SUBSET Reasons]
      /\ issued \in 0 .. MaxMutes /\ faults \in 0 .. MaxFaults
      /\ \A u \in Chats : Near(j.chat, u) => (Torn(u) <=> Torn(j.chat))
      /\ \A u \in Chats : Near(j.chat, u) => (Clean(u) <=> Clean(j.chat))
      /\ \A u \in Chats : Torn(u) => ~Quiet(u) /\ ~Clean(u)
  BY <1>1, <1>2, JobKnows
<1>4. \A u \in Chats : Near(j.chat, u) /\ u # j.chat /\ ~Crowded(j.chat)
                       => rec[u] = None /\ cache[u] = None
  BY <1>1, <1>2, JobKnows
<1>5. PICK c \in Chats : c = j.chat
  BY <1>3
<1>6. j.task \in {"mute", "command"} /\ j.list = {} /\ j.harsh = {} /\ Busy(j) = {c}
      /\ \A t \in j.todo : t \in Chats /\ Near(c, t)
  BY <1>2, <1>3, <1>5, JobIs DEF Formed, Busy
<1>7. PICK t \in j.todo, ok \in BOOLEAN :
         LET left == [j EXCEPT !.todo = @ \ {t}, !.refused = @ \/ ~ok]
             last == left.todo = {}
         IN  /\ Goto(w, IF last THEN AfterRestrict(left) ELSE left)
             /\ IF ok
                THEN /\ tg' = [tg EXCEPT ![t] = TelegramUntil(j.until)]
                     /\ upset' = IF last /\ j.task = "mute"
                                 THEN Settled(left) ELSE upset
                     /\ UNCHANGED faults
                ELSE /\ Fault
                     /\ upset' = Mark(Targets(j.chat), {"refused"})
                     /\ UNCHANGED tg
  BY <1>1 DEF RestrictNext
<1>8. UNCHANGED <<everywhere, now, rec, cache, issued>>
  BY DEF RestrictNext
<1>11. t \in Chats /\ Near(c, t)
  BY <1>6
<1>9. PICK m \in Job :
           /\ m = [j EXCEPT !.todo = @ \ {t}, !.refused = @ \/ ~ok]
           /\ m.task = j.task /\ m.step = j.step /\ m.chat = j.chat
           /\ m.until = j.until /\ m.todo = j.todo \ {t}
           /\ m.refused <=> j.refused \/ ~ok
           /\ m.list = j.list /\ m.harsh = j.harsh /\ m.sole = j.sole
  <2> DEFINE i == [j EXCEPT !.todo = @ \ {t}, !.refused = @ \/ ~ok]
  <2>1. i \in Job
    BY DEF Job
  <2>2. /\ i.task = j.task /\ i.step = j.step /\ i.chat = j.chat
        /\ i.until = j.until /\ i.todo = j.todo \ {t}
        /\ i.refused <=> j.refused \/ ~ok
        /\ i.list = j.list /\ i.harsh = j.harsh /\ i.sole = j.sole
    BY DEF Job
  <2> QED
    BY <2>1, <2>2
<1>10. /\ job' = [job EXCEPT ![w] = IF m.todo = {} THEN AfterRestrict(m) ELSE m]
       /\ ok => /\ tg' = [tg EXCEPT ![t] = TelegramUntil(j.until)]
                /\ upset' = IF m.todo = {} /\ j.task = "mute" THEN Settled(m) ELSE upset
                /\ UNCHANGED faults
       /\ ~ok => /\ Fault /\ UNCHANGED tg
                 /\ upset' = Mark(Targets(c), {"refused"})
  BY <1>5, <1>7, <1>9 DEF Goto
\* The job as it is left.
<1>12. PICK l \in Job :
         /\ job' = [job EXCEPT ![w] = l]
         /\ \/ m.todo # {} /\ l = m
            \/ m.todo = {} /\ l = NoJob /\ ~(m.refused /\ m.task = "mute")
            \/ /\ m.todo = {} /\ m.refused /\ l.task = "mute" /\ j.task = "mute"
               /\ l.step = "rollback" /\ l.chat = c /\ l.until = j.until /\ l.todo = {}
               /\ l.refused /\ l.list = {} /\ l.harsh = {} /\ l.sole = j.sole
  <2>1. PICK i \in Job :
           /\ i = [m EXCEPT !.step = "rollback"]
           /\ i.task = m.task /\ i.step = "rollback" /\ i.chat = m.chat
           /\ i.until = m.until /\ i.todo = m.todo
           /\ i.refused <=> m.refused
           /\ i.list = m.list /\ i.harsh = m.harsh /\ i.sole = m.sole
    BY StepIs DEF Steps
  <2>2. CASE m.todo # {}
    BY <2>2, <1>10
  <2>3. CASE m.todo = {} /\ m.refused /\ m.task = "mute"
    <3>1. AfterRestrict(m) = i
      BY <2>1, <2>3 DEF AfterRestrict
    <3>2. job' = [job EXCEPT ![w] = i]
      BY <2>3, <3>1, <1>10
    <3>3. /\ i.task = "mute" /\ j.task = "mute" /\ i.step = "rollback" /\ i.chat = c
          /\ i.until = j.until /\ i.todo = {} /\ i.refused /\ i.list = {} /\ i.harsh = {}
          /\ i.sole = j.sole
      BY <2>1, <2>3, <1>5, <1>6, <1>9
    <3> QED
      BY <2>3, <3>2, <3>3
  <2>4. CASE m.todo = {} /\ ~(m.refused /\ m.task = "mute")
    BY <2>4, <1>10, NoJobIs DEF AfterRestrict
  <2> QED
    BY <2>2, <2>3, <2>4
<1>13. /\ Formed(l)
       /\ Busy(l) = {c} \/ l = NoJob
       /\ l.sole => j.sole \/ Busy(l) = {}
  <2>1. CASE m.todo # {} /\ l = m
    <3>1. Formed(m)
      BY <2>1, <1>2, <1>3, <1>5, <1>6, <1>9 DEF Formed
    <3> QED
      BY <2>1, <3>1, <1>2, <1>5, <1>6, <1>9 DEF Busy
  <2>2. CASE l = NoJob
    BY <2>2, NoJobIs
  <2>3. CASE /\ m.todo = {} /\ m.refused /\ l.task = "mute" /\ j.task = "mute"
             /\ l.step = "rollback" /\ l.chat = c /\ l.until = j.until /\ l.todo = {}
             /\ l.refused /\ l.list = {} /\ l.harsh = {} /\ l.sole = j.sole
    <3>1. j.until <= Forever
      BY <1>3 DEF Formed
    <3> QED
      BY <2>3, <3>1 DEF Formed, Busy
  <2> QED
    BY <2>1, <2>2, <2>3, <1>12
<1>14. /\ tg' \in [Chats -> Nat] /\ faults' \in 0 .. MaxFaults
       /\ \A u \in Chats : u # t => tg'[u] = tg[u]
       /\ ok => tg'[t] >= j.until
  <2>1. TelegramUntil(j.until) \in Nat /\ TelegramUntil(j.until) >= j.until
    BY <1>3, JobIs, UntilIs DEF Formed
  <2>2. faults' \in 0 .. MaxFaults
    BY <1>3, <1>10, Numbers DEF Fault
  <2> QED
    BY <2>1, <2>2, <1>3, <1>10, <1>11
\* What becomes of the marks.
<1>15. /\ upset' \in [Chats -> SUBSET Reasons] /\ Uniform'
       /\ \A u \in Chats : ~Near(c, u) => upset'[u] = upset[u]
       /\ ~ok => \A u \in Chats : Near(c, u) => ~Quiet(u)'
       /\ \/ \A u \in Chats : /\ Torn(u)' <=> Torn(u)
                              /\ Clean(u)' <=> Clean(u)
                              /\ Quiet(u)' => Quiet(u)
          \/ /\ ok /\ m.todo = {} /\ j.task = "mute" /\ j.sole /\ ~j.refused /\ ~Crowded(c)
             /\ l = NoJob
  <2>1. CASE ~ok
    <3>1. Targets(c) \in SUBSET Chats /\ \A u \in Chats : u \in Targets(c) <=> Near(c, u)
      BY <1>3, TargetsAre
    <3> QED
      BY <2>1, <3>1, <1>8, <1>10, MarkMild
  <2>2. CASE ok /\ upset' = upset
    <3>1. \A u \in Chats : /\ Torn(u)' <=> Torn(u)
                           /\ Clean(u)' <=> Clean(u)
                           /\ Quiet(u)' => Quiet(u)
      BY <2>2 DEF Torn, Clean, Quiet
    <3>2. Uniform'
      BY <3>1, <1>8, NearIs DEF EInv, Uniform
    <3> QED
      BY <2>2, <3>1, <3>2, <1>3
  <2>3. CASE ok /\ upset' # upset
    <3>1. upset' = Settled(m) /\ m.todo = {} /\ j.task = "mute" /\ m.chat = c
      BY <2>3, <1>5, <1>9, <1>10
    <3>2. /\ upset' \in [Chats -> SUBSET Reasons] /\ Uniform'
          /\ m.sole /\ ~m.refused /\ ~Crowded(c)
          /\ \A u \in Chats : ~Near(c, u) => upset'[u] = upset[u]
      BY <2>3, <3>1, <1>8, SettledIs
    <3>3. l = NoJob
      BY <3>1, <3>2, <1>12
    <3> QED
      BY <2>3, <3>1, <3>2, <3>3, <1>9
  <2> QED
    BY <2>1, <2>2, <2>3
<1>16. GoesOn(w, l, c)
  <2>1. \A u \in Chats : ~Near(c, u) => Same(u)
    BY <1>8, <1>11, <1>14, <1>15 DEF Same
  <2>2. \A u \in Chats : Torn(u) => Torn(u)' \/ (job[w].sole /\ Near(c, u))
    BY <1>1, <1>15 DEF Torn
  <2>3. Busy(l) \subseteq Busy(job[w]) /\ (l.sole => job[w].sole \/ Busy(l) = {})
    BY <1>1, <1>6, <1>13, NoJobIs
  <2> QED
    BY <2>1, <2>2, <2>3, <1>1, <1>3, <1>5, <1>8, <1>12 DEF GoesOn
<1>17. ASSUME NEW u \in Chats, Near(c, u), ~Torn(u)'
       PROVE  Sync(u)'
  <2>1. CASE ~Torn(u)
    <3>1. Sync(u)
      BY <2>1 DEF EInv, Synced
    <3> QED
      BY <3>1, <1>8 DEF Sync, Active, Expired
  <2>2. CASE Torn(u)
    <3>1. j.task = "mute" /\ j.sole /\ ~Crowded(c)
      BY <2>2, <1>15, <1>17
    <3>2. Sync(c)
      BY <3>1, <1>2, <1>3, <1>5 DEF Knows, Muting
    <3>3. CASE u = c
      BY <3>2, <3>3, <1>8 DEF Sync, Active, Expired
    <3>4. CASE u # c
      <4>1. rec[u] = None /\ cache[u] = None
        BY <3>1, <3>4, <1>4, <1>5, <1>17
      <4> QED
        BY <4>1, <1>8 DEF Sync, Active, Expired
    <3> QED
      BY <3>3, <3>4
  <2> QED
    BY <2>1, <2>2
<1>18. ASSUME NEW u \in Chats, Near(c, u), Quiet(u)', Restricted(u)'
       PROVE  Accounts(u)'
  <2>1. ok /\ j.task = "mute"
    <3>1. j.task = "command" => Torn(c)
      BY <1>3, <1>5 DEF Knows, Commanding
    <3>2. j.task = "command" => Torn(u)'
      BY <3>1, <1>3, <1>5, <1>15, <1>18
    <3>3. ~Torn(u)'
      BY <1>18 DEF Torn, Quiet
    <3> QED
      BY <3>2, <3>3, <1>6, <1>15, <1>18
  <2>2. j.sole \/ Quiet(u)
    BY <1>15, <1>18
  <2>3. cache[c] = [is |-> "plain", until |-> j.until]
    BY <2>1, <2>2, <1>2, <1>3, <1>5, <1>18 DEF Knows, Muting
  <2>4. cache'[c].is = "plain" /\ Near(c, u)'
    BY <2>3, <1>8, <1>18, NearIs
  <2> QED
    BY <2>4 DEF Accounts
<1>19. ASSUME NEW u \in Chats, Near(c, u), Clean(u)', Idle(u)'
       PROVE  Carried(u)'
  <2>1. l = NoJob
    <3>1. job'[w] = l
      BY <1>12 DEF EInv, Typed, TypeOK
    <3>2. Busy(l) = {c} => c \in Busy(job[w])' /\ Near(c, u)'
      BY <3>1, <1>8, <1>19, NearIs DEF Busy
    <3> QED
      BY <3>2, <1>13, <1>19 DEF Idle
  <2>2. j.task = "mute"
    <3>1. j.task = "command" => Torn(c)
      BY <1>3, <1>5 DEF Knows, Commanding
    <3>2. j.task = "command" => Torn(u)'
      BY <3>1, <1>3, <1>5, <1>15, <1>19
    <3> QED
      BY <3>2, <1>6, <1>19 DEF Torn, Clean
  <2>3. m.todo = {} /\ ok /\ ~j.refused
    BY <2>1, <2>2, <1>3, <1>9, <1>12, NoJobIs, <1>2
  <2>4. j.sole \/ Clean(c)
    BY <1>3, <1>5, <1>15, <1>19
  <2>5. ~Crowded(c) /\ (j.sole \/ ~Torn(c))
    BY <2>4, <1>3, <1>5, <1>15, <1>19 DEF Knows, Uncrowded
  <2>6. CASE u = c
    <3>1. rec[c] = None \/ rec[c] = [is |-> "plain", until |-> j.until]
      BY <2>2, <2>5, <1>2, <1>3, <1>5 DEF Knows, Muting
    <3>2. ASSUME NEW x \in Chats, Near(c, x)
          PROVE  tg'[x] >= j.until
      <4>1. CASE x = t
        BY <4>1, <2>3, <1>14
      <4>2. CASE x # t
        <5>1. x \notin j.todo
          BY <4>2, <2>3, <1>9
        <5>2. tg[x] >= j.until
          BY <2>2, <2>3, <2>5, <3>2, <5>1, <1>2, <1>3, <1>5 DEF Knows, Restricting
        <5> QED
          BY <4>2, <5>2, <1>14
      <4> QED
        BY <4>1, <4>2
    <3> QED
      BY <2>6, <3>1, <3>2, <1>8, NearIs DEF Carried, Active
  <2>7. CASE u # c
    <3>1. rec[u] = None
      BY <2>5, <2>7, <1>4, <1>5, <1>19
    <3> QED
      BY <3>1, <1>8 DEF Carried, Active
  <2> QED
    BY <2>6, <2>7
<1>20. Knows(job[w])'
  <2>1. job'[w] = l
    BY <1>12 DEF EInv, Typed, TypeOK
  <2>2. CASE l = NoJob
    BY <2>1, <2>2, IdleKnows
  <2>3. CASE l # NoJob
    <3>1. /\ l.task = j.task /\ l.chat = c /\ l.until = j.until
          /\ (l.step = "restrict" /\ l.todo = j.todo \ {t}) \/ l.step = "rollback"
          /\ l.refused <=> j.refused \/ ~ok
          /\ l.sole = j.sole /\ l.harsh = {} /\ Busy(l) = {c}
          /\ Busy(job[w])' = {c}
      <4>1. Busy(l) = {c}
        BY <2>3, <1>13
      <4>2. Busy(job[w])' = Busy(l)
        BY <2>1 DEF Busy
      <4> QED
        BY <4>1, <4>2, <2>3, <1>2, <1>5, <1>6, <1>9, <1>12
    <3>2. \A u \in Chats : /\ Torn(u)' <=> Torn(u)
                           /\ Clean(u)' <=> Clean(u)
                           /\ Quiet(u)' => Quiet(u)
      BY <2>3, <1>15
    <3>3. Uncrowded(job[w])' /\ Commanding(job[w])' /\ Ending(job[w])'
      <4>1. Crowded(c)' => Crowded(c)
        BY <1>8 DEF Crowded
      <4>2. /\ Clean(c) => ~Crowded(c)
            /\ j.task = "command" => Torn(c)
        BY <1>3, <1>5 DEF Knows, Uncrowded, Commanding
      <4> QED
        BY <2>1, <3>1, <3>2, <4>1, <4>2, <1>6 DEF Uncrowded, Commanding, Ending
    <3>4. Muting(job[w])'
      <4> SUFFICES ASSUME l.step = "restrict", j.task = "mute"
                   PROVE  /\ ~Torn(c)' \/ l.sole =>
                             \/ rec'[c] = None
                             \/ rec'[c] = [is |-> "plain", until |-> j.until]
                          /\ l.sole => Sync(c)'
                          /\ \A u \in Chats : Near(c, u) /\ (l.sole \/ Quiet(u)') =>
                               cache'[c] = [is |-> "plain", until |-> j.until]
        BY <2>1, <3>1, <1>8, NearIs DEF Muting, Torn, Sync, Active, Expired, Quiet
      <4>1. /\ ~Torn(c) \/ j.sole =>
                 rec[c] = None \/ rec[c] = [is |-> "plain", until |-> j.until]
            /\ j.sole => Sync(c)
            /\ \A u \in Chats : Near(c, u) /\ (j.sole \/ Quiet(u)) =>
                 cache[c] = [is |-> "plain", until |-> j.until]
        BY <1>2, <1>3, <1>5 DEF Knows, Muting
      <4>2. Sync(c)' <=> Sync(c)
        BY <1>8 DEF Sync, Active, Expired
      <4> QED
        BY <3>1, <3>2, <4>1, <4>2, <1>8
    <3>5. Restricting(job[w])'
      <4> SUFFICES ASSUME l.step = "restrict", j.task = "mute", ~l.refused,
                          l.sole \/ ~Torn(c)', NEW u \in Chats, Near(c, u), u \notin l.todo
                   PROVE  tg'[u] >= j.until
        BY <2>1, <3>1, <1>8, NearIs DEF Restricting, Torn
      <4>1. ok /\ ~j.refused /\ (j.sole \/ ~Torn(c))
        BY <3>1, <3>2
      <4>2. CASE u = t
        BY <4>1, <4>2, <1>14
      <4>3. CASE u # t
        <5>1. u \notin j.todo
          BY <3>1, <4>3
        <5>2. tg[u] >= j.until
          BY <4>1, <5>1, <1>2, <1>3, <1>5 DEF Knows, Restricting
        <5> QED
          BY <4>3, <5>2, <1>14
      <4> QED
        BY <4>2, <4>3
    <3>6. Refusing(job[w])'
      <4> SUFFICES ASSUME j.task = "mute", l.refused, NEW u \in Chats, Near(c, u)
                   PROVE  ~Quiet(u)'
        BY <2>1, <3>1, <1>8, NearIs DEF Refusing, Quiet
      <4>1. CASE ~ok
        BY <4>1, <1>15
      <4>2. CASE ok
        <5>1. ~Quiet(u)
          BY <3>1, <4>2, <1>3, <1>5 DEF Knows, Refusing
        <5> QED
          BY <5>1, <3>2
      <4> QED
        BY <4>1, <4>2
    <3>7. Unmuting(job[w])' /\ Freeing(job[w])'
      BY <2>1, <3>1 DEF Unmuting, Freeing
    <3> QED
      BY <3>3, <3>4, <3>5, <3>6, <3>7 DEF Knows
  <2> QED
    BY <2>2, <2>3
<1>21. Dated' /\ rec' \in [Chats -> Record] /\ cache' \in [Chats -> Record] /\ issued' = issued
  BY <1>3, <1>8 DEF EInv, Typed, Dated
<1>22. Busy(job[w]) \subseteq Busy(l) \cup {c} /\ job[w].step # "free"
  BY <1>1, <1>2, <1>6
<1> QED
  BY <1>13, <1>14, <1>15, <1>16, <1>17, <1>18, <1>19, <1>20, <1>21, <1>22, GoOnKeeps

LEMMA RollbackKeeps ==
  ASSUME EInv, NEW w \in Workers, Rollback(w)
  PROVE  EInv'
<1>1. PICK j \in Job : j = job[w]
  BY DEF EInv, Typed, Jobs
<1>2. j.step = "rollback" /\ j.step \notin {"idle", "next"}
  BY <1>1 DEF Rollback, At
<1>3. /\ Formed(j) /\ Knows(j) /\ j.chat \in Chats /\ j.chat \in Busy(j)
      /\ everywhere \in BOOLEAN /\ now \in Nat
      /\ rec \in [Chats -> Record] /\ cache \in [Chats -> Record]
      /\ tg \in [Chats -> Nat] /\ upset \in [Chats -> SUBSET Reasons]
      /\ issued \in 0 .. MaxMutes /\ faults \in 0 .. MaxFaults
      /\ \A u \in Chats : Near(j.chat, u) => (Torn(u) <=> Torn(j.chat))
      /\ \A u \in Chats : Near(j.chat, u) => (Clean(u) <=> Clean(j.chat))
      /\ \A u \in Chats : Torn(u) => ~Quiet(u) /\ ~Clean(u)
  BY <1>1, <1>2, JobKnows
<1>4. \A u \in Chats : Near(j.chat, u) /\ u # j.chat /\ ~Crowded(j.chat)
                       => rec[u] = None /\ cache[u] = None
  BY <1>1, <1>2, JobKnows
<1>5. PICK c \in Chats : c = j.chat
  BY <1>3
<1>6. j.task = "mute" /\ j.refused /\ Busy(j) = {c}
  BY <1>2, <1>3, <1>5 DEF Formed, Busy
<1>7. /\ \/ Removed(c) /\ UNCHANGED upset
         \/ (NotRemoved \/ RemovedUnawares(c)) /\ upset' = Mark(Targets(c), {"torn"})
      /\ job' = [job EXCEPT ![w] = NoJob]
      /\ UNCHANGED <<everywhere, now, tg, issued>>
  BY <1>1, <1>5 DEF Rollback, Return, Goto
<1>8. /\ rec' \in [Chats -> Record] /\ cache' \in [Chats -> Record]
      /\ \A u \in Chats \ {c} : rec'[u] = rec[u] /\ cache'[u] = cache[u]
      /\ Dated' /\ faults' \in 0 .. MaxFaults
  <2>1. /\ rec' \in [Chats -> Record] /\ \A u \in Chats \ {c} : rec'[u] = rec[u]
        /\ rec'[c] = None \/ rec'[c] = rec[c]
    BY <1>3, <1>7, NoneTyped DEF Removed, NotRemoved, RemovedUnawares
  <2>2. /\ cache' \in [Chats -> Record] /\ \A u \in Chats \ {c} : cache'[u] = cache[u]
    BY <1>3, <1>7, NoneTyped DEF Removed, NotRemoved, RemovedUnawares
  <2>3. Dated'
    BY <2>1, NoneTyped, Numbers DEF Dated, EInv, Typed
  <2>4. faults' \in 0 .. MaxFaults
    BY <1>3, <1>7, Numbers DEF Removed, NotRemoved, RemovedUnawares, Fault
  <2> QED
    BY <2>1, <2>2, <2>3, <2>4
<1>9. /\ upset' \in [Chats -> SUBSET Reasons] /\ Uniform'
      /\ \A u \in Chats : ~Near(c, u) => upset'[u] = upset[u]
      /\ \/ UNCHANGED upset /\ rec'[c] = None /\ cache'[c] = None
         \/ \A u \in Chats : Near(c, u) => Torn(u)'
  <2>1. CASE Removed(c) /\ UNCHANGED upset
    <3>1. rec'[c] = None /\ cache'[c] = None
      BY <1>3, <2>1 DEF Removed
    <3>2. Uniform'
      BY <2>1, <1>7, NearIs DEF EInv, Uniform, Torn, Clean
    <3> QED
      BY <1>3, <2>1, <3>1, <3>2
  <2>2. CASE upset' = Mark(Targets(c), {"torn"})
    BY <2>2, <1>7, MarkTorn
  <2> QED
    BY <2>1, <2>2, <1>7
<1>10. GoesOn(w, NoJob, c)
  <2>1. \A u \in Chats : ~Near(c, u) => Same(u)
    BY <1>7, <1>8, <1>9, NearIs DEF Same
  <2>2. \A u \in Chats : Torn(u) => Torn(u)' \/ (job[w].sole /\ Near(c, u))
    BY <1>9 DEF Torn
  <2> QED
    BY <2>1, <2>2, <1>1, <1>6, <1>7, NoJobIs DEF GoesOn
<1>11. ASSUME NEW u \in Chats, Near(c, u), ~Torn(u)'
       PROVE  Sync(u)'
  <2>1. rec'[c] = None /\ cache'[c] = None /\ ~Torn(u)
    BY <1>9, <1>11 DEF Torn
  <2>2. CASE u = c
    BY <2>1, <2>2 DEF Sync, Active
  <2>3. CASE u # c
    <3>1. Sync(u) /\ rec'[u] = rec[u] /\ cache'[u] = cache[u] /\ now' = now
      BY <2>1, <2>3, <1>7, <1>8 DEF EInv, Synced
    <3> QED
      BY <3>1 DEF Sync, Active, Expired
  <2> QED
    BY <2>2, <2>3
<1>12. ASSUME NEW u \in Chats, Near(c, u)
       PROVE  ~Quiet(u)'
  <2>1. ~Quiet(u)
    BY <1>3, <1>5, <1>6, <1>12 DEF Knows, Refusing
  <2> QED
    BY <2>1, <1>9, <1>12 DEF Quiet, Torn
<1>13. ASSUME NEW u \in Chats, Near(c, u), Clean(u)'
       PROVE  Carried(u)'
  <2>1. rec'[c] = None /\ Clean(c)
    BY <1>3, <1>5, <1>9, <1>13 DEF Clean, Torn
  <2>2. CASE u = c
    BY <2>1, <2>2 DEF Carried, Active
  <2>3. CASE u # c
    <3>1. ~Crowded(c)
      BY <2>1, <1>3, <1>5 DEF Knows, Uncrowded
    <3>2. rec'[u] = None
      BY <2>3, <3>1, <1>4, <1>5, <1>8, <1>13
    <3> QED
      BY <3>2 DEF Carried, Active
  <2> QED
    BY <2>2, <2>3
<1>14. Knows(job[w])'
  <2>1. job'[w] = NoJob
    BY <1>7 DEF EInv, Typed, TypeOK
  <2> QED
    BY <2>1, IdleKnows
<1>15. Busy(job[w]) \subseteq Busy(NoJob) \cup {c} /\ job[w].step # "free" /\ tg' \in [Chats -> Nat]
       /\ issued' = issued
  BY <1>1, <1>2, <1>3, <1>6, <1>7
<1> QED
  BY <1>8, <1>9, <1>10, <1>11, <1>12, <1>13, <1>14, <1>15, NoJobIs, GoOnKeeps

LEMMA NextExpiredKeeps ==
  ASSUME EInv, NEW w \in Workers, NextExpired(w)
  PROVE  EInv'
<1>1. PICK j \in Job : j = job[w]
  BY DEF EInv, Typed, Jobs
<1>2. j.step = "next" /\ Formed(j) /\ Knows(j) /\ TypeOK /\ Jobs
  BY <1>1 DEF NextExpired, At, EInv, Typed, Jobs
<1>3. PICK c \in j.list :
         job' = [job EXCEPT ![w] =
                   [j EXCEPT !.list = @ \ {c}, !.chat = c, !.refused = FALSE,
                             !.step = IF c \in j.harsh THEN "drop" ELSE "free",
                             !.todo = IF c \in j.harsh THEN {} ELSE Targets(c)]]
  BY <1>1 DEF NextExpired, Goto
<1>4. UNCHANGED <<everywhere, now, rec, cache, tg, issued, faults, upset>>
  BY DEF NextExpired
<1>5. c \in Chats /\ Busy(j) = j.list /\ j.task = "expire" /\ j.list \subseteq Chats
  BY <1>2, JobIs DEF Busy, Formed
<1>6. /\ Targets(c) \subseteq Chats /\ c \in Targets(c)
      /\ \A t \in Chats : t \in Targets(c) <=> Near(c, t)
  BY <1>2, <1>5, TargetsAre DEF TypeOK
<1>7. PICK l \in Job :
         /\ job' = [job EXCEPT ![w] = l]
         /\ l.task = "expire" /\ l.list = j.list \ {c} /\ l.chat = c /\ ~l.refused
         /\ l.step = IF c \in j.harsh THEN "drop" ELSE "free"
         /\ l.todo = IF c \in j.harsh THEN {} ELSE Targets(c)
         /\ l.harsh = j.harsh /\ l.until = j.until /\ l.sole = j.sole
  <2> DEFINE i == [j EXCEPT !.list = @ \ {c}, !.chat = c, !.refused = FALSE,
                            !.step = IF c \in j.harsh THEN "drop" ELSE "free",
                            !.todo = IF c \in j.harsh THEN {} ELSE Targets(c)]
  <2>1. i \in Job
    BY <1>5, <1>6 DEF Job, Steps
  <2>2. /\ i.task = "expire" /\ i.list = j.list \ {c} /\ i.chat = c /\ ~i.refused
        /\ i.step = IF c \in j.harsh THEN "drop" ELSE "free"
        /\ i.todo = IF c \in j.harsh THEN {} ELSE Targets(c)
        /\ i.harsh = j.harsh /\ i.until = j.until /\ i.sole = j.sole
    BY <1>5 DEF Job
  <2> QED
    BY <2>1, <2>2, <1>3
<1>8. l.step \in {"free", "drop"} /\ Busy(l) = j.list
  BY <1>7 DEF Busy
<1>9. Formed(l)
  BY <1>2, <1>5, <1>6, <1>7, <1>8 DEF Formed
<1>10. GoesOn(w, l, c)
  BY <1>1, <1>4, <1>5, <1>7, <1>8 DEF GoesOn, Same, Torn
<1>11. Uniform' /\ Dated' /\ upset' \in [Chats -> SUBSET Reasons]
  BY <1>2, <1>4, NearIs DEF EInv, Typed, Dated, Uniform, Torn, Clean, TypeOK
<1>12. job'[w] = l /\ \A v \in Workers : v # w => job'[v] = job[v]
  BY <1>2, <1>7 DEF Jobs
<1>13. ASSUME NEW u \in Chats, ~Torn(u)'
       PROVE  Sync(u)'
  <2>1. Sync(u)
    BY <1>4, <1>13 DEF EInv, Synced, Torn
  <2> QED
    BY <2>1, <1>4 DEF Sync, Active, Expired
<1>14. ASSUME NEW u \in Chats, Quiet(u)', Restricted(u)'
       PROVE  Accounts(u)'
  <2>1. Accounts(u)
    BY <1>4, <1>14 DEF EInv, Accounted, Accounts, Quiet, Restricted
  <2>2. job[w].step # "free"
    BY <1>1, <1>2
  <2> QED
    BY <2>1, <2>2, <1>4, <1>12, AccountsStill
<1>15. ASSUME NEW u \in Chats, Near(c, u)
       PROVE  ~Idle(u)'
  <2>1. c \in Busy(job[w])' /\ Near(c, u)'
    BY <1>4, <1>8, <1>12, <1>15, NearIs DEF Busy
  <2> QED
    BY <2>1 DEF Idle
<1>16. Knows(job[w])'
  <2>1. Busy(job[w])' = j.list
    BY <1>8, <1>12 DEF Busy
  <2>2. \A d \in j.list : /\ Clean(d)' <=> Clean(d)
                          /\ Torn(d)' <=> Torn(d)
                          /\ Crowded(d)' <=> Crowded(d)
                          /\ Active(rec[d])' <=> Active(rec[d])
                          /\ Active(cache[d])' <=> Active(cache[d])
    BY <1>4 DEF Clean, Torn, Crowded, Active
  <2>3. Uncrowded(job[w])'
    <3>1. \A d \in j.list : Clean(d) => ~Crowded(d)
      BY <1>2, <1>5 DEF Knows, Uncrowded
    <3> QED
      BY <2>1, <2>2, <3>1 DEF Uncrowded
  <2>4. Ending(job[w])'
    <3>1. \A d \in j.list : ~Torn(d) =>
             /\ ~Active(rec[d]) /\ ~Active(cache[d])
             /\ d \in j.harsh => cache[d].is # "plain"
      BY <1>2, <1>5 DEF Knows, Ending
    <3> QED
      BY <2>1, <2>2, <3>1, <1>4, <1>7, <1>12 DEF Ending
  <2>5. Freeing(job[w])'
    <3>1. \A u \in Chats : Near(c, u)' => u \in Targets(c)
      BY <1>4, <1>6, NearIs
    <3> QED
      BY <3>1, <1>7, <1>12 DEF Freeing, Near
  <2> QED
    BY <2>3, <2>4, <2>5, <1>7, <1>8, <1>12 DEF Knows, Commanding, Muting, Restricting,
                                     Refusing, Unmuting
<1>17. /\ Busy(job[w]) \subseteq Busy(l) \cup {c} /\ job[w].step # "free"
       /\ rec' \in [Chats -> Record] /\ cache' \in [Chats -> Record]
       /\ tg' \in [Chats -> Nat] /\ faults' \in 0 .. MaxFaults /\ issued' = issued
  BY <1>1, <1>2, <1>4, <1>5, <1>8 DEF TypeOK
<1> QED
  BY <1>5, <1>9, <1>10, <1>11, <1>13, <1>14, <1>15, <1>16, <1>17, GoOnKeeps

LEMMA FreeKeeps ==
  ASSUME EInv, NEW w \in Workers, FreeNext(w)
  PROVE  EInv'
<1>1. PICK j \in Job : j = job[w]
  BY DEF EInv, Typed, Jobs
<1>2. j.step = "free" /\ j.step \notin {"idle", "next"}
  BY <1>1 DEF FreeNext, At
<1>3. /\ Formed(j) /\ Knows(j) /\ j.chat \in Chats /\ j.chat \in Busy(j)
      /\ Busy(j) = j.list \cup {j.chat} /\ Busy(j) \subseteq Chats
      /\ everywhere \in BOOLEAN /\ now \in Nat
      /\ rec \in [Chats -> Record] /\ cache \in [Chats -> Record]
      /\ tg \in [Chats -> Nat] /\ upset \in [Chats -> SUBSET Reasons]
      /\ issued \in 0 .. MaxMutes /\ faults \in 0 .. MaxFaults
      /\ \A u \in Chats : Near(j.chat, u) => (Torn(u) <=> Torn(j.chat))
      /\ \A u \in Chats : Near(j.chat, u) => (Clean(u) <=> Clean(j.chat))
      /\ \A u \in Chats : Torn(u) => ~Quiet(u) /\ ~Clean(u)
  BY <1>1, <1>2, JobKnows
<1>4. \A u \in Chats : Near(j.chat, u) /\ u # j.chat /\ ~Crowded(j.chat)
                       => rec[u] = None /\ cache[u] = None
  BY <1>1, <1>2, JobKnows
<1>5. PICK c \in Chats : c = j.chat
  BY <1>3
<1>6. /\ j.task \in {"unmute", "expire", "command"} /\ c \notin j.harsh
      /\ j.task # "expire" => Busy(j) = {c}
      /\ \A t \in j.todo : t \in Chats /\ Near(c, t)
  BY <1>2, <1>3, <1>5, JobIs DEF Formed
<1>7. PICK t \in j.todo, ok \in BOOLEAN :
         LET left == [j EXCEPT !.todo = @ \ {t}, !.refused = @ \/ ~ok]
             last == left.todo = {}
         IN  /\ Goto(w, IF ~last THEN left
                        ELSE IF j.task = "expire"
                        THEN [left EXCEPT !.step = "drop"] ELSE NoJob)
             /\ IF ok
                THEN /\ tg' = [tg EXCEPT ![t] = 0]
                     /\ upset' = IF last /\ j.task = "unmute"
                                 THEN Settled(left) ELSE upset
                     /\ UNCHANGED faults
                ELSE /\ Fault
                     /\ upset' = Mark({t}, {"refused"})
                     /\ UNCHANGED tg
  BY <1>1 DEF FreeNext
<1>8. UNCHANGED <<everywhere, now, rec, cache, issued>>
  BY DEF FreeNext
<1>9. t \in Chats /\ Near(c, t)
  BY <1>6
<1>10. PICK m \in Job :
           /\ m = [j EXCEPT !.todo = @ \ {t}, !.refused = @ \/ ~ok]
           /\ m.task = j.task /\ m.step = j.step /\ m.chat = j.chat
           /\ m.until = j.until /\ m.todo = j.todo \ {t}
           /\ m.refused <=> j.refused \/ ~ok
           /\ m.list = j.list /\ m.harsh = j.harsh /\ m.sole = j.sole
  <2> DEFINE i == [j EXCEPT !.todo = @ \ {t}, !.refused = @ \/ ~ok]
  <2>1. i \in Job
    BY DEF Job
  <2>2. /\ i.task = j.task /\ i.step = j.step /\ i.chat = j.chat
        /\ i.until = j.until /\ i.todo = j.todo \ {t}
        /\ i.refused <=> j.refused \/ ~ok
        /\ i.list = j.list /\ i.harsh = j.harsh /\ i.sole = j.sole
    BY DEF Job
  <2> QED
    BY <2>1, <2>2
<1>11. /\ job' = [job EXCEPT ![w] = IF m.todo # {} THEN m
                                    ELSE IF j.task = "expire"
                                    THEN [m EXCEPT !.step = "drop"] ELSE NoJob]
       /\ ok => /\ tg' = [tg EXCEPT ![t] = 0]
                /\ upset' = IF m.todo = {} /\ j.task = "unmute" THEN Settled(m) ELSE upset
                /\ UNCHANGED faults
       /\ ~ok => /\ Fault /\ UNCHANGED tg
                 /\ upset' = Mark({t}, {"refused"})
  BY <1>7, <1>10 DEF Goto
\* The job as it is left.
<1>12. PICK l \in Job :
         /\ job' = [job EXCEPT ![w] = l]
         /\ \/ m.todo = {} /\ l = NoJob /\ j.task # "expire"
            \/ /\ l.task = j.task /\ l.chat = c /\ l.until = j.until
               /\ l.todo = j.todo \ {t} /\ l.list = j.list /\ l.harsh = j.harsh
               /\ l.refused <=> j.refused \/ ~ok
               /\ l.sole = j.sole
               /\ \/ l.step = "free" /\ l.todo # {}
                  \/ l.step = "drop" /\ l.todo = {} /\ j.task = "expire"
  <2>1. PICK i \in Job :
           /\ i = [m EXCEPT !.step = "drop"]
           /\ i.task = m.task /\ i.step = "drop" /\ i.chat = m.chat
           /\ i.until = m.until /\ i.todo = m.todo
           /\ i.refused <=> m.refused
           /\ i.list = m.list /\ i.harsh = m.harsh /\ i.sole = m.sole
    BY StepIs DEF Steps
  <2>2. CASE m.todo # {}
    BY <2>2, <1>2, <1>5, <1>10, <1>11
  <2>3. CASE m.todo = {} /\ j.task = "expire"
    <3>1. job' = [job EXCEPT ![w] = i]
      BY <2>1, <2>3, <1>11
    <3>2. /\ i.task = j.task /\ i.chat = c /\ i.until = j.until
          /\ i.todo = j.todo \ {t} /\ i.list = j.list /\ i.harsh = j.harsh
          /\ i.refused <=> j.refused \/ ~ok
          /\ i.sole = j.sole
      BY <2>1, <1>5, <1>10
    <3>3. i.step = "drop" /\ i.todo = {} /\ j.task = "expire"
      BY <2>1, <2>3
    <3> QED
      BY <3>1, <3>2, <3>3
  <2>4. CASE m.todo = {} /\ j.task # "expire"
    BY <2>4, <1>11, NoJobIs
  <2> QED
    BY <2>2, <2>3, <2>4
<1>13. /\ Formed(l)
       /\ \/ l = NoJob /\ Busy(j) = {c} /\ Busy(l) = {}
          \/ l.step # "idle" /\ Busy(l) = Busy(j) /\ l.sole = j.sole
  <2>1. CASE l = NoJob /\ j.task # "expire"
    BY <2>1, <1>6, NoJobIs
  <2>2. CASE /\ l.task = j.task /\ l.chat = c /\ l.until = j.until
             /\ l.todo = j.todo \ {t} /\ l.list = j.list /\ l.harsh = j.harsh
             /\ l.refused <=> j.refused \/ ~ok
             /\ l.sole = j.sole
             /\ \/ l.step = "free" /\ l.todo # {}
                \/ l.step = "drop" /\ l.todo = {} /\ j.task = "expire"
    <3>1. Busy(l) = Busy(j)
      BY <2>2, <1>3, <1>5 DEF Busy
    <3>2. Formed(l)
      BY <2>2, <1>2, <1>3, <1>5, <1>6 DEF Formed
    <3> QED
      BY <2>2, <3>1, <3>2
  <2> QED
    BY <2>1, <2>2, <1>12
<1>14. /\ tg' \in [Chats -> Nat] /\ faults' \in 0 .. MaxFaults
       /\ \A u \in Chats : u # t => tg'[u] = tg[u]
       /\ ok => tg'[t] = 0
  <2>1. faults' \in 0 .. MaxFaults
    BY <1>3, <1>11, Numbers DEF Fault
  <2> QED
    BY <2>1, <1>3, <1>9, <1>11
\* What becomes of the marks.
<1>15. /\ upset' \in [Chats -> SUBSET Reasons] /\ Uniform'
       /\ \A u \in Chats : ~Near(c, u) => upset'[u] = upset[u]
       /\ ~ok => ~Quiet(t)'
       /\ \/ \A u \in Chats : /\ Torn(u)' <=> Torn(u)
                              /\ Clean(u)' <=> Clean(u)
                              /\ Quiet(u)' => Quiet(u)
          \/ /\ ok /\ m.todo = {} /\ j.task = "unmute" /\ j.sole /\ ~j.refused /\ ~Crowded(c)
             /\ l = NoJob
  <2>1. CASE ~ok
    <3>1. {t} \in SUBSET Chats /\ upset' = Mark({t}, {"refused"}) /\ everywhere' = everywhere
      BY <2>1, <1>8, <1>9, <1>11
    <3>2. /\ upset' \in [Chats -> SUBSET Reasons] /\ Uniform'
          /\ \A u \in Chats : /\ Torn(u)' <=> Torn(u)
                              /\ Clean(u)' <=> Clean(u)
                              /\ Quiet(u)' => Quiet(u)
                              /\ u \in {t} => ~Quiet(u)'
                              /\ u \notin {t} => upset'[u] = upset[u]
      BY <3>1, MarkMild
    <3> QED
      BY <2>1, <3>2, <1>9
  <2>2. CASE ok /\ upset' = upset
    <3>1. \A u \in Chats : /\ Torn(u)' <=> Torn(u)
                           /\ Clean(u)' <=> Clean(u)
                           /\ Quiet(u)' => Quiet(u)
      BY <2>2 DEF Torn, Clean, Quiet
    <3>2. Uniform'
      BY <3>1, <1>8, NearIs DEF EInv, Uniform
    <3> QED
      BY <2>2, <3>1, <3>2, <1>3
  <2>3. CASE ok /\ upset' # upset
    <3>1. upset' = Settled(m) /\ m.todo = {} /\ j.task = "unmute" /\ m.chat = c
      BY <2>3, <1>5, <1>10, <1>11
    <3>2. /\ upset' \in [Chats -> SUBSET Reasons] /\ Uniform'
          /\ m.sole /\ ~m.refused /\ ~Crowded(c)
          /\ \A u \in Chats : ~Near(c, u) => upset'[u] = upset[u]
      BY <2>3, <3>1, <1>8, SettledIs
    <3>3. l = NoJob
      BY <3>1, <1>10, <1>12
    <3> QED
      BY <2>3, <3>1, <3>2, <3>3, <1>10
  <2> QED
    BY <2>1, <2>2, <2>3
<1>16. GoesOn(w, l, c)
  <2>1. \A u \in Chats : ~Near(c, u) => Same(u)
    BY <1>8, <1>9, <1>14, <1>15 DEF Same
  <2>2. \A u \in Chats : Torn(u) => Torn(u)' \/ (job[w].sole /\ Near(c, u))
    BY <1>1, <1>15 DEF Torn
  <2>3. Busy(l) \subseteq Busy(job[w]) /\ (l.sole => job[w].sole \/ Busy(l) = {})
    BY <1>1, <1>13
  <2> QED
    BY <2>1, <2>2, <2>3, <1>1, <1>3, <1>5, <1>8, <1>12 DEF GoesOn
<1>17. ASSUME NEW u \in Chats, Near(c, u), ~Torn(u)'
       PROVE  Sync(u)'
  <2>1. CASE ~Torn(u)
    <3>1. Sync(u)
      BY <2>1 DEF EInv, Synced
    <3> QED
      BY <3>1, <1>8 DEF Sync, Active, Expired
  <2>2. CASE Torn(u)
    <3>1. j.task = "unmute" /\ j.sole /\ ~Crowded(c)
      BY <2>2, <1>15, <1>17
    <3>2. rec[c] = None /\ cache[c] = None
      BY <3>1, <1>2, <1>3, <1>5 DEF Knows, Unmuting
    <3>3. rec[u] = None /\ cache[u] = None
      BY <3>1, <3>2, <1>4, <1>5, <1>17
    <3> QED
      BY <3>3, <1>8 DEF Sync, Active
  <2> QED
    BY <2>1, <2>2
<1>18. j.task = "command" => \A u \in Chats : Near(c, u) => Torn(u) /\ Torn(u)'
  <2>1. j.task = "command" => Torn(c)
    BY <1>3, <1>5 DEF Knows, Commanding
  <2> QED
    BY <2>1, <1>3, <1>5, <1>15
\* What the job has left free, once it is through with it.
<1>19. ASSUME NEW u \in Chats, Near(c, u), u \notin j.todo \/ u = t, j.task # "command",
              (j.sole /\ ~j.refused /\ ok) \/ Quiet(u)'
       PROVE  tg'[u] = 0
  <2>1. CASE u = t
    BY <2>1, <1>14, <1>15, <1>19
  <2>2. CASE u # t
    <3>1. (j.sole /\ ~j.refused) \/ Quiet(u)
      BY <1>15, <1>19
    <3>2. tg[u] = 0
      BY <2>2, <3>1, <1>2, <1>3, <1>5, <1>6, <1>19 DEF Knows, Freeing
    <3> QED
      BY <2>2, <3>2, <1>14
  <2> QED
    BY <2>1, <2>2
<1>20. ASSUME NEW u \in Chats, Near(c, u), Quiet(u)', Restricted(u)'
       PROVE  Accounts(u)'
  <2>1. j.task # "command"
    BY <1>18, <1>20 DEF Torn, Quiet
  <2>2. u \in j.todo /\ u # t
    <3>1. tg'[u] # 0
      BY <1>3, <1>8, <1>20 DEF Restricted
    <3> QED
      BY <2>1, <3>1, <1>19, <1>20
  <2>3. l.step = "free" /\ u \in l.todo
    BY <2>2, <1>10, <1>12
  <2>4. job'[w] = l
    BY <1>12 DEF EInv, Typed, TypeOK
  <2> QED
    BY <2>3, <2>4 DEF Accounts
<1>21. ASSUME NEW u \in Chats, Near(c, u), Clean(u)', Idle(u)'
       PROVE  Carried(u)'
  <2>1. l = NoJob
    <3>1. job'[w] = l
      BY <1>12 DEF EInv, Typed, TypeOK
    <3>2. Busy(l) = Busy(j) => c \in Busy(job[w])' /\ Near(c, u)'
      BY <3>1, <1>3, <1>5, <1>8, <1>21, NearIs DEF Busy
    <3> QED
      BY <3>2, <1>13, <1>21 DEF Idle
  <2>2. j.task = "unmute"
    <3>1. j.task # "command"
      BY <1>18, <1>21 DEF Torn, Clean
    <3>2. j.task # "expire"
      BY <2>1, <1>12, NoJobIs
    <3> QED
      BY <3>1, <3>2, <1>6
  <2>3. j.sole \/ Clean(c)
    BY <1>3, <1>5, <1>15, <1>21
  <2>4. ~Crowded(c) /\ (j.sole \/ ~Torn(c))
    BY <2>3, <1>3, <1>5, <1>15, <1>21 DEF Knows, Uncrowded
  <2>5. rec[c] = None
    BY <2>2, <2>4, <1>2, <1>3, <1>5 DEF Knows, Unmuting
  <2>6. rec[u] = None
    BY <2>4, <2>5, <1>4, <1>5, <1>21
  <2> QED
    BY <2>6, <1>8 DEF Carried, Active
<1>22. Knows(job[w])'
  <2>1. job'[w] = l
    BY <1>12 DEF EInv, Typed, TypeOK
  <2>2. CASE l = NoJob
    BY <2>1, <2>2, IdleKnows
  <2>3. CASE l # NoJob
    <3>1. /\ l.task = j.task /\ l.chat = c /\ l.todo = j.todo \ {t}
          /\ l.step \in {"free", "drop"}
          /\ l.refused <=> j.refused \/ ~ok
          /\ l.sole = j.sole /\ l.harsh = j.harsh
      BY <2>3, <1>12
    <3>2. Busy(job[w])' = Busy(j)
      <4>1. Busy(job[w])' = Busy(l)
        BY <2>1 DEF Busy
      <4> QED
        BY <4>1, <2>3, <1>13
    <3>3. \A u \in Chats : /\ Torn(u)' <=> Torn(u)
                           /\ Clean(u)' <=> Clean(u)
                           /\ Quiet(u)' => Quiet(u)
      BY <2>3, <1>15
    <3>4. Uncrowded(job[w])'
      <4>1. \A d \in Busy(j) : Crowded(d)' <=> Crowded(d)
        BY <1>8 DEF Crowded
      <4>2. \A d \in Busy(j) : Clean(d) => ~Crowded(d)
        BY <1>3 DEF Knows, Uncrowded
      <4> QED
        BY <3>2, <3>3, <4>1, <4>2, <1>3 DEF Uncrowded
    <3>5. Ending(job[w])' /\ Commanding(job[w])'
      <4>1. \A d \in Busy(j) : /\ Active(rec[d])' <=> Active(rec[d])
                               /\ Active(cache[d])' <=> Active(cache[d])
                               /\ cache'[d] = cache[d]
        BY <1>8 DEF Active
      <4>2. /\ \A d \in Busy(j) : j.task = "expire" /\ ~Torn(d) =>
                 /\ ~Active(rec[d]) /\ ~Active(cache[d])
                 /\ d \in j.harsh => cache[d].is # "plain"
            /\ \A d \in Busy(j) : j.task = "command" => Torn(d)
        BY <1>3 DEF Knows, Ending, Commanding
      <4>3. Ending(job[w])'
        BY <2>1, <3>1, <3>2, <3>3, <4>1, <4>2, <1>3 DEF Ending
      <4>4. Commanding(job[w])'
        BY <2>1, <3>1, <3>2, <3>3, <4>2, <1>3 DEF Commanding
      <4> QED
        BY <4>3, <4>4
    <3>6. Muting(job[w])' /\ Restricting(job[w])' /\ Refusing(job[w])'
      BY <2>1, <3>1, <1>6 DEF Muting, Restricting, Refusing
    <3>7. Unmuting(job[w])'
      <4> SUFFICES ASSUME j.task = "unmute", j.sole \/ ~Torn(c)'
                   PROVE  rec'[c] = None /\ cache'[c] = None
        BY <2>1, <3>1 DEF Unmuting, Torn
      <4>1. j.sole \/ ~Torn(c)
        BY <3>3
      <4> QED
        BY <4>1, <1>2, <1>3, <1>5, <1>8 DEF Knows, Unmuting
    <3>8. Freeing(job[w])'
      <4> SUFFICES ASSUME j.task # "command", NEW u \in Chats, Near(c, u), u \notin l.todo,
                          (l.sole /\ ~l.refused) \/ Quiet(u)'
                   PROVE  tg'[u] = 0
        BY <2>1, <3>1, <1>8, NearIs DEF Freeing, Quiet
      <4>1. /\ u \notin j.todo \/ u = t
            /\ (j.sole /\ ~j.refused /\ ok) \/ Quiet(u)'
        BY <3>1
      <4> QED
        BY <4>1, <1>19
    <3> QED
      BY <3>4, <3>5, <3>6, <3>7, <3>8 DEF Knows
  <2> QED
    BY <2>2, <2>3
<1>23. Dated' /\ rec' \in [Chats -> Record] /\ cache' \in [Chats -> Record] /\ issued' = issued
  BY <1>3, <1>8 DEF EInv, Typed, Dated
<1>24. Busy(job[w]) \subseteq Busy(l) \cup {c} /\ c = job[w].chat
  BY <1>1, <1>5, <1>13
<1> QED
  BY <1>13, <1>14, <1>15, <1>16, <1>17, <1>20, <1>21, <1>22, <1>23, <1>24, GoOnKeeps

LEMMA DropKeeps ==
  ASSUME EInv, NEW w \in Workers, Drop(w)
  PROVE  EInv'
<1>1. PICK j \in Job : j = job[w]
  BY DEF EInv, Typed, Jobs
<1>2. j.step = "drop" /\ j.step \notin {"idle", "next"}
  BY <1>1 DEF Drop, At
<1>3. /\ Formed(j) /\ Knows(j) /\ j.chat \in Chats /\ j.chat \in Busy(j)
      /\ Busy(j) = j.list \cup {j.chat} /\ Busy(j) \subseteq Chats
      /\ everywhere \in BOOLEAN /\ now \in Nat
      /\ rec \in [Chats -> Record] /\ cache \in [Chats -> Record]
      /\ tg \in [Chats -> Nat] /\ upset \in [Chats -> SUBSET Reasons]
      /\ issued \in 0 .. MaxMutes /\ faults \in 0 .. MaxFaults
      /\ \A u \in Chats : Near(j.chat, u) => (Torn(u) <=> Torn(j.chat))
      /\ \A u \in Chats : Near(j.chat, u) => (Clean(u) <=> Clean(j.chat))
      /\ \A u \in Chats : Torn(u) => ~Quiet(u) /\ ~Clean(u)
  BY <1>1, <1>2, JobKnows
<1>4. \A u \in Chats : Near(j.chat, u) /\ u # j.chat /\ ~Crowded(j.chat)
                       => rec[u] = None /\ cache[u] = None
  BY <1>1, <1>2, JobKnows
<1>5. PICK c \in Chats : c = j.chat
  BY <1>3
<1>6. j.task = "expire" /\ j.todo = {} /\ c \notin j.list /\ j.until <= Forever
  BY <1>2, <1>3, <1>5 DEF Formed
<1>7. /\ \/ Removed(c) /\ upset' = IF c \in j.harsh THEN upset ELSE Settled(j)
         \/ (NotRemoved \/ RemovedUnawares(c)) /\ UNCHANGED upset
      /\ job' = [job EXCEPT ![w] = IF j.list = {} THEN NoJob ELSE [j EXCEPT !.step = "next"]]
      /\ UNCHANGED <<everywhere, now, tg, issued>>
  BY <1>1, <1>5 DEF Drop, Return, Goto
\* The job as it is left.
<1>8. PICK l \in Job :
         /\ job' = [job EXCEPT ![w] = l]
         /\ Formed(l) /\ Busy(l) = j.list
         /\ \/ l = NoJob
            \/ l.task = "expire" /\ l.step = "next" /\ l.sole = j.sole /\ l.harsh = j.harsh
  <2>1. PICK i \in Job :
           /\ i = [j EXCEPT !.step = "next"]
           /\ i.task = j.task /\ i.step = "next" /\ i.chat = j.chat
           /\ i.until = j.until /\ i.todo = j.todo
           /\ i.refused <=> j.refused
           /\ i.list = j.list /\ i.harsh = j.harsh /\ i.sole = j.sole
    BY StepIs DEF Steps
  <2>2. CASE j.list = {}
    BY <2>2, <1>7, NoJobIs
  <2>3. CASE j.list # {}
    <3>1. Formed(i)
      BY <2>1, <1>5, <1>6 DEF Formed
    <3>2. Busy(i) = j.list
      BY <2>1 DEF Busy
    <3>3. job' = [job EXCEPT ![w] = i]
      BY <2>1, <2>3, <1>7
    <3> QED
      BY <3>1, <3>2, <3>3, <2>1, <1>6
  <2> QED
    BY <2>2, <2>3
<1>9. /\ rec' \in [Chats -> Record] /\ cache' \in [Chats -> Record]
      /\ \A u \in Chats \ {c} : rec'[u] = rec[u] /\ cache'[u] = cache[u]
      /\ rec'[c] \in {None, rec[c]} /\ cache'[c] \in {None, cache[c]}
      /\ Dated' /\ faults' \in 0 .. MaxFaults
  <2>1. /\ rec' \in [Chats -> Record] /\ \A u \in Chats \ {c} : rec'[u] = rec[u]
        /\ rec'[c] = None \/ rec'[c] = rec[c]
    BY <1>3, <1>7, NoneTyped DEF Removed, NotRemoved, RemovedUnawares
  <2>2. /\ cache' \in [Chats -> Record] /\ \A u \in Chats \ {c} : cache'[u] = cache[u]
        /\ cache'[c] = None \/ cache'[c] = cache[c]
    BY <1>3, <1>7, NoneTyped DEF Removed, NotRemoved, RemovedUnawares
  <2>3. Dated'
    BY <2>1, NoneTyped, Numbers DEF Dated, EInv, Typed
  <2>4. faults' \in 0 .. MaxFaults
    BY <1>3, <1>7, Numbers DEF Removed, NotRemoved, RemovedUnawares, Fault
  <2> QED
    BY <2>1, <2>2, <2>3, <2>4
\* What becomes of the marks: they stay, or the chats are settled.
<1>10. /\ upset' \in [Chats -> SUBSET Reasons] /\ Uniform'
       /\ \A u \in Chats : ~Near(c, u) => upset'[u] = upset[u]
       /\ \/ upset' = upset
          \/ /\ c \notin j.harsh /\ j.sole /\ ~j.refused /\ ~Crowded(c)
             /\ rec'[c] = None /\ cache'[c] = None
  <2>1. CASE upset' = upset
    <3>1. Uniform'
      BY <2>1, <1>7, NearIs DEF EInv, Uniform, Torn, Clean
    <3> QED
      BY <2>1, <3>1, <1>3
  <2>2. CASE upset' # upset
    <3>1. Removed(c) /\ c \notin j.harsh /\ upset' = Settled(j) /\ everywhere' = everywhere
      BY <2>2, <1>7
    <3>2. /\ upset' \in [Chats -> SUBSET Reasons] /\ Uniform'
          /\ j.sole /\ ~j.refused /\ ~Crowded(c)
          /\ \A u \in Chats : ~Near(c, u) => upset'[u] = upset[u]
      BY <2>2, <3>1, <1>5, SettledIs
    <3>3. rec'[c] = None /\ cache'[c] = None
      BY <3>1, <1>3 DEF Removed
    <3> QED
      BY <3>1, <3>2, <3>3
  <2> QED
    BY <2>1, <2>2
<1>11. \/ rec'[c] = None /\ cache'[c] = None
       \/ cache'[c] = cache[c] /\ upset' = upset
  BY <1>3, <1>7 DEF Removed, NotRemoved, RemovedUnawares
<1>12. GoesOn(w, l, c)
  <2>1. \A u \in Chats : ~Near(c, u) => Same(u)
    BY <1>7, <1>9, <1>10, NearIs DEF Same
  <2>2. \A u \in Chats : Torn(u) => Torn(u)' \/ (job[w].sole /\ Near(c, u))
    BY <1>1, <1>10 DEF Torn
  <2>3. Busy(l) \subseteq Busy(job[w]) /\ (l.sole => job[w].sole \/ Busy(l) = {})
    BY <1>1, <1>3, <1>8, NoJobIs
  <2> QED
    BY <2>1, <2>2, <2>3, <1>1, <1>3, <1>5, <1>7, <1>8 DEF GoesOn
\* What the job knows of its chat, the mute it is ending.
<1>13. ~Torn(c) => /\ ~Active(rec[c]) /\ ~Active(cache[c])
                   /\ c \in j.harsh => cache[c].is # "plain"
  BY <1>3, <1>5, <1>6 DEF Knows, Ending
<1>14. ASSUME NEW u \in Chats, Near(c, u), ~Torn(u)'
       PROVE  Sync(u)'
  <2>1. CASE u = c
    <3>1. CASE rec'[c] = None /\ cache'[c] = None
      BY <2>1, <3>1 DEF Sync, Active
    <3>2. CASE cache'[c] = cache[c] /\ upset' = upset
      <4>1. ~Torn(c) /\ Sync(c)
        BY <2>1, <3>2, <1>14 DEF Torn, EInv, Synced
      <4>2. ~Active(cache[c])
        BY <4>1, <1>13
      <4> QED
        BY <2>1, <3>2, <4>1, <4>2, <1>7, <1>9 DEF Sync, Active, Expired
    <3> QED
      BY <3>1, <3>2, <1>11
  <2>2. CASE u # c
    <3>1. rec'[u] = rec[u] /\ cache'[u] = cache[u]
      BY <2>2, <1>9
    <3>2. CASE upset' = upset
      <4>1. Sync(u)
        BY <3>2, <1>14 DEF Torn, EInv, Synced
      <4> QED
        BY <3>1, <4>1, <1>7 DEF Sync, Active, Expired
    <3>3. CASE ~Crowded(c)
      <4>1. rec[u] = None /\ cache[u] = None
        BY <2>2, <3>3, <1>4, <1>5, <1>14
      <4> QED
        BY <3>1, <4>1 DEF Sync, Active
    <3> QED
      BY <3>2, <3>3, <1>10
  <2> QED
    BY <2>1, <2>2
<1>15. \A v \in Workers : v # w => job'[v] = job[v]
  BY <1>8 DEF EInv, Typed, TypeOK
<1>16. ASSUME NEW u \in Chats, Near(c, u), Quiet(u)', Restricted(u)'
       PROVE  Accounts(u)'
  <2>1. Restricted(u)
    BY <1>7, <1>16 DEF Restricted
  <2>2. CASE upset' = upset /\ (cache'[c] = cache[c] \/ c \in j.harsh)
    <3>1. Quiet(u) /\ ~Torn(c)
      BY <2>2, <1>3, <1>5, <1>16 DEF Quiet
    <3>2. Accounts(u)
      BY <2>1, <3>1 DEF EInv, Accounted, Accounts
    <3>3. \A d \in Chats : Near(d, u) /\ cache[d].is = "plain" => cache'[d].is = "plain"
      BY <2>2, <3>1, <1>9, <1>13
    <3>4. job[w].step # "free" /\ everywhere' = everywhere
      BY <1>1, <1>2, <1>7
    <3> QED
      BY <3>2, <3>3, <3>4, <1>15, AccountsStill
  <2>3. CASE c \notin j.harsh
    <3>1. (j.sole /\ ~j.refused) \/ Quiet(u)
      BY <1>10, <1>16 DEF Quiet
    <3>2. tg[u] = 0
      BY <2>3, <3>1, <1>2, <1>3, <1>5, <1>6, <1>16 DEF Knows, Freeing
    <3> QED
      BY <2>1, <3>2, <1>3 DEF Restricted
  <2> QED
    BY <2>2, <2>3, <1>10, <1>11
<1>17. ASSUME NEW u \in Chats, Near(c, u), Clean(u)'
       PROVE  Carried(u)'
  <2>1. ~Crowded(c)
    <3>1. CASE upset' = upset
      <4>1. Clean(c)
        BY <3>1, <1>3, <1>5, <1>17 DEF Clean
      <4> QED
        BY <4>1, <1>3, <1>5 DEF Knows, Uncrowded
    <3> QED
      BY <3>1, <1>10
  <2>2. ~Active(rec[c])'
    <3>1. CASE upset' = upset
      <4>1. ~Torn(c)
        BY <3>1, <1>3, <1>5, <1>17 DEF Clean
      <4> QED
        BY <4>1, <1>7, <1>9, <1>13 DEF Active
    <3> QED
      BY <3>1, <1>10 DEF Active
  <2>3. CASE u = c
    BY <2>2, <2>3 DEF Carried, Active
  <2>4. CASE u # c
    <3>1. rec'[u] = None
      BY <2>1, <2>4, <1>4, <1>5, <1>9, <1>17
    <3> QED
      BY <3>1 DEF Carried, Active
  <2> QED
    BY <2>3, <2>4
<1>18. Knows(job[w])'
  <2>1. job'[w] = l
    BY <1>8 DEF EInv, Typed, TypeOK
  <2>2. CASE l = NoJob
    BY <2>1, <2>2, IdleKnows
  <2>3. CASE l.task = "expire" /\ l.step = "next" /\ l.sole = j.sole /\ l.harsh = j.harsh
    <3>1. Busy(job[w])' = j.list
      BY <2>1, <1>8 DEF Busy
    <3>2. ASSUME NEW d \in j.list
          PROVE  /\ d \in Chats /\ d # c /\ rec'[d] = rec[d] /\ cache'[d] = cache[d]
                 /\ Crowded(d)' => Crowded(d)
                 /\ Clean(d) => ~Crowded(d)
                 /\ ~Torn(d) => /\ ~Active(rec[d]) /\ ~Active(cache[d])
                                /\ d \in j.harsh => cache[d].is # "plain"
      <4>1. d \in Busy(j) /\ d \in Chats /\ d # c
        BY <3>2, <1>3, <1>6
      <4>2. Crowded(d)' => Crowded(d)
        BY <1>7, <1>9 DEF Crowded
      <4> QED
        BY <4>1, <4>2, <1>3, <1>6, <1>9 DEF Knows, Uncrowded, Ending
    <3>3. ASSUME NEW d \in j.list, upset'[d] # upset[d]
          PROVE  rec[d] = None /\ cache[d] = None /\ ~Crowded(d)'
      <4>1. Near(c, d) /\ ~Crowded(c) /\ rec'[c] = None /\ cache'[c] = None
        BY <3>2, <3>3, <1>10
      <4>2. rec[d] = None /\ cache[d] = None
        BY <3>2, <4>1, <1>4, <1>5
      <4>3. \A x \in Chats : everywhere => rec'[x] = None /\ cache'[x] = None
        BY <4>1, <1>9 DEF Crowded
      <4>4. ~Crowded(d)'
        BY <4>3, <1>7 DEF Crowded
      <4> QED
        BY <4>2, <4>4
    <3>4. Uncrowded(job[w])'
      <4> SUFFICES ASSUME NEW d \in j.list, Clean(d)'
                   PROVE  ~Crowded(d)'
        BY <3>1 DEF Uncrowded
      <4>1. CASE upset'[d] = upset[d]
        BY <4>1, <3>2 DEF Clean
      <4> QED
        BY <4>1, <3>3
    <3>5. Ending(job[w])'
      <4> SUFFICES ASSUME NEW d \in j.list, ~Torn(d)'
                   PROVE  /\ ~Active(rec[d])' /\ ~Active(cache[d])'
                          /\ d \in j.harsh => cache'[d].is # "plain"
        BY <2>1, <2>3, <3>1 DEF Ending
      <4>1. CASE upset'[d] = upset[d]
        <5>1. ~Torn(d)
          BY <4>1 DEF Torn
        <5> QED
          BY <5>1, <3>2, <1>7 DEF Active
      <4>2. CASE upset'[d] # upset[d]
        <5>1. rec'[d] = None /\ cache'[d] = None
          BY <4>2, <3>2, <3>3
        <5> QED
          BY <5>1, NoneTyped DEF Active
      <4> QED
        BY <4>1, <4>2
    <3> QED
      BY <2>1, <2>3, <3>4, <3>5 DEF Knows, Commanding, Muting, Restricting, Refusing,
                                    Unmuting, Freeing
  <2> QED
    BY <2>2, <2>3, <1>8
<1>19. /\ Busy(job[w]) \subseteq Busy(l) \cup {c} /\ job[w].step # "free"
       /\ tg' \in [Chats -> Nat] /\ issued' = issued
  BY <1>1, <1>2, <1>3, <1>5, <1>7, <1>8
<1> QED
  BY <1>8, <1>9, <1>10, <1>12, <1>14, <1>16, <1>17, <1>18, <1>19, GoOnKeeps

---------------------------------------------------------------------------
(* What happens around the handlers.                                       *)

\* Time passes and rows are cleaned up: no active record goes, none comes.
LEMMA AgeKeeps ==
  ASSUME EInv, Typed', UNCHANGED <<everywhere, cache, tg, job, upset>>, now' >= now,
         \A c \in Chats : rec'[c] = rec[c] \/ (rec'[c] = None /\ ~Active(rec[c]))
  PROVE  EInv'
<1>1. /\ rec \in [Chats -> Record] /\ cache \in [Chats -> Record] /\ tg \in [Chats -> Nat]
      /\ now \in Nat /\ now' \in Nat /\ Typed
  BY Numbers DEF EInv, Typed, TypeOK
<1>2. ASSUME NEW c \in Chats
      PROVE  /\ Active(rec[c])' => Active(rec[c]) /\ rec'[c] = rec[c]
             /\ Active(cache[c])' => Active(cache[c])
             /\ Expired(rec[c]) /\ rec'[c] = rec[c] => Expired(rec[c])'
             /\ rec[c] = None => rec'[c] = None
             /\ Restricted(c)' => Restricted(c)
             /\ Torn(c)' <=> Torn(c)
             /\ Clean(c)' <=> Clean(c)
             /\ Quiet(c)' <=> Quiet(c)
             /\ Idle(c)' => Idle(c)
  <2>1. rec[c].until \in Nat /\ cache[c].until \in Nat
    BY <1>1, RecordIs
  <2>2. /\ Active(rec[c])' => Active(rec[c]) /\ rec'[c] = rec[c]
        /\ Active(cache[c])' => Active(cache[c])
        /\ Expired(rec[c]) /\ rec'[c] = rec[c] => Expired(rec[c])'
        /\ rec[c] = None => rec'[c] = None
    BY <1>1, <2>1 DEF Active, Expired
  <2>3. Restricted(c)' => Restricted(c)
    BY <1>1 DEF Restricted
  <2>4. Idle(c)' => Idle(c)
    BY NearIs DEF Idle, Busy
  <2> QED
    BY <2>2, <2>3, <2>4 DEF Torn, Clean, Quiet
<1>3. ASSUME NEW c \in Chats, Sync(c)
      PROVE  Sync(c)'
  <2>1. Active(cache[c])' => rec'[c] = cache'[c]
    <3>1. CASE Active(cache[c])
      <4>1. rec[c] = cache[c] /\ Active(rec[c])
        BY <1>3, <3>1 DEF Sync
      <4> QED
        BY <4>1
    <3> QED
      BY <3>1, <1>2
  <2>2. rec'[c] = None \/ rec'[c] = cache'[c] \/ (cache'[c] = None /\ Expired(rec[c])')
    BY <1>2, <1>3 DEF Sync
  <2> QED
    BY <2>1, <2>2 DEF Sync
<1>4. Apart' /\ Uniform'
  BY NearIs DEF EInv, Apart, Uniform, Torn, Clean, Busy
<1>5. Synced'
  BY <1>2, <1>3 DEF EInv, Synced
<1>6. Accounted'
  <2> SUFFICES ASSUME NEW t \in Chats, Quiet(t)', Restricted(t)'
               PROVE  Accounts(t)'
    BY DEF Accounted, Accounts
  <2>1. Accounts(t)
    BY <1>2 DEF EInv, Accounted, Accounts
  <2> QED
    BY <2>1, NearIs DEF Accounts
<1>7. MutesCarried'
  <2> SUFFICES ASSUME NEW c \in Chats, Clean(c)', Idle(c)'
               PROVE  Carried(c)'
    BY DEF MutesCarried
  <2>1. Carried(c)
    BY <1>2 DEF EInv, MutesCarried
  <2> QED
    BY <2>1, <1>2, NearIs DEF Carried
<1>8. ASSUME NEW v \in Workers
      PROVE  Knows(job[v])'
  <2>1. PICK j \in Job : j = job[v]
    BY <1>1 DEF Typed, Jobs
  <2>2. /\ Knows(j) /\ j = job'[v] /\ Busy(job[v])' = Busy(j) /\ Formed(j)
        /\ Busy(j) \subseteq Chats
    BY <1>1, <2>1, BusyChats DEF EInv, Typed, Jobs, Busy
  <2>3. j.step = "restrict" \/ j.step = "free" => j.chat \in Chats
    BY <2>2 DEF Formed
  <2>4. \A c \in Chats : Crowded(c)' => Crowded(c)
    BY <1>2 DEF Crowded
  <2>5. Uncrowded(job[v])' /\ Ending(job[v])' /\ Commanding(job[v])'
    <3>1. Uncrowded(job[v])'
      BY <1>2, <2>2, <2>4 DEF Knows, Uncrowded
    <3>2. Ending(job[v])'
      BY <1>2, <2>2 DEF Knows, Ending
    <3>3. Commanding(job[v])'
      BY <1>2, <2>2 DEF Knows, Commanding
    <3> QED
      BY <3>1, <3>2, <3>3
  <2>6. Muting(job[v])'
    <3>1. j.step = "restrict" => (Sync(j.chat) => Sync(j.chat)')
      BY <1>3, <2>3
    <3>2. Sync(job[v].chat)' <=> Sync(j.chat)'
      BY <2>2 DEF Sync, Active, Expired
    <3>3. j.step = "restrict" => /\ Torn(j.chat)' <=> Torn(j.chat)
                                 /\ rec'[j.chat] = rec[j.chat] \/ rec'[j.chat] = None
      BY <1>2, <2>3
    <3> QED
      BY <1>2, <2>2, <3>1, <3>2, <3>3, NearIs DEF Knows, Muting, Torn
  <2>7. Restricting(job[v])' /\ Refusing(job[v])'
    BY <2>2, NearIs DEF Knows, Restricting, Refusing, Torn, Quiet
  <2>8. Unmuting(job[v])'
    BY <1>2, <2>2, <2>3 DEF Knows, Unmuting, Torn
  <2>9. Freeing(job[v])'
    BY <2>2, NearIs DEF Knows, Freeing, Quiet
  <2> QED
    BY <2>5, <2>6, <2>7, <2>8, <2>9 DEF Knows
<1> QED
  BY <1>4, <1>5, <1>6, <1>7, <1>8 DEF EInv

LEMMA CleanupKeeps ==
  ASSUME EInv, CleanupExpiredMutes
  PROVE  EInv'
<1>1. TypeOK /\ Jobs /\ Dated
  BY DEF EInv, Typed
<1>2. /\ UNCHANGED <<everywhere, now, cache, tg, job, issued, faults, upset>>
      /\ rec' = [c \in Chats |-> IF Expired(rec[c]) /\ rec[c].until + Retention <= now
                                 THEN None ELSE rec[c]]
  BY DEF CleanupExpiredMutes
<1>3. now \in Nat
  BY <1>1, Numbers DEF TypeOK
<1>4. ASSUME NEW c \in Chats
      PROVE  rec'[c] = rec[c] \/ (rec'[c] = None /\ ~Active(rec[c]))
  <2>1. rec[c].until \in Nat
    BY <1>1, RecordIs DEF TypeOK
  <2> QED
    BY <1>2, <1>3, <2>1 DEF Active, Expired
<1>5. rec' \in [Chats -> Record]
  BY <1>1, <1>2, NoneTyped DEF TypeOK
<1>6. Typed'
  <2>1. Jobs'
    BY <1>1, <1>2 DEF Jobs, Formed, Near
  <2>2. Dated'
    BY <1>1, <1>4, NoneTyped, Numbers DEF Dated
  <2> QED
    BY <1>1, <1>2, <1>5, <2>1, <2>2 DEF Typed, TypeOK
<1> QED
  BY <1>2, <1>3, <1>4, <1>6, AgeKeeps

LEMMA TickKeeps ==
  ASSUME EInv, Tick
  PROVE  EInv'
<1>1. TypeOK /\ Jobs /\ Dated
  BY DEF EInv, Typed
<1>2. /\ now < MaxTime /\ now' = now + 1
      /\ UNCHANGED <<everywhere, rec, cache, tg, job, issued, faults, upset>>
  BY DEF Tick
<1>3. now' \in 0 .. MaxTime /\ now' >= now
  BY <1>1, <1>2, Numbers DEF TypeOK
<1>4. Typed'
  <2>1. Jobs' /\ Dated'
    BY <1>1, <1>2 DEF Jobs, Formed, Near, Dated
  <2> QED
    BY <1>1, <1>2, <1>3, <2>1 DEF Typed, TypeOK
<1> QED
  BY <1>2, <1>3, <1>4, AgeKeeps

\* What a load makes of the cache, and which chats it concerns.
LEMMA LoadIs ==
  ASSUME EInv, cache' = Loaded, UNCHANGED <<everywhere, now, rec>>
  PROVE  /\ cache' \in [Chats -> Record] /\ Forgotten \in SUBSET Chats
         /\ \A c \in Chats : /\ Sync(c)'
                             /\ cache'[c] = None \/ cache'[c] = rec[c]
                             /\ ~Active(rec[c]) => cache'[c] = None
                             /\ c \notin Forgotten /\ Sync(c) => cache'[c] = cache[c]
         /\ \A c, d \in Chats : Near(c, d) => (c \in Forgotten <=> d \in Forgotten)
<1>1. /\ rec \in [Chats -> Record] /\ cache \in [Chats -> Record]
      /\ now \in Nat /\ everywhere \in BOOLEAN
  BY Numbers DEF EInv, Typed, TypeOK
<1>2. \A c \in Chats : cache'[c] = IF Active(rec[c]) THEN rec[c] ELSE None
  BY DEF Loaded
<1>3. cache' \in [Chats -> Record]
  BY <1>1, NoneTyped DEF Loaded
<1>4. /\ Forgotten \in SUBSET Chats
      /\ \A t \in Chats : t \in Forgotten <=>
           \E c \in Chats : Near(c, t) /\ (Expired(cache[c]) \/ Expired(rec[c]))
  BY <1>1, TargetsAre DEF Forgotten
<1>5. ASSUME NEW c \in Chats, NEW d \in Chats, Near(c, d)
      PROVE  c \in Forgotten <=> d \in Forgotten
  BY <1>4, <1>5, NearIs
<1>6. ASSUME NEW c \in Chats
      PROVE  /\ rec[c] = None \/ Active(rec[c]) \/ Expired(rec[c])
             /\ cache[c] = None \/ Active(cache[c]) \/ Expired(cache[c])
  <2>1. rec[c].until \in Nat /\ cache[c].until \in Nat
    BY <1>1, RecordIs
  <2> QED
    BY <1>1, <2>1 DEF Active, Expired
<1>7. ASSUME NEW c \in Chats
      PROVE  Sync(c)'
  <2>1. CASE Active(rec[c])
    <3>1. rec'[c] = cache'[c]
      BY <2>1, <1>2
    <3> QED
      BY <3>1 DEF Sync
  <2>2. CASE ~Active(rec[c])
    <3>1. cache'[c] = None
      BY <2>2, <1>2
    <3>2. rec'[c] = None \/ Expired(rec[c])'
      BY <2>2, <1>6 DEF Expired
    <3> QED
      BY <3>1, <3>2 DEF Sync, Active
  <2> QED
    BY <2>1, <2>2
<1>8. ASSUME NEW c \in Chats, c \notin Forgotten, Sync(c)
      PROVE  cache'[c] = cache[c]
  <2>1. ~Expired(cache[c]) /\ ~Expired(rec[c])
    BY <1>4, <1>8, NearIs
  <2>2. CASE Active(cache[c])
    <3>1. rec[c] = cache[c] /\ Active(rec[c])
      BY <2>2, <1>8 DEF Sync
    <3> QED
      BY <3>1, <1>2
  <2>3. CASE cache[c] = None
    <3>1. rec[c] = None
      BY <2>1, <2>3, <1>8 DEF Sync
    <3> QED
      BY <2>3, <3>1, <1>2 DEF Active
  <2> QED
    BY <2>1, <2>2, <2>3, <1>6
<1> QED
  BY <1>2, <1>3, <1>4, <1>5, <1>7, <1>8

LEMMA ReloadKeeps ==
  ASSUME EInv, Reload
  PROVE  EInv'
<1>1. /\ TypeOK /\ Jobs /\ Dated /\ Typed /\ Apart /\ Uniform /\ Synced /\ Accounted
      /\ MutesCarried /\ now \in Nat /\ everywhere \in BOOLEAN
  BY Numbers DEF EInv, Typed, TypeOK
<1>2. /\ cache' = Loaded /\ upset' = Mark(Forgotten, {"reloaded"})
      /\ UNCHANGED <<everywhere, now, rec, tg, issued, faults>>
  BY DEF Reload
<1>3. /\ cache' \in [Chats -> Record] /\ Forgotten \in SUBSET Chats
      /\ \A c \in Chats : /\ Sync(c)'
                          /\ cache'[c] = None \/ cache'[c] = rec[c]
                          /\ ~Active(rec[c]) => cache'[c] = None
                          /\ c \notin Forgotten /\ Sync(c) => cache'[c] = cache[c]
      /\ \A c, d \in Chats : Near(c, d) => (c \in Forgotten <=> d \in Forgotten)
  BY <1>2, LoadIs
<1>4. /\ upset' \in [Chats -> SUBSET Reasons] /\ Uniform'
      /\ \A t \in Chats : /\ Torn(t)' <=> Torn(t)
                          /\ Clean(t)' <=> Clean(t)
                          /\ Quiet(t)' => Quiet(t) /\ t \notin Forgotten
  <2>1. "reloaded" \in {"refused", "reloaded"} /\ everywhere' = everywhere
    BY <1>2
  <2> QED
    BY <2>1, <1>2, <1>3, MarkMild
<1>5. \A t \in Chats : Torn(t) => ~Quiet(t)
  BY DEF Torn, Quiet
\* A job is what it was, but for believing to be alone.
<1>6. ASSUME NEW v \in Workers, NEW j \in Job, j = job[v]
      PROVE  \E k \in Job :
                /\ k = job'[v] /\ k.task = j.task /\ k.step = j.step /\ k.chat = j.chat
                /\ k.until = j.until /\ k.todo = j.todo /\ k.refused = j.refused
                /\ k.list = j.list /\ k.harsh = j.harsh /\ Busy(k) = Busy(j) /\ Formed(k)
                /\ k.sole => j.sole /\ \A c \in Busy(j) : c \notin Forgotten
  <2>1. Formed(j) /\ Busy(j) \subseteq Chats
    BY <1>1, <1>6, BusyChats DEF Jobs
  <2>2. /\ Scope(j) \subseteq Chats
        /\ \A t \in Chats : t \in Scope(j) <=> \E c \in Busy(j) : Near(c, t)
    BY <2>1, <1>1, ScopeIs
  <2>3. job'[v] = [j EXCEPT !.sole = j.sole /\ Scope(j) \cap Forgotten = {}]
    BY <1>6 DEF Reload
  <2>4. PICK b \in BOOLEAN : b = (j.sole /\ Scope(j) \cap Forgotten = {})
    <3>1. (j.sole /\ Scope(j) \cap Forgotten = {}) \in BOOLEAN
      BY JobIs
    <3> QED
      BY <3>1
  <2>5. j.step # "idle" \/ b
    <3>1. j.step = "idle" => j.sole /\ Busy(j) = {}
      BY <2>1, NoJobIs DEF Formed
    <3> QED
      BY <3>1, <2>2, <2>4
  <2>6. PICK k : k = [j EXCEPT !.sole = b]
    OBVIOUS
  <2>7. k = job'[v]
    BY <2>3, <2>4, <2>6
  <2>8. /\ k \in Job /\ k.sole = b /\ Busy(k) = Busy(j)
        /\ k.task = j.task /\ k.step = j.step /\ k.chat = j.chat
        /\ k.until = j.until /\ k.todo = j.todo /\ k.refused = j.refused
        /\ k.list = j.list /\ k.harsh = j.harsh /\ Formed(k)
    BY <2>1, <2>5, <2>6, SoleOnly
  <2>9. b => j.sole /\ \A c \in Busy(j) : c \notin Forgotten
    BY <2>1, <2>2, <2>4, NearIs, <1>2
  <2> QED
    BY <2>7, <2>8, <2>9
<1>7. \A v \in Workers : /\ job'[v] \in Job /\ Formed(job'[v])
                         /\ job'[v].step = job[v].step /\ job'[v].todo = job[v].todo
                         /\ Busy(job'[v]) = Busy(job[v])
                         /\ job'[v].sole => job[v].sole
  BY <1>1, <1>6 DEF Jobs
<1>8. \A v \in Workers : Busy(job[v])' = Busy(job[v])
  <2> TAKE v \in Workers
  <2>1. Busy(job[v])' = Busy(job'[v])
    BY DEF Busy
  <2> QED
    BY <2>1, <1>7
<1>9. Typed'
  <2>1. job' \in [Workers -> Job]
    <3>1. job' = [v \in Workers |->
                    [job[v] EXCEPT !.sole = @ /\ Scope(job[v]) \cap Forgotten = {}]]
      BY DEF Reload
    <3> QED
      BY <3>1, <1>7
  <2>2. Jobs'
    <3> SUFFICES ASSUME NEW v \in Workers
                 PROVE  Formed(job[v])'
      BY <2>1 DEF Jobs
    <3>1. Formed(job'[v])
      BY <1>7
    <3> QED
      BY <3>1, <1>2 DEF Formed, Near
  <2>3. Dated'
    BY <1>1, <1>2 DEF Dated
  <2>4. \A v \in Workers : job'[v].todo # {} <=> job'[v].step \in {"restrict", "free"}
    BY <1>7 DEF Formed
  <2> QED
    BY <2>1, <2>2, <2>3, <2>4, <1>1, <1>2, <1>3, <1>4 DEF Typed, TypeOK
<1>10. Apart'
  <2> SUFFICES ASSUME NEW u \in Workers, NEW v \in Workers, u # v,
                      NEW c \in Busy(job[u]), NEW d \in Busy(job[v]), Near(c, d)
               PROVE  Torn(c)' /\ ~job'[u].sole
    BY <1>2, <1>8, NearIs DEF Apart
  <2>1. Torn(c) /\ ~job[u].sole /\ c \in Chats
    BY <1>1, BusyChats DEF Apart, Jobs
  <2> QED
    BY <2>1, <1>4, <1>7
<1>11. Synced'
  BY <1>3 DEF Synced
\* What a load leaves in the cache.
<1>12. ASSUME NEW t \in Chats, Quiet(t)', NEW c \in Chats, Near(c, t)
       PROVE  cache'[c] = cache[c] /\ Quiet(t)
  <2>1. Quiet(t) /\ t \notin Forgotten /\ c \notin Forgotten
    BY <1>3, <1>4, <1>12
  <2>2. ~Torn(c)
    BY <2>1, <1>1, <1>5, <1>12 DEF Uniform
  <2> QED
    BY <2>1, <2>2, <1>1, <1>3 DEF Synced
<1>13. Accounted'
  <2> SUFFICES ASSUME NEW t \in Chats, Quiet(t)', Restricted(t)'
               PROVE  Accounts(t)'
    BY DEF Accounted, Accounts
  <2>1. Quiet(t) /\ Restricted(t)
    BY <1>2, <1>12, NearIs DEF Restricted
  <2>2. CASE \E c \in Chats : Near(c, t) /\ cache[c].is = "plain"
    <3>1. PICK c \in Chats : Near(c, t) /\ cache[c].is = "plain"
      BY <2>2
    <3>2. cache'[c].is = "plain" /\ Near(c, t)'
      BY <3>1, <1>2, <1>12, NearIs
    <3> QED
      BY <3>2 DEF Accounts
  <2>3. CASE \E v \in Workers : job[v].step = "free" /\ t \in job[v].todo
    BY <2>3, <1>7 DEF Accounts
  <2> QED
    BY <2>1, <2>2, <2>3, <1>1 DEF Accounted
<1>14. MutesCarried'
  <2> SUFFICES ASSUME NEW c \in Chats, Clean(c)', Idle(c)'
               PROVE  Carried(c)'
    BY DEF MutesCarried
  <2>1. Idle(c)
    BY <1>2, <1>8, NearIs DEF Idle
  <2>2. Carried(c)
    BY <2>1, <1>1, <1>4 DEF MutesCarried
  <2> QED
    BY <2>2, <1>2, NearIs DEF Carried, Active
<1>15. ASSUME NEW v \in Workers
       PROVE  Knows(job[v])'
  <2>1. PICK j \in Job : j = job[v]
    BY <1>1 DEF Jobs
  <2>2. PICK k \in Job :
          /\ k = job'[v] /\ k.task = j.task /\ k.step = j.step /\ k.chat = j.chat
          /\ k.until = j.until /\ k.todo = j.todo /\ k.refused = j.refused
          /\ k.list = j.list /\ k.harsh = j.harsh /\ Busy(k) = Busy(j) /\ Formed(k)
          /\ k.sole => j.sole /\ \A c \in Busy(j) : c \notin Forgotten
    BY <2>1, <1>6
  <2>3. /\ Knows(j) /\ Formed(j) /\ Busy(j) \subseteq Chats /\ Busy(job[v])' = Busy(j)
    BY <1>1, <1>8, <2>1, BusyChats DEF EInv, Jobs
  <2>4. j.step \notin {"idle", "next"} => j.chat \in Chats /\ j.chat \in Busy(j)
    BY <2>3 DEF Formed, Busy
  <2>5. Uncrowded(job[v])'
    <3>1. \A c \in Chats : Crowded(c)' => Crowded(c)
      BY <1>2, <1>3 DEF Crowded
    <3> QED
      BY <2>3, <3>1, <1>4 DEF Knows, Uncrowded
  <2>6. Ending(job[v])'
    <3>1. ASSUME NEW c \in Chats, ~Active(rec[c])
          PROVE  ~Active(rec[c])' /\ ~Active(cache[c])' /\ cache'[c].is # "plain"
      BY <3>1, <1>2, <1>3, NoneTyped DEF Active
    <3> QED
      BY <2>2, <2>3, <3>1, <1>4 DEF Knows, Ending
  <2>7. Commanding(job[v])'
    BY <2>2, <2>3, <1>4 DEF Knows, Commanding
  <2>8. Muting(job[v])'
    <3> SUFFICES ASSUME j.step = "restrict", j.task = "mute"
                 PROVE  /\ ~Torn(j.chat)' \/ k.sole =>
                             \/ rec'[j.chat] = None
                             \/ rec'[j.chat] = [is |-> "plain", until |-> j.until]
                        /\ k.sole => Sync(j.chat)'
                        /\ \A t \in Chats : Near(j.chat, t) /\ (k.sole \/ Quiet(t)') =>
                             cache'[j.chat] = [is |-> "plain", until |-> j.until]
      BY <1>2, <2>2, NearIs DEF Muting, Torn, Sync, Active, Expired, Quiet
    <3>1. /\ ~Torn(j.chat) \/ j.sole =>
               rec[j.chat] = None \/ rec[j.chat] = [is |-> "plain", until |-> j.until]
          /\ j.sole => Sync(j.chat)
          /\ \A t \in Chats : Near(j.chat, t) /\ (j.sole \/ Quiet(t)) =>
               cache[j.chat] = [is |-> "plain", until |-> j.until]
      BY <2>3 DEF Knows, Muting
    <3>2. k.sole => cache'[j.chat] = cache[j.chat]
      BY <2>2, <2>4, <3>1, <1>3
    <3>3. \A t \in Chats : Near(j.chat, t) /\ Quiet(t)' =>
             cache'[j.chat] = cache[j.chat] /\ Quiet(t)
      BY <2>4, <1>12
    <3> QED
      BY <2>2, <2>4, <3>1, <3>2, <3>3, <1>2, <1>3, <1>4
  <2>9. Restricting(job[v])'
    <3>1. j.step = "restrict" => (Torn(j.chat)' <=> Torn(j.chat))
      BY <2>4, <1>4
    <3> QED
      BY <2>2, <2>3, <3>1, <1>2, NearIs DEF Knows, Restricting, Torn
  <2>10. Refusing(job[v])'
    <3>1. \A t \in Chats : ~Quiet(t) => ~Quiet(t)'
      BY <1>4
    <3> QED
      BY <2>2, <2>3, <3>1, <1>2, NearIs DEF Knows, Refusing
  <2>11. Unmuting(job[v])'
    <3> SUFFICES ASSUME j.step = "free", j.task = "unmute", k.sole \/ ~Torn(j.chat)'
                 PROVE  rec'[j.chat] = None /\ cache'[j.chat] = None
      BY <2>2 DEF Unmuting, Torn
    <3>1. rec[j.chat] = None
      BY <2>2, <2>3, <2>4, <1>4 DEF Knows, Unmuting
    <3> QED
      BY <2>4, <3>1, <1>2, <1>3
  <2>12. Freeing(job[v])'
    <3>1. \A t \in Chats : Quiet(t)' => Quiet(t)
      BY <1>4
    <3> QED
      BY <2>2, <2>3, <3>1, <1>2, NearIs DEF Knows, Freeing
  <2> QED
    BY <2>5, <2>6, <2>7, <2>8, <2>9, <2>10, <2>11, <2>12 DEF Knows
<1> QED
  BY <1>4, <1>9, <1>10, <1>11, <1>13, <1>14, <1>15 DEF EInv

LEMMA CrashKeeps ==
  ASSUME EInv, Crash
  PROVE  EInv'
<1> DEFINE torn == UNION {Scope(job[w]) : w \in Workers}
           why(c) == IF c \in torn THEN {"torn"} ELSE {"reloaded"}
<1>1. /\ TypeOK /\ Jobs /\ Dated /\ Uniform /\ Synced /\ Accounted
      /\ MutesCarried /\ now \in Nat /\ everywhere \in BOOLEAN
  BY Numbers DEF EInv, Typed, TypeOK
<1>2. /\ cache' = Loaded /\ job' = [w \in Workers |-> NoJob] /\ Fault
      /\ upset' = [c \in Chats |-> Mark(torn \cup Forgotten, why(c))[c]]
      /\ UNCHANGED <<everywhere, now, rec, tg, issued>>
  BY DEF Crash
<1>3. /\ cache' \in [Chats -> Record] /\ Forgotten \in SUBSET Chats
      /\ \A c \in Chats : /\ Sync(c)'
                          /\ c \notin Forgotten /\ Sync(c) => cache'[c] = cache[c]
      /\ \A c, d \in Chats : Near(c, d) => (c \in Forgotten <=> d \in Forgotten)
  BY <1>2, LoadIs
<1>4. /\ torn \subseteq Chats
      /\ \A t \in Chats : t \in torn <=> Shared(t)
  <2>1. \A w \in Workers :
          /\ Scope(job[w]) \subseteq Chats
          /\ \A t \in Chats : t \in Scope(job[w]) <=> \E c \in Busy(job[w]) : Near(c, t)
    <3> SUFFICES ASSUME NEW w \in Workers
                 PROVE  /\ Scope(job[w]) \subseteq Chats
                        /\ \A t \in Chats : t \in Scope(job[w]) <=>
                                            \E c \in Busy(job[w]) : Near(c, t)
      OBVIOUS
    <3>1. job[w] \in Job /\ Busy(job[w]) \subseteq Chats
      BY <1>1, BusyChats DEF Jobs
    <3> QED
      BY <3>1, <1>1, ScopeIs
  <2> QED
    BY <2>1 DEF Shared
<1>5. \A c : why(c) \in SUBSET Reasons
  BY DEF Reasons
<1> HIDE DEF torn
<1>6. upset' \in [Chats -> SUBSET Reasons]
  <2> HIDE DEF why
  <2>1. \A c \in Chats : Mark(torn \cup Forgotten, why(c)) \in [Chats -> SUBSET Reasons]
    BY <1>1, <1>5, MarkIs DEF TypeOK
  <2> QED
    BY <1>2, <2>1
<1>7. ASSUME NEW t \in Chats
      PROVE  /\ Torn(t)' <=> Torn(t) \/ Shared(t)
             /\ Clean(t)' <=> Clean(t) /\ ~Shared(t)
             /\ Quiet(t)' => Quiet(t) /\ ~Shared(t) /\ t \notin Forgotten
  <2>1. /\ t \notin torn \cup Forgotten => upset'[t] = upset[t]
        /\ "torn" \in upset'[t] <=> Torn(t) \/ (t \in torn \cup Forgotten /\ "torn" \in why(t))
        /\ \A r \in why(t) : t \in torn \cup Forgotten => r \in upset'[t] \/ "torn" \in upset'[t]
        /\ \A r \in upset[t] : r \in upset'[t] \/ "torn" \in upset'[t]
        /\ \A r \in upset'[t] : \/ r = "torn" \/ r \in upset[t]
                                \/ t \in torn \cup Forgotten /\ r \in why(t)
    <3> DEFINE m == Mark(torn \cup Forgotten, why(t))[t]
    <3> HIDE DEF why
    <3>1. /\ t \notin torn \cup Forgotten => m = upset[t]
          /\ "torn" \in m <=> Torn(t) \/ (t \in torn \cup Forgotten /\ "torn" \in why(t))
          /\ \A r \in why(t) : t \in torn \cup Forgotten => r \in m \/ "torn" \in m
          /\ \A r \in upset[t] : r \in m \/ "torn" \in m
          /\ \A r \in m : \/ r = "torn" \/ r \in upset[t]
                          \/ t \in torn \cup Forgotten /\ r \in why(t)
      BY <1>1, <1>5, MarkIs DEF TypeOK
    <3>2. upset'[t] = m
      BY <1>2
    <3> QED
      BY <3>1, <3>2
  <2>2. Torn(t)' <=> "torn" \in upset'[t]
    BY DEF Torn
  <2>3. t \in torn <=> Shared(t)
    BY <1>4
  <2>4. CASE Shared(t)
    <3>1. why(t) = {"torn"}
      BY <2>3, <2>4
    <3> HIDE DEF why
    <3>2. "torn" \in upset'[t]
      BY <2>1, <2>3, <2>4, <3>1
    <3> QED
      BY <2>2, <2>4, <3>2 DEF Clean, Quiet
  <2>5. CASE ~Shared(t)
    <3>1. why(t) = {"reloaded"} /\ t \notin torn
      BY <2>3, <2>5
    <3> HIDE DEF why
    <3>2. /\ "torn" \in upset'[t] <=> Torn(t)
          /\ t \in Forgotten => "reloaded" \in upset'[t] \/ "torn" \in upset'[t]
          /\ \A r \in upset[t] : r \in upset'[t] \/ "torn" \in upset'[t]
          /\ \A r \in upset'[t] : r = "torn" \/ r \in upset[t] \/ r = "reloaded"
      BY <2>1, <3>1
    <3> QED
      BY <2>2, <2>5, <3>2 DEF Torn, Clean, Quiet
  <2> QED
    BY <2>4, <2>5
<1>8. \A c, d \in Chats : Near(c, d) => (Shared(c) <=> Shared(d))
  BY <1>2, NearIs DEF Shared
<1>9. \A w \in Workers : job'[w] = NoJob /\ Busy(job[w])' = {}
  <2> TAKE w \in Workers
  <2>1. job'[w] = NoJob
    BY <1>2
  <2>2. Busy(job[w])' = Busy(job'[w])
    BY DEF Busy
  <2> QED
    BY <2>1, <2>2, NoJobIs
<1>10. Typed'
  <2>1. job' \in [Workers -> Job]
    BY <1>2, NoJobIs
  <2>2. Jobs'
    <3> SUFFICES ASSUME NEW v \in Workers
                 PROVE  Formed(job[v])'
      BY <2>1 DEF Jobs
    <3>1. Formed(job'[v])
      BY <1>9, NoJobIs
    <3> QED
      BY <3>1, <1>2 DEF Formed, Near
  <2>3. Dated'
    BY <1>1, <1>2 DEF Dated
  <2>4. \A v \in Workers : job'[v].todo # {} <=> job'[v].step \in {"restrict", "free"}
    BY <1>9, NoJobIs
  <2>5. faults' \in 0 .. MaxFaults
    BY <1>1, <1>2, Numbers DEF TypeOK, Fault
  <2> QED
    BY <2>1, <2>2, <2>3, <2>4, <2>5, <1>1, <1>2, <1>3, <1>6 DEF Typed, TypeOK
<1>11. Apart'
  BY <1>9 DEF Apart
<1>12. Uniform'
  BY <1>1, <1>2, <1>7, <1>8, NearIs DEF Uniform
<1>13. Synced'
  BY <1>3 DEF Synced
<1>14. Accounted'
  <2> SUFFICES ASSUME NEW t \in Chats, Quiet(t)', Restricted(t)'
               PROVE  Accounts(t)'
    BY DEF Accounted, Accounts
  <2>1. Quiet(t) /\ ~Shared(t) /\ t \notin Forgotten /\ Restricted(t)
    BY <1>2, <1>7 DEF Restricted
  <2>2. ~ \E v \in Workers : job[v].step = "free" /\ t \in job[v].todo
    <3> SUFFICES ASSUME NEW v \in Workers, job[v].step = "free", t \in job[v].todo
                 PROVE  FALSE
      OBVIOUS
    <3>1. Near(job[v].chat, t) /\ job[v].chat \in Busy(job[v])
      BY <1>1 DEF Jobs, Formed, Busy
    <3> QED
      BY <2>1, <3>1 DEF Shared
  <2>3. PICK c \in Chats : Near(c, t) /\ cache[c].is = "plain"
    BY <2>1, <2>2, <1>1 DEF Accounted
  <2>4. ~Torn(c) /\ c \notin Forgotten
    BY <2>1, <2>3, <1>1, <1>3 DEF Uniform, Torn, Quiet
  <2>5. cache'[c].is = "plain" /\ Near(c, t)'
    BY <2>3, <2>4, <1>1, <1>2, <1>3, NearIs DEF Synced
  <2> QED
    BY <2>5 DEF Accounts
<1>15. MutesCarried'
  <2> SUFFICES ASSUME NEW c \in Chats, Clean(c)'
               PROVE  Carried(c)'
    BY DEF MutesCarried
  <2>1. Clean(c) /\ Idle(c)
    BY <1>7 DEF Idle, Shared
  <2>2. Carried(c)
    BY <2>1, <1>1 DEF MutesCarried
  <2> QED
    BY <2>2, <1>2, NearIs DEF Carried, Active
<1>16. \A w \in Workers : Knows(job[w])'
  BY <1>9, IdleKnows
<1> QED
  BY <1>10, <1>11, <1>12, <1>13, <1>14, <1>15, <1>16 DEF EInv

---------------------------------------------------------------------------
(* The invariant, and what follows from it.                                *)

LEMMA InitOK == Init => EInv
<1> SUFFICES ASSUME Init
             PROVE  EInv
  OBVIOUS
<1>1. /\ everywhere \in BOOLEAN /\ now = 0 /\ issued = 0 /\ faults = 0
      /\ rec = [c \in Chats |-> None] /\ cache = [c \in Chats |-> None]
      /\ tg = [c \in Chats |-> 0] /\ job = [w \in Workers |-> NoJob]
      /\ upset = [c \in Chats |-> {}]
  BY ModesAssumption DEF Init
<1>2. \A w \in Workers : job[w] = NoJob /\ Busy(job[w]) = {}
  BY <1>1, NoJobIs
<1>3. \A c \in Chats : /\ rec[c] = None /\ cache[c] = None /\ tg[c] = 0 /\ upset[c] = {}
                       /\ ~Active(rec[c]) /\ ~Active(cache[c])
  BY <1>1 DEF Active
<1>4. Typed
  <2>1. TypeOK
    BY <1>1, <1>2, NoneTyped, NoJobIs, Numbers DEF TypeOK
  <2>2. Jobs
    BY <1>1, <1>2, NoJobIs DEF Jobs
  <2>3. Dated
    <3>1. None.until <= Forever
      BY NoneTyped, Numbers
    <3> QED
      BY <3>1, <1>3 DEF Dated
  <2> QED
    BY <2>1, <2>2, <2>3 DEF Typed
<1>5. Apart /\ Uniform
  BY <1>2, <1>3 DEF Apart, Uniform, Torn, Clean
<1>6. Synced /\ Accounted /\ MutesCarried
  BY <1>1, <1>3 DEF Synced, Sync, Accounted, Restricted, MutesCarried, Carried
<1>7. \A w \in Workers : Knows(job[w])
  BY <1>2, NoJobIs DEF Knows, Uncrowded, Ending, Commanding, Muting, Restricting, Refusing,
                       Unmuting, Freeing
<1> QED
  BY <1>4, <1>5, <1>6, <1>7 DEF EInv

\* Every handler's deadline is a number, and not later than Forever.
LEMMA DeadlineIs ==
  ASSUME TypeOK, NEW m \in Minutes
  PROVE  /\ Deadline(m) \in Nat /\ Deadline(m) <= Forever
         /\ now + m \in Nat /\ now + m <= Forever
<1>1. /\ now \in Nat /\ now <= MaxTime /\ m \in Nat /\ MaxTime \in Nat /\ Forever \in Nat
      /\ MaxTime + m <= Forever
  BY Numbers DEF TypeOK
<1> QED
  BY <1>1 DEF Deadline

LEMMA StartKeeps ==
  ASSUME EInv, NEW w \in Workers, Start(w)
  PROVE  EInv'
<1>1. TypeOK /\ everywhere \in BOOLEAN
  BY DEF EInv, Typed, TypeOK
<1>2. ASSUME NEW c \in Chats, NEW is \in {"plain", "cruel"}, NEW u \in Nat, u <= Forever,
             Mute(w, c, is, u)
      PROVE  EInv'
  BY <1>2, MuteKeeps
<1>3. CASE HandleMuteAction(w)
  <2>1. PICK c \in Chats, m \in Minutes \ {0} : Mute(w, c, "plain", now + m)
    BY <1>3 DEF HandleMuteAction
  <2>2. now + m \in Nat /\ now + m <= Forever
    BY <1>1, DeadlineIs
  <2> QED
    BY <2>1, <2>2, <1>2
<1>4. CASE HandleMuteConfirmed(w)
  <2>1. PICK c \in Chats, m \in Minutes : Mute(w, c, "plain", Deadline(m))
    BY <1>4 DEF HandleMuteConfirmed
  <2>2. Deadline(m) \in Nat /\ Deadline(m) <= Forever
    BY <1>1, DeadlineIs
  <2> QED
    BY <2>1, <2>2, <1>2
<1>5. CASE AutoModerateMute(w)
  <2>1. PICK c \in Chats, m \in Minutes : Mute(w, c, "plain", Deadline(m))
    BY <1>5 DEF AutoModerateMute
  <2>2. Deadline(m) \in Nat /\ Deadline(m) <= Forever
    BY <1>1, DeadlineIs
  <2> QED
    BY <2>1, <2>2, <1>2
<1>6. CASE ApplyNightModeMute(w)
  <2>1. PICK c \in Chats : Mute(w, c, "plain", NightEnd)
    BY <1>6 DEF ApplyNightModeMute
  <2> QED
    BY <2>1, <1>2, Numbers
<1>7. CASE ApplyMute(w)
  <2>1. PICK c \in Chats, m \in Minutes, is \in {"plain", "cruel"} :
           Mute(w, c, is, Deadline(m))
    BY <1>7 DEF ApplyMute
  <2>2. Deadline(m) \in Nat /\ Deadline(m) <= Forever
    BY <1>1, DeadlineIs
  <2> QED
    BY <2>1, <2>2, <1>2
<1>8. CASE ApplyCruelMute(w)
  <2>1. PICK c \in Chats, m \in Minutes : Mute(w, c, "cruel", Deadline(m))
    BY <1>8 DEF ApplyCruelMute
  <2>2. Deadline(m) \in Nat /\ Deadline(m) <= Forever
    BY <1>1, DeadlineIs
  <2> QED
    BY <2>1, <2>2, <1>2
<1>9. CASE CommandMute(w)
  <2>1. PICK c \in Chats :
           LET j == [MuteJob(c, Forever) EXCEPT !.task = "command"]
           IN  Begin(w, j, j, {"torn"})
    BY <1>9 DEF CommandMute
  <2>2. PICK j \in Job :
             /\ j = [MuteJob(c, Forever) EXCEPT !.task = "command"] /\ j.task = "command"
             /\ j.step = "restrict" /\ j.chat = c /\ ~j.refused /\ Busy(j) = {c} /\ Formed(j)
             /\ Chats \cap (j.list \cup {j.chat}) = Busy(j)
    <3>1. PICK u \in Nat : u = Forever /\ u <= Forever
      BY Numbers
    <3>2. PICK k \in {"mute", "command"} : k = "command"
      OBVIOUS
    <3>3. \E j \in Job :
             /\ j = [MuteJob(c, u) EXCEPT !.task = k] /\ j.task = k /\ j.step = "restrict" /\ j.chat = c
             /\ j.until = u /\ j.todo = Targets(c) /\ ~j.refused /\ j.list = {}
             /\ j.harsh = {} /\ Busy(j) = {c} /\ Formed(j)
             /\ Chats \cap (j.list \cup {j.chat}) = Busy(j)
             /\ k = "mute" => j = MuteJob(c, u)
      BY <1>1, <3>1, MuteJobIs, SMTT(20)
    <3> QED
      BY <3>1, <3>2, <3>3
  <2>3. Begin(w, j, j, {"torn"})
    BY <2>1, <2>2
  <2>4. issued' \in 0 .. MaxMutes /\ UNCHANGED <<everywhere, now, rec, cache, tg, faults>>
    BY <1>1, <1>9, Numbers DEF CommandMute, Issue, TypeOK
  <2> QED
    BY <2>2, <2>3, <2>4, CommandKeeps
<1>10. CASE CommandUnmute(w)
  <2>1. PICK c \in Muted :
           LET j == [UnmuteJob(c) EXCEPT !.task = "command"]
           IN  Begin(w, j, j, {"torn"})
    BY <1>10 DEF CommandUnmute
  <2>2. c \in Chats
    BY DEF Muted
  <2>3. PICK j \in Job :
             /\ j = [UnmuteJob(c) EXCEPT !.task = "command"] /\ j.task = "command"
             /\ j.step = "free" /\ j.chat = c /\ ~j.refused /\ Busy(j) = {c} /\ Formed(j)
             /\ Chats \cap (j.list \cup {j.chat}) = Busy(j)
    BY <1>1, <2>2, UnmuteJobIs
  <2>4. Begin(w, j, j, {"torn"})
    BY <2>1, <2>3
  <2>5. issued' \in 0 .. MaxMutes /\ UNCHANGED <<everywhere, now, rec, cache, tg, faults>>
    BY <1>1, <1>10 DEF CommandUnmute, TypeOK
  <2> QED
    BY <2>2, <2>3, <2>4, <2>5, CommandKeeps
<1>11. {} \in SUBSET Reasons /\ {"torn"} \in SUBSET Reasons
  BY DEF Reasons
<1>12. ASSUME NEW c \in Chats, UnmuteFails(w, c), UNCHANGED <<everywhere, now, tg, issued>>
       PROVE  EInv'
  <2>1. /\ Begin(w, UnmuteJob(c), NoJob, {"torn"}) /\ rec' = [rec EXCEPT ![c] = None]
        /\ cache' = cache /\ Fault
    BY <1>12 DEF UnmuteFails, RemovedUnawares
  <2> QED
    BY <2>1, <1>11, <1>12, UnmuteKeeps
<1>13. CASE HandleUnmuteAction(w)
  <2>1. PICK c \in Muted :
          \/ /\ Removed(c)
             /\ IF rec[c] # None THEN Begin(w, UnmuteJob(c), UnmuteJob(c), {})
                ELSE Begin(w, UnmuteJob(c), NoJob,
                           IF cache[c] = None THEN {} ELSE {"torn"})
          \/ /\ Fault
             /\ rec[c] # None
             /\ rec' = [rec EXCEPT ![c] = None]
             /\ cache' = [cache EXCEPT ![c] = None]
             /\ Begin(w, UnmuteJob(c), NoJob, {"torn"})
          \/ UnmuteFails(w, c)
    BY <1>13 DEF HandleUnmuteAction
  <2>2. c \in Chats /\ UNCHANGED <<everywhere, now, tg, issued>>
    BY <1>13 DEF Muted, HandleUnmuteAction
  <2>3. CASE Removed(c) /\ rec[c] # None /\ Begin(w, UnmuteJob(c), UnmuteJob(c), {})
    <3>1. /\ rec' = [rec EXCEPT ![c] = None] /\ cache' = [cache EXCEPT ![c] = None]
          /\ faults' = faults
      BY <2>3 DEF Removed
    <3> QED
      BY <2>2, <2>3, <3>1, <1>11, UnmuteKeeps
  <2>4. CASE /\ Removed(c) /\ rec[c] = None
             /\ Begin(w, UnmuteJob(c), NoJob, IF cache[c] = None THEN {} ELSE {"torn"})
    <3>1. /\ rec' = [rec EXCEPT ![c] = None] /\ cache' = [cache EXCEPT ![c] = None]
          /\ faults' = faults
      BY <2>4 DEF Removed
    <3>2. CASE cache[c] = None
      <4>1. Begin(w, UnmuteJob(c), NoJob, {})
        BY <2>4, <3>2
      <4> QED
        BY <2>2, <2>4, <3>1, <3>2, <4>1, <1>11, UnmuteKeeps
    <3>3. CASE cache[c] # None
      <4>1. Begin(w, UnmuteJob(c), NoJob, {"torn"})
        BY <2>4, <3>3
      <4> QED
        BY <2>2, <3>1, <4>1, <1>11, UnmuteKeeps
    <3> QED
      BY <3>2, <3>3
  <2>5. CASE /\ Fault /\ rec' = [rec EXCEPT ![c] = None]
             /\ cache' = [cache EXCEPT ![c] = None]
             /\ Begin(w, UnmuteJob(c), NoJob, {"torn"})
    BY <2>2, <2>5, <1>11, UnmuteKeeps
  <2>6. CASE UnmuteFails(w, c)
    BY <2>2, <2>6, <1>12
  <2> QED
    BY <2>1, <2>3, <2>4, <2>5, <2>6
<1>14. CASE WebUnmuteUser(w)
  <2>1. PICK c \in Muted : \/ Removed(c) /\ Begin(w, UnmuteJob(c), UnmuteJob(c), {})
                           \/ UnmuteFails(w, c)
    BY <1>14 DEF WebUnmuteUser
  <2>2. c \in Chats /\ UNCHANGED <<everywhere, now, tg, issued>>
    BY <1>14 DEF Muted, WebUnmuteUser
  <2>3. CASE Removed(c) /\ Begin(w, UnmuteJob(c), UnmuteJob(c), {})
    <3>1. /\ rec' = [rec EXCEPT ![c] = None] /\ cache' = [cache EXCEPT ![c] = None]
          /\ faults' = faults
      BY <2>3 DEF Removed
    <3> QED
      BY <2>2, <2>3, <3>1, <1>11, UnmuteKeeps
  <2>4. CASE UnmuteFails(w, c)
    BY <2>2, <2>4, <1>12
  <2> QED
    BY <2>1, <2>3, <2>4
<1>15. CASE CheckExpiredMutes(w)
  BY <1>15, ExpireKeeps
<1> QED
  BY <1>3, <1>4, <1>5, <1>6, <1>7, <1>8, <1>9, <1>10, <1>13, <1>14, <1>15 DEF Start

LEMMA StutterKeeps ==
  ASSUME EInv, UNCHANGED vars
  PROVE  EInv'
<1>1. /\ UNCHANGED <<everywhere, now, rec, cache, tg, job, issued, faults, upset>>
      /\ TypeOK /\ Jobs /\ Dated
  BY DEF vars, EInv, Typed
<1>2. Typed'
  <2>1. Jobs' /\ Dated'
    BY <1>1 DEF Jobs, Formed, Near, Dated
  <2> QED
    BY <1>1, <2>1 DEF Typed, TypeOK
<1>3. now' >= now
  BY <1>1, Numbers DEF TypeOK
<1> QED
  BY <1>1, <1>2, <1>3, AgeKeeps

LEMMA EInvIsKept == Spec => []EInv
<1>1. Init => EInv
  BY InitOK
<1>2. EInv /\ [Next]_vars => EInv'
  <2> SUFFICES ASSUME EInv, [Next]_vars
               PROVE  EInv'
    OBVIOUS
  <2>1. ASSUME NEW w \in Workers, Start(w)
        PROVE  EInv'
    BY <2>1, StartKeeps
  <2>2. ASSUME NEW w \in Workers, GoOn(w)
        PROVE  EInv'
    BY <2>2, RestrictKeeps, RollbackKeeps, FreeKeeps, NextExpiredKeeps, DropKeeps
       DEF GoOn
  <2>3. CASE Reload
    BY <2>3, ReloadKeeps
  <2>4. CASE Crash
    BY <2>4, CrashKeeps
  <2>5. CASE CleanupExpiredMutes
    BY <2>5, CleanupKeeps
  <2>6. CASE Tick
    BY <2>6, TickKeeps
  <2>7. CASE UNCHANGED vars
    BY <2>7, StutterKeeps
  <2> QED
    BY <2>1, <2>2, <2>3, <2>4, <2>5, <2>6, <2>7 DEF Next
<1> QED
  BY <1>1, <1>2, PTL DEF Spec

\* Whatever handlers, checker, reloads, cleanup and crashes do in whatever
\* order, the variables keep their types, and a goroutine has chats left to
\* visit exactly while it restricts or frees (restrictUserInChats,
\* unrestrictUserInChats).
THEOREM TypeCorrect == Spec => []TypeOK
<1>1. EInv => TypeOK
  BY DEF EInv, Typed
<1> QED
  BY <1>1, EInvIsKept, PTL

\* A chat no handler is at work on is one no job is named for.
LEMMA AtRestIs ==
  ASSUME EInv, NEW t \in Chats
  PROVE  AtRest(t) <=> Idle(t)
<1>1. ASSUME NEW w \in Workers
      PROVE  t \in Scope(job[w]) <=> \E c \in Busy(job[w]) : Near(c, t)
  <2>1. job[w] \in Job /\ Busy(job[w]) \subseteq Chats /\ everywhere \in BOOLEAN
    BY BusyChats DEF EInv, Typed, Jobs, TypeOK
  <2> QED
    BY <2>1, ScopeIs
<1> QED
  BY <1>1 DEF AtRest, Idle

\* A mute on record is carried out: when no goroutine is at work on a chat, and
\* handlers have not torn it since one last had it to itself, the mute that
\* AddMutedUserSafely recorded there is a restriction in every chat that
\* restrictUserInChats had to visit, or HandleMuteAction and the others have
\* rolled it back.
THEOREM MutesAreCarriedOut == Spec => []MutedIsRestricted
<1>1. EInv => MutedIsRestricted
  <2> SUFFICES ASSUME EInv, NEW c \in Chats, Active(rec[c]), rec[c].is # "cruel",
                      \A t \in Targets(c) : /\ AtRest(t)
                                            /\ upset[t] \cap {"torn", "crossed"} = {},
                      NEW t \in Targets(c)
               PROVE  tg[t] >= rec[c].until
    BY DEF MutedIsRestricted
  <2>1. everywhere \in BOOLEAN /\ rec[c] \in Record
    BY DEF EInv, Typed, TypeOK
  <2>2. t \in Chats /\ c \in Targets(c) /\ Near(c, t)
    BY <2>1, TargetsAre
  <2>3. Clean(c) /\ Idle(c)
    BY <2>2, AtRestIs DEF Clean
  <2>4. rec[c].is = "plain"
    BY <2>1, RecordIs DEF Active
  <2> QED
    BY <2>2, <2>3, <2>4 DEF EInv, MutesCarried, Carried
<1> QED
  BY <1>1, EInvIsKept, PTL

\* The converse: a restriction that restrictUserInChats made, and that no
\* goroutine is lifting, is on record where checkExpiredMutes will find it,
\* unless handlers overlapped, Telegram refused, or a reload forgot it.
THEOREM RestrictionsAreRecorded == Spec => []FreeUnlessRecorded
<1>1. EInv => FreeUnlessRecorded
  <2> SUFFICES ASSUME EInv, NEW t \in Chats, Unaccounted(t, {"crossed"})
               PROVE  FALSE
    BY DEF FreeUnlessRecorded
  <2>1. /\ Idle(t) /\ Restricted(t) /\ Quiet(t)
        /\ \A c \in Chats : Near(c, t) => cache[c] = None
    <3>1. everywhere \in BOOLEAN
      BY DEF EInv, Typed, TypeOK
    <3> QED
      BY <3>1, AtRestIs, BehindIs DEF Unaccounted, Quiet
  <2>2. CASE \E c \in Chats : Near(c, t) /\ cache[c].is = "plain"
    BY <2>1, <2>2, NoneTyped
  <2>3. CASE \E w \in Workers : job[w].step = "free" /\ t \in job[w].todo
    <3>1. PICK w \in Workers : job[w].step = "free" /\ t \in job[w].todo
      BY <2>3
    <3>2. Near(job[w].chat, t) /\ job[w].chat \in Busy(job[w])
      BY <3>1 DEF EInv, Typed, Jobs, Formed, Busy
    <3> QED
      BY <2>1, <3>2 DEF Idle
  <2> QED
    BY <2>1, <2>2, <2>3 DEF EInv, Accounted
<1> QED
  BY <1>1, EInvIsKept, PTL
==============================================================================
