--------------------------- MODULE Messages_proofs ---------------------------
(***************************************************************************)
(* What the bot keeps of the messages of a chat, for any number of them:   *)
(* marks that hold against the clean-up, a queue that forgets nothing, a   *)
(* counter that counts once and edits that keep the original.              *)
(***************************************************************************)
EXTENDS Messages, TLAPS, FiniteSetTheorems

\* Messages are not the words that stand for the states of a job.
Named == Msgs \cap {"idle", "delete"} = {}

---------------------------------------------------------------------------
(* The inductive invariants.                                               *)

Extras == SUBSET {"link", "diff"}
Rows == [text : Texts \cup {0}, extra : Extras]

Shape ==
  /\ chat \in [Msgs -> {"unsent", "here", "cleaned", "purged"}]
  /\ row \in [Msgs -> SUBSET Rows]
  /\ queue \in [Msgs -> {"no", "yes", "pinned"}]
  /\ aged \in [chat : SUBSET Msgs, rows : SUBSET Msgs]
  /\ edit \in [of : SUBSET Msgs, text : Texts \cup {0}, extra : Extras, big : BOOLEAN]
  /\ feature \in [Msgs -> {"none", "link", "done"}]
  /\ job \in [Jobs -> [pc : Msgs \cup {"idle", "delete"}, todo : SUBSET Msgs]]

Sent(m) == chat[m] # "unsent"

\* What is stored, old or on a list was sent.
KnownWereSent ==
  /\ \A m \in Msgs : row[m] # {} => Sent(m)
  /\ \A m \in aged.chat \cup edit.of : Sent(m)
  /\ \A k \in Jobs : \A m \in job[k].todo : Sent(m)

\* A message that a job is done with is gone, or was refused.
Dealt ==
  \A k \in Jobs : \A m \in Msgs :
    job[k].pc = m => m \in job[k].todo /\ (chat[m] # "here" \/ m \in refused)

LInv == Shape /\ KnownWereSent /\ Dealt

\* The clean-up does not touch those whose messages are kept.
ExcludedKept ==
  \A m \in Msgs \cap Excluded :
    queue[m] # "yes" /\ m \notin job["cleanup"].todo /\ chat[m] # "cleaned"

\* A mark is a mark in the queue, and off the clean-up's list, or was lost with the message.
MarkHolds(m) ==
  \/ chat[m] = "purged"
  \/ chat[m] = "here" /\ queue[m] = "pinned" /\ m \notin job["cleanup"].todo

PInv ==
  /\ ExcludedKept
  /\ marked \subseteq Msgs
  /\ \A m \in Msgs : queue[m] = "pinned" => m \in marked
  /\ \A m \in Msgs \cap (marked \ (late \cup refused)) : MarkHolds(m)

\* The difference to the original is in the row, and in the hands of whoever replaces it.
DiffKept(m) ==
  /\ row[m] # {} /\ \A r \in row[m] : "diff" \in r.extra
  /\ edit.of = {m} => "diff" \in edit.extra

EInv ==
  /\ edit = NoEdit \/ \E m \in Msgs : edit.of = {m}
  /\ edited \subseteq Msgs
  /\ \A m \in edited \ raced : DiffKept(m)

---------------------------------------------------------------------------
(* What the jobs rest on.                                                  *)

LEMMA InitLInv == Named /\ Init => LInv
<1> SUFFICES ASSUME Named, Init PROVE LInv
    OBVIOUS
<1>1. Shape
    BY DEF Init, Shape, NoEdit, NoJob, Extras
<1> QED
    BY <1>1 DEF Init, LInv, KnownWereSent, Dealt, NoJob, NoEdit, Named

\* A recording keeps the tables in their types.
LEMMA RecordShape ==
  ASSUME Shape, NEW m \in Msgs, NEW n, Record(m, n)
  PROVE  row' \in [Msgs -> SUBSET Rows] /\ queue' \in [Msgs -> {"no", "yes", "pinned"}]
<1>1. Upserted(m) \in Rows
    BY DEF Upserted, Shape, Rows, Extras
<1>2. row' \in [Msgs -> SUBSET Rows]
    BY <1>1 DEF Record, Put, Shape
<1>3. Queued(m) \in {"no", "yes", "pinned"}
    BY DEF Queued, Anew, Shape
<1> QED
    BY <1>2, <1>3 DEF Record, Shape

LEMMA NextLInv == Named /\ LInv /\ [Next]_vars => LInv'
<1> SUFFICES ASSUME Named, LInv, [Next]_vars PROVE LInv'
    OBVIOUS
<1> USE DEF LInv
<1>1. ASSUME NEW m \in Msgs, Receive(m) PROVE LInv'
  <2>1. row' \in [Msgs -> SUBSET Rows] /\ queue' \in [Msgs -> {"no", "yes", "pinned"}]
    <3>1. Queued(m) \in {"no", "yes", "pinned"}
        BY DEF Queued, Anew, Shape
    <3>2. CASE \E n : Record(m, n)
        BY <3>2, RecordShape
    <3> QED
        BY <1>1, <3>1, <3>2 DEF Receive, Shape
  <2>2. \A q \in Msgs \ {m} : row'[q] = row[q]
      BY <1>1 DEF Receive, Record, Put, Shape
  <2>3. /\ chat' = [chat EXCEPT ![m] = "here"] /\ chat[m] \in {"unsent", "here"}
        /\ feature' = [feature EXCEPT ![m] = IF m \in Written THEN "link" ELSE @]
        /\ aged' = aged /\ edit' = edit /\ job' = job /\ refused' = refused
      BY <1>1 DEF Receive
  <2>4. Shape'
      BY <2>1, <2>3 DEF Shape
  <2>5. KnownWereSent'
      BY <2>2, <2>3 DEF KnownWereSent, Sent, Shape
  <2>6. Dealt'
      BY <2>3 DEF Dealt, KnownWereSent, Sent, Shape
  <2> QED
      BY <2>4, <2>5, <2>6
<1>2. ASSUME NEW m \in Msgs, NEW text \in Texts, NEW big \in BOOLEAN, EditRead(m, text, big)
      PROVE  LInv'
  <2>1. edit' \in [of : SUBSET Msgs, text : Texts \cup {0}, extra : Extras, big : BOOLEAN]
      BY <1>2 DEF EditRead, Shape, Rows
  <2> QED
      BY <1>2, <2>1 DEF EditRead, Shape, KnownWereSent, Sent, Dealt, history
<1>3. CASE EditWrite
  <2>1. PICK m \in Msgs :
          /\ \/ row' = row
             \/ row[m] # {} /\ Put(m, [text |-> edit.text, extra |-> ExtraAfter(edit)])
          /\ queue' = [queue EXCEPT ![m] = Queued(m)]
      BY <1>3 DEF EditWrite, Shape
  <2>2. [text |-> edit.text, extra |-> ExtraAfter(edit)] \in Rows
      BY DEF Shape, Rows, Extras, ExtraAfter
  <2>3. row' \in [Msgs -> SUBSET Rows] /\ \A q \in Msgs : row'[q] # {} => row[q] # {}
      BY <2>1, <2>2 DEF Shape, Put
  <2>4. queue' \in [Msgs -> {"no", "yes", "pinned"}]
      BY <2>1 DEF Shape, Queued, Anew
  <2>5. edit' \in [of : SUBSET Msgs, text : Texts \cup {0}, extra : Extras, big : BOOLEAN]
      BY <1>3 DEF EditWrite, NoEdit, Extras
  <2>7. edit'.of = {}
      BY <1>3 DEF EditWrite, NoEdit
  <2>6. /\ chat' = chat /\ aged' = aged /\ feature' = feature /\ job' = job
        /\ refused' = refused
      BY <1>3 DEF EditWrite
  <2> QED
      BY <2>3, <2>4, <2>5, <2>6, <2>7 DEF Shape, KnownWereSent, Sent, Dealt
<1>4. ASSUME NEW m \in Msgs, Pin(m) PROVE LInv'
    BY <1>4 DEF Pin, Shape, KnownWereSent, Sent, Dealt
<1>5. ASSUME NEW m \in Msgs, StoreLinks(m) PROVE LInv'
  <2>1. row' \in [Msgs -> SUBSET Rows] /\ \A q \in Msgs : row'[q] # {} => row[q] # {}
    <3>1. \A r \in Rows : [r EXCEPT !.extra = {"link"}] \in Rows
        BY DEF Rows, Extras
    <3>2. {[r EXCEPT !.extra = {"link"}] : r \in row[m]} \subseteq Rows
        BY <3>1 DEF Shape
    <3> QED
        BY <1>5, <3>2 DEF StoreLinks, Shape
  <2> QED
      BY <1>5, <2>1 DEF StoreLinks, Shape, KnownWereSent, Sent, Dealt
<1>6. ASSUME NEW what \in {"chat", "rows"}, Age(what) PROVE LInv'
  <2>1. PICK old \in SUBSET {m \in Msgs : Sent(m)} : aged' = [aged EXCEPT ![what] = old]
      BY <1>6 DEF Age, Sent
  <2>2. aged' \in [chat : SUBSET Msgs, rows : SUBSET Msgs]
      BY <2>1 DEF Shape
  <2>3. \A m \in aged'.chat : Sent(m)
      BY <2>1 DEF Shape, KnownWereSent
  <2> QED
      BY <1>6, <2>2, <2>3 DEF Age, Shape, KnownWereSent, Sent, Dealt, history
<1>7. ASSUME NEW k \in Jobs, NEW todo \in SUBSET Msgs, Start(k, todo),
             \A m \in todo : Sent(m)
      PROVE  LInv'
    BY <1>7 DEF Start, Shape, KnownWereSent, Sent, Dealt, history, Named
<1>8. CASE StartCleanup
  <2>1. ToClean \in SUBSET Msgs /\ \A m \in ToClean : Sent(m)
      BY DEF ToClean, Shape, KnownWereSent
  <2> QED
      BY <1>7, <1>8, <2>1 DEF StartCleanup, Jobs
<1>9. CASE StartPurge
  <2>1. \A b : ToPurge(b) \in SUBSET Msgs /\ \A m \in ToPurge(b) : Sent(m)
      BY DEF ToPurge, KnownWereSent
  <2> QED
      BY <1>7, <1>9, <2>1 DEF StartPurge, Jobs
<1>10. ASSUME NEW k \in Jobs, DeleteOne(k) PROVE LInv'
  <2>1. PICK m \in job[k].todo :
          /\ job' = [job EXCEPT ![k].pc = m]
          /\ \/ /\ chat[m] = "here"
                /\ chat' = [chat EXCEPT ![m] = IF k = "cleanup" THEN "cleaned" ELSE "purged"]
                /\ UNCHANGED refused
             \/ /\ refused' = IF chat[m] = "here" THEN refused \cup {m} ELSE refused
                /\ UNCHANGED <<chat>>
      BY <1>10 DEF DeleteOne
  <2>2. m \in Msgs
      BY <2>1 DEF Shape
  <2>3. Shape'
      BY <1>10, <2>1, <2>2 DEF DeleteOne, Shape
  <2>4. \A q \in Msgs : Sent(q)' <=> Sent(q)
      BY <2>1, <2>2 DEF Sent, Shape
  <2>5. job'[k].pc = m /\ \A j \in Jobs : job'[j].todo = job[j].todo
      BY <2>1 DEF Shape
  <2>6. KnownWereSent'
      BY <1>10, <2>4, <2>5 DEF DeleteOne, KnownWereSent, Shape
  <2>7. (chat'[m] # "here" \/ m \in refused') /\ refused \subseteq refused'
        /\ \A q \in Msgs : chat[q] # "here" => chat'[q] # "here"
      BY <2>1, <2>2 DEF Shape
  <2>8. \A j \in Jobs \ {k} : job'[j] = job[j]
      BY <2>1 DEF Shape
  <2>9. Dealt'
      BY <2>1, <2>5, <2>7, <2>8 DEF Dealt
  <2> QED
      BY <2>3, <2>6, <2>9
<1>11. ASSUME NEW k \in Jobs, RemoveOne(k) PROVE LInv'
  <2>1. PICK d \in [pc : {"idle", "delete"}, todo : SUBSET job[k].todo] :
            job' = [job EXCEPT ![k] = d]
    <3>1. PICK rest \in SUBSET job[k].todo :
            job' = [job EXCEPT ![k] = IF rest = {} THEN NoJob
                                      ELSE [pc |-> "delete", todo |-> rest]]
        BY <1>11 DEF RemoveOne
    <3>2. (IF rest = {} THEN NoJob ELSE [pc |-> "delete", todo |-> rest])
             \in [pc : {"idle", "delete"}, todo : SUBSET job[k].todo]
        BY DEF NoJob
    <3> QED
        BY <3>1, <3>2
  <2>2. queue' \in [Msgs -> {"no", "yes", "pinned"}]
      BY <1>11 DEF RemoveOne, Removed, Shape
  <2>3. Shape'
      BY <1>11, <2>1, <2>2 DEF RemoveOne, Shape
  <2>4. KnownWereSent'
      BY <1>11, <2>1 DEF RemoveOne, KnownWereSent, Sent, Shape
  <2>5. Dealt'
      BY <1>11, <2>1 DEF RemoveOne, Dealt, Named, Shape, history
  <2> QED
      BY <2>3, <2>4, <2>5
<1>12. CASE CleanupRows
    BY <1>12 DEF CleanupRows, Shape, KnownWereSent, Sent, Dealt
<1>13. CASE Crash
  <2>1. Shape'
      BY <1>13 DEF Crash, Shape, NoEdit, NoJob, Extras
  <2>2. \A k \in Jobs : job'[k].todo = {} /\ job'[k].pc = "idle"
      BY <1>13 DEF Crash, NoJob
  <2>3. KnownWereSent'
      BY <1>13, <2>2 DEF Crash, NoEdit, KnownWereSent, Sent
  <2>4. Dealt'
      BY <2>2 DEF Dealt, Named
  <2> QED
      BY <2>1, <2>3, <2>4
<1>14. CASE UNCHANGED vars
    BY <1>14 DEF vars, history, Shape, KnownWereSent, Sent, Dealt
<1> QED
    BY <1>1, <1>2, <1>3, <1>4, <1>5, <1>6, <1>8, <1>9, <1>10, <1>11, <1>12, <1>13, <1>14
    DEF Next

---------------------------------------------------------------------------
(* Marks.                                                                  *)

\* A step that leaves alone what a mark rests on.
MarksStay ==
  /\ chat' = chat /\ queue' = queue /\ job'["cleanup"].todo \subseteq job["cleanup"].todo
  /\ marked' = marked /\ late' = late /\ refused' = refused

LEMMA MarksKept ==
  ASSUME PInv, MarksStay
  PROVE  PInv'
BY DEF PInv, MarksStay, ExcludedKept, MarkHolds

\* What recording puts into the queue.
LEMMA QueuedMarks ==
  ASSUME LInv, PInv, NEW m \in Msgs, queue' = [queue EXCEPT ![m] = Queued(m)],
         marked' = IF queue'[m] = "pinned" THEN marked \cup {m} ELSE marked,
         job' = job, late' = late, refused' = refused,
         \A q \in Msgs \ {m} : chat'[q] = chat[q],
         chat'[m] = chat[m] \/ (chat[m] = "unsent" /\ chat'[m] = "here"),
         Sent(m)'
  PROVE  PInv'
<1>1. /\ queue'[m] = Queued(m) /\ \A q \in Msgs \ {m} : queue'[q] = queue[q]
      /\ Queued(m) \in {"yes", "pinned"}
      /\ queue[m] = "pinned" => Queued(m) = "pinned"
      /\ m \in Excluded /\ queue[m] # "yes" => Queued(m) = "pinned"
      /\ Queued(m) = "pinned" => queue[m] = "pinned" \/ (queue[m] = "no" /\ m \in Excluded)
    BY DEF LInv, Shape, Queued, Anew
<1>2. ExcludedKept'
    BY <1>1 DEF PInv, ExcludedKept
<1>3. \A q \in Msgs : queue'[q] = "pinned" => q \in marked'
    BY <1>1 DEF PInv
<1>4. ASSUME NEW q \in Msgs \cap (marked' \ (late' \cup refused'))
      PROVE  MarkHolds(q)'
  <2>1. CASE q # m
      BY <1>1, <1>4, <2>1 DEF PInv, MarkHolds
  <2>2. CASE q = m /\ m \in marked
    <3>1. MarkHolds(m)
        BY <1>4, <2>2 DEF PInv
    <3> QED
        BY <1>1, <2>2, <3>1 DEF MarkHolds
  <2>3. CASE q = m /\ m \notin marked
    <3>1. Queued(m) = "pinned" /\ m \in Excluded
        BY <1>1, <1>4, <2>3 DEF PInv
    <3>2. m \notin job["cleanup"].todo /\ chat[m] # "cleaned"
        BY <3>1 DEF PInv, ExcludedKept
    <3> QED
        BY <1>1, <2>3, <3>1, <3>2 DEF LInv, Shape, MarkHolds, Sent
  <2> QED
      BY <2>1, <2>2, <2>3
<1> QED
    BY <1>2, <1>3, <1>4 DEF PInv

LEMMA NextPInv == Named /\ LInv /\ PInv /\ [Next]_vars => PInv'
<1> SUFFICES ASSUME Named, LInv, PInv, [Next]_vars PROVE PInv'
    OBVIOUS
<1>0. Shape
    BY DEF LInv
<1>1. ASSUME NEW m \in Msgs, Receive(m) PROVE PInv'
  <2>1. /\ \A q \in Msgs \ {m} : chat'[q] = chat[q]
        /\ chat'[m] = chat[m] \/ (chat[m] = "unsent" /\ chat'[m] = "here")
        /\ Sent(m)'
        /\ job' = job /\ late' = late /\ refused' = refused
      BY <1>0, <1>1 DEF Receive, Shape, Sent
  <2>2. CASE queue' = queue /\ marked' = marked
    <3>1. chat[m] # "here" => queue[m] # "pinned" \/ m \in marked
        BY DEF PInv
    <3>2. ExcludedKept'
        BY <2>1, <2>2 DEF PInv, ExcludedKept
    <3>3. ASSUME NEW q \in Msgs \cap (marked' \ (late' \cup refused'))
          PROVE  MarkHolds(q)'
        BY <2>1, <2>2, <3>3 DEF PInv, MarkHolds
    <3> QED
        BY <2>1, <2>2, <3>2, <3>3 DEF PInv
  <2>3. CASE /\ queue' = [queue EXCEPT ![m] = Queued(m)]
             /\ marked' = IF queue'[m] = "pinned" THEN marked \cup {m} ELSE marked
      BY <2>1, <2>3, QueuedMarks
  <2> QED
      BY <1>1, <2>2, <2>3 DEF Receive, Record
<1>2. ASSUME NEW m \in Msgs, NEW text \in Texts, NEW big \in BOOLEAN, EditRead(m, text, big)
      PROVE  PInv'
    BY <1>2, MarksKept DEF EditRead, MarksStay, history
<1>3. CASE EditWrite
  <2>1. PICK m \in edit.of :
          /\ queue' = [queue EXCEPT ![m] = Queued(m)]
          /\ marked' = IF queue'[m] = "pinned" THEN marked \cup {m} ELSE marked
      BY <1>3 DEF EditWrite
  <2>2. m \in Msgs /\ Sent(m)
      BY <1>0 DEF LInv, KnownWereSent, Shape
  <2>3. chat' = chat /\ job' = job /\ late' = late /\ refused' = refused
      BY <1>3 DEF EditWrite
  <2> QED
      BY <2>1, <2>2, <2>3, QueuedMarks DEF Sent
<1>4. ASSUME NEW m \in Msgs, Pin(m) PROVE PInv'
  <2>1. CASE UNCHANGED <<queue, marked, late>>
      BY <1>4, <2>1, MarksKept DEF Pin, MarksStay
  <2>2. CASE /\ queue' = [queue EXCEPT ![m] = IF @ = "no" THEN @ ELSE "pinned"]
             /\ marked' = IF queue[m] = "no" THEN marked ELSE marked \cup {m}
             /\ late' = IF m \in job["cleanup"].todo THEN late \cup {m} ELSE late
    <3>1. /\ queue'[m] = IF queue[m] = "no" THEN "no" ELSE "pinned"
          /\ \A q \in Msgs \ {m} : queue'[q] = queue[q]
          /\ chat' = chat /\ job' = job /\ refused' = refused /\ chat[m] = "here"
        BY <1>0, <1>4, <2>2 DEF Pin, Shape
    <3> QED
        BY <2>2, <3>1 DEF PInv, ExcludedKept, MarkHolds
  <2> QED
      BY <1>4, <2>1, <2>2 DEF Pin
<1>5. CASE \/ \E m \in Msgs : StoreLinks(m)
           \/ \E what \in {"chat", "rows"} : Age(what)
           \/ CleanupRows \/ UNCHANGED vars
    BY <1>5, MarksKept DEF StoreLinks, Age, CleanupRows, vars, history, MarksStay
<1>6. CASE StartPurge
  <2>1. PICK todo : Start("purge", todo)
      BY <1>6 DEF StartPurge
  <2>2. job'["cleanup"] = job["cleanup"]
      BY <1>0, <2>1 DEF Start, Shape, Jobs
  <2> QED
      BY <2>1, <2>2, MarksKept DEF Start, MarksStay, history
<1>7. CASE StartCleanup
  <2>1. job'["cleanup"].todo = ToClean
      BY <1>0, <1>7 DEF StartCleanup, Start, Shape, Jobs
  <2>2. /\ chat' = chat /\ queue' = queue
        /\ marked' = marked /\ late' = late /\ refused' = refused
      BY <1>7 DEF StartCleanup, Start, history
  <2>3. \A m \in ToClean : queue[m] = "yes"
      BY DEF ToClean
  <2>4. ExcludedKept'
      BY <2>1, <2>2, <2>3 DEF PInv, ExcludedKept
  <2>5. ASSUME NEW m \in Msgs \cap (marked \ (late \cup refused))
        PROVE  MarkHolds(m)'
      BY <2>1, <2>2, <2>3 DEF PInv, MarkHolds
  <2> QED
      BY <2>2, <2>4, <2>5 DEF PInv
<1>8. ASSUME NEW k \in Jobs, DeleteOne(k) PROVE PInv'
  <2>1. PICK m \in job[k].todo :
          /\ job' = [job EXCEPT ![k].pc = m]
          /\ \/ /\ chat[m] = "here"
                /\ chat' = [chat EXCEPT ![m] = IF k = "cleanup" THEN "cleaned" ELSE "purged"]
                /\ UNCHANGED refused
             \/ /\ refused' = IF chat[m] = "here" THEN refused \cup {m} ELSE refused
                /\ UNCHANGED <<chat>>
      BY <1>8 DEF DeleteOne
  <2>2. m \in Msgs /\ \A j \in Jobs : job'[j].todo = job[j].todo
      BY <1>0, <2>1 DEF Shape
  <2>3. queue' = queue /\ marked' = marked /\ late' = late
      BY <1>8 DEF DeleteOne
  <2>4. CASE k = "cleanup"
    <3>1. /\ m \in job["cleanup"].todo /\ refused \subseteq refused'
          /\ \A q \in Msgs \ {m} : chat'[q] = chat[q]
          /\ job'["cleanup"].todo = job["cleanup"].todo
          /\ chat'[m] = chat[m] \/ chat[m] = "here"
        BY <1>0, <2>1, <2>2, <2>4 DEF Shape
    <3>2. m \notin Excluded
        BY <2>2, <3>1 DEF PInv, ExcludedKept
    <3>3. ExcludedKept'
        BY <2>3, <3>1, <3>2 DEF PInv, ExcludedKept
    <3>4. ASSUME NEW q \in Msgs \cap (marked \ (late \cup refused'))
          PROVE  MarkHolds(q)'
        BY <2>3, <3>1, <3>4 DEF PInv, MarkHolds
    <3> QED
        BY <2>3, <3>3, <3>4 DEF PInv
  <2>5. CASE k = "purge"
    <3>1. /\ refused \subseteq refused'
          /\ \A q \in Msgs : chat'[q] = chat[q] \/ chat'[q] = "purged"
          /\ job'["cleanup"].todo = job["cleanup"].todo
        BY <1>0, <2>1, <2>2, <2>5 DEF Shape, Jobs
    <3>2. ExcludedKept'
        BY <2>3, <3>1 DEF PInv, ExcludedKept
    <3>3. ASSUME NEW q \in Msgs \cap (marked \ (late \cup refused'))
          PROVE  MarkHolds(q)'
        BY <2>3, <3>1, <3>3 DEF PInv, MarkHolds
    <3> QED
        BY <2>3, <3>2, <3>3 DEF PInv
  <2> QED
      BY <2>4, <2>5 DEF Jobs
<1>9. ASSUME NEW k \in Jobs, RemoveOne(k) PROVE PInv'
  <2>1. PICK m \in Msgs : job[k].pc = m
      BY <1>9 DEF RemoveOne
  <2>2. m \in job[k].todo /\ (chat[m] # "here" \/ m \in refused)
      BY <2>1 DEF LInv, Dealt
  <2>3. /\ \A q \in Msgs \ {m} : queue'[q] = queue[q]
        /\ queue'[m] = queue[m] \/ queue'[m] = "no"
      BY <1>0, <1>9, <2>1 DEF RemoveOne, Removed, Shape
  <2>4. job'["cleanup"].todo \subseteq job["cleanup"].todo
      BY <1>0, <1>9 DEF RemoveOne, NoJob, Shape, Jobs
  <2>5. chat' = chat /\ marked' = marked /\ late' = late /\ refused' = refused
      BY <1>9 DEF RemoveOne, history
  <2>6. ExcludedKept'
      BY <2>3, <2>4, <2>5 DEF PInv, ExcludedKept
  <2>7. ASSUME NEW q \in Msgs \cap (marked \ (late \cup refused))
        PROVE  MarkHolds(q)'
      BY <2>2, <2>3, <2>4, <2>5, <2>7 DEF PInv, MarkHolds
  <2> QED
      BY <2>3, <2>5, <2>6, <2>7 DEF PInv
<1>10. CASE Crash
  <2>1. job'["cleanup"].todo = {}
      BY <1>10 DEF Crash, NoJob, Jobs
  <2> QED
      BY <1>10, <2>1, MarksKept DEF Crash, MarksStay, history
<1> QED
    BY <1>1, <1>2, <1>3, <1>4, <1>5, <1>6, <1>7, <1>8, <1>9, <1>10 DEF Next

---------------------------------------------------------------------------
(* The queue.                                                              *)

\* A message that was recorded and is still there is in the queue, or was refused.
Queues(m) == chat[m] = "here" /\ queue[m] = "no" => m \in refused

QInv == seen \subseteq Msgs /\ \A m \in seen : Sent(m) /\ Queues(m)

LEMMA NextQInv == LInv /\ QInv /\ [Next]_vars => QInv'
<1> SUFFICES ASSUME LInv, QInv, [Next]_vars PROVE QInv'
    OBVIOUS
<1>0. Shape
    BY DEF LInv
<1>1. ASSUME seen' = seen, refused \subseteq refused',
             \A m \in Msgs : /\ Sent(m) => Sent(m)'
                             /\ Queues(m) => Queues(m)'
      PROVE  QInv'
    BY <1>1 DEF QInv
<1>2. \A m \in Msgs : Queued(m) # "no"
    BY <1>0 DEF Queued, Anew, Shape
<1>3. ASSUME NEW m \in Msgs, Receive(m) PROVE QInv'
  <2>1. refused' = refused /\ \A q \in Msgs \ {m} : chat'[q] = chat[q]
      BY <1>0, <1>3 DEF Receive, Shape
  <2>2. CASE seen' = seen /\ queue' = queue
    <3>1. CASE chat[m] = "here"
        BY <2>1, <2>2, <3>1, <1>0, <1>3 DEF Receive, QInv, Queues, Sent, Shape
    <3>2. CASE chat[m] # "here"
      <4>1. m \notin seen
          BY <1>3, <3>2 DEF Receive, QInv, Sent
      <4> QED
          BY <2>1, <2>2, <4>1 DEF QInv, Queues, Sent
    <3> QED
        BY <3>1, <3>2
  <2>3. CASE seen' \in {seen, seen \cup {m}} /\ queue' = [queue EXCEPT ![m] = Queued(m)]
    <3>1. queue'[m] # "no" /\ \A q \in Msgs \ {m} : queue'[q] = queue[q]
        BY <1>0, <1>2, <2>3 DEF Shape
    <3>2. chat'[m] = "here"
        BY <1>0, <1>3 DEF Receive, Shape
    <3> QED
        BY <2>1, <2>3, <3>1, <3>2 DEF QInv, Queues, Sent
  <2> QED
      BY <1>3, <2>2, <2>3 DEF Receive, Record
<1>4. CASE EditWrite
  <2>1. PICK m \in edit.of : queue' = [queue EXCEPT ![m] = Queued(m)]
      BY <1>4 DEF EditWrite
  <2>2. m \in Msgs /\ \A q \in Msgs : queue'[q] = "no" => queue[q] = "no"
      BY <1>0, <1>2, <2>1 DEF Shape
  <2> QED
      BY <1>1, <1>4, <2>2 DEF EditWrite, Queues, Sent
<1>5. ASSUME NEW m \in Msgs, Pin(m) PROVE QInv'
  <2>1. \A q \in Msgs : queue'[q] = "no" => queue[q] = "no"
      BY <1>0, <1>5 DEF Pin, Shape
  <2> QED
      BY <1>1, <1>5, <2>1 DEF Pin, Queues, Sent
<1>6. CASE /\ UNCHANGED <<chat, queue, refused, seen>>
    BY <1>1, <1>6 DEF Queues, Sent
<1>7. ASSUME NEW k \in Jobs, DeleteOne(k) PROVE QInv'
  <2>1. /\ queue' = queue /\ seen' = seen /\ refused \subseteq refused'
        /\ \A q \in Msgs : chat'[q] = chat[q] \/ chat'[q] \in {"cleaned", "purged"}
      BY <1>0, <1>7 DEF DeleteOne, Shape
  <2> QED
      BY <1>1, <2>1 DEF Queues, Sent
<1>8. ASSUME NEW k \in Jobs, RemoveOne(k) PROVE QInv'
  <2>1. PICK m \in Msgs : job[k].pc = m
      BY <1>8 DEF RemoveOne
  <2>2. chat[m] # "here" \/ m \in refused
      BY <2>1 DEF LInv, Dealt
  <2>3. \A q \in Msgs \ {m} : queue'[q] = queue[q]
      BY <1>0, <1>8, <2>1 DEF RemoveOne, Removed, Shape
  <2>4. chat' = chat /\ refused' = refused /\ seen' = seen
      BY <1>8 DEF RemoveOne, history
  <2> QED
      BY <1>1, <2>2, <2>3, <2>4 DEF Queues, Sent
<1>9. CASE \/ \E m \in Msgs, text \in Texts, big \in BOOLEAN : EditRead(m, text, big)
           \/ \E m \in Msgs : StoreLinks(m)
           \/ \E what \in {"chat", "rows"} : Age(what)
           \/ StartCleanup \/ StartPurge \/ CleanupRows \/ Crash \/ UNCHANGED vars
    BY <1>6, <1>9
    DEF EditRead, StoreLinks, Age, StartCleanup, StartPurge, Start, CleanupRows, Crash, vars,
        history
<1> QED
    BY <1>3, <1>4, <1>5, <1>7, <1>8, <1>9 DEF Next

---------------------------------------------------------------------------
(* The counter.                                                            *)

\* Nobody is reported before anything is counted.
CInv ==
  /\ IsFiniteSet(seen) /\ count \in Nat /\ alerts \in {0, 1} /\ again \in BOOLEAN
  /\ alerts = 1 => count > 0
  /\ CountedOnce

LEMMA RecordCounts ==
  ASSUME CInv, NEW m, NEW n \in {1, 2}, Record(m, n)
  PROVE  CInv'
<1> DEFINE c == Cardinality(seen)
<1>1. c \in Nat /\ (c = 0 <=> seen = {})
    BY FS_CardinalityType, FS_EmptySet DEF CInv
<1>2. /\ seen' = seen \cup {m} /\ IsFiniteSet(seen') /\ seen' # {}
      /\ Cardinality(seen') = IF m \in seen THEN c ELSE c + 1
    BY FS_AddElement DEF CInv, Record
<1>3. /\ count' = count + n /\ count \in Nat /\ count >= c
      /\ alerts' = IF count > 0 \/ n > 1 THEN alerts ELSE alerts + 1
      /\ again' = (again \/ n > 1 \/ m \in seen)
      /\ alerts \in {0, 1} /\ (alerts = 1 => count > 0)
      /\ ~again => count = c /\ alerts = IF seen = {} THEN 0 ELSE 1
    BY DEF Record, Counted, CInv, CountedOnce
<1> HIDE DEF c
<1>4. count' \in Nat /\ alerts' \in {0, 1} /\ count' > 0
    BY <1>3
<1>7. again' \in BOOLEAN
    BY <1>3, Zenon
<1>5. count' >= Cardinality(seen')
    BY <1>1, <1>2, <1>3
<1>6. ASSUME ~again'
      PROVE  count' = Cardinality(seen') /\ alerts' = 1
  <2>1. ~again /\ n = 1 /\ m \notin seen
    <3>1. ~(again \/ n > 1 \/ m \in seen)
        BY <1>3, <1>6, Zenon
    <3> QED
        BY <3>1
  <2> QED
      BY <1>1, <1>2, <1>3, <2>1
<1> QED
    BY <1>2, <1>4, <1>5, <1>6, <1>7 DEF CInv, CountedOnce

LEMMA NextCInv == CInv /\ [Next]_vars => CInv'
<1> SUFFICES ASSUME CInv, [Next]_vars PROVE CInv'
    OBVIOUS
<1>1. CASE UNCHANGED <<count, seen, again, alerts>>
    BY <1>1 DEF CInv, CountedOnce
<1>2. ASSUME NEW m \in Msgs, Receive(m) PROVE CInv'
    BY <1>1, <1>2, RecordCounts DEF Receive
<1> QED
    BY <1>1, <1>2
    DEF Next, EditRead, EditWrite, Pin, StoreLinks, Age, StartCleanup, StartPurge, Start,
        DeleteOne, RemoveOne, CleanupRows, Crash, vars, history

---------------------------------------------------------------------------
(* Edits.                                                                  *)

\* A step that leaves rows, edits and their history alone.
EditsStay == UNCHANGED <<row, edit, edited, raced>>

LEMMA NextEInv == LInv /\ EInv /\ [Next]_vars => EInv'
<1> SUFFICES ASSUME LInv, EInv, [Next]_vars PROVE EInv'
    OBVIOUS
<1>0. Shape /\ NoEdit.of = {}
    BY DEF LInv, NoEdit
<1>1. CASE EditsStay
    BY <1>1 DEF EditsStay, EInv, DiffKept
<1>2. ASSUME NEW m \in Msgs, Receive(m) PROVE EInv'
  <2>1. edit = NoEdit /\ edit' = edit /\ edited' = edited /\ raced' = raced
      BY <1>2 DEF Receive, Record
  <2>2. CASE row' = row
      BY <1>1, <2>1, <2>2 DEF EditsStay
  <2>3. CASE Put(m, Upserted(m))
    <3>1. row'[m] = {Upserted(m)} /\ \A q \in Msgs \ {m} : row'[q] = row[q]
        BY <1>0, <2>3 DEF Put, Shape
    <3>2. ASSUME m \in edited \ raced PROVE "diff" \in Upserted(m).extra
        BY <3>2 DEF EInv, DiffKept, Upserted
    <3>3. ASSUME NEW q \in edited \ raced
          PROVE  DiffKept(q)'
        BY <1>0, <2>1, <3>1, <3>2, <3>3 DEF EInv, DiffKept
    <3> QED
        BY <2>1, <3>3 DEF EInv
  <2> QED
      BY <1>2, <2>2, <2>3 DEF Receive, Record
<1>3. ASSUME NEW m \in Msgs, NEW text \in Texts, NEW big \in BOOLEAN, EditRead(m, text, big)
      PROVE  EInv'
  <2>1. PICK r \in row[m] :
          edit' = [of |-> {m}, text |-> text, extra |-> r.extra, big |-> big]
      BY <1>3 DEF EditRead
  <2>2. row' = row /\ edited' = edited /\ raced' = raced
      BY <1>3 DEF EditRead, history
  <2>3. ASSUME NEW q \in edited \ raced
        PROVE  DiffKept(q)'
      BY <2>1, <2>2 DEF EInv, DiffKept
  <2> QED
      BY <2>1, <2>2, <2>3 DEF EInv
<1>4. CASE EditWrite
  <2>1. PICK m \in Msgs : edit.of = {m}
      BY <1>4 DEF EditWrite, EInv
  <2>2. /\ edit' = NoEdit /\ raced \subseteq raced'
        /\ \/ /\ IF row[m] = {} THEN row' = row
                 ELSE Put(m, [text |-> edit.text, extra |-> ExtraAfter(edit)])
              /\ edited' = IF row[m] # {} /\ edit.big THEN edited \cup {m} ELSE edited
           \/ row' = row /\ edited' = edited
      BY <1>4, <2>1 DEF EditWrite
  <2>3. ASSUME NEW q \in edited' \ raced'
        PROVE  DiffKept(q)'
    <3>1. CASE row' = row /\ edited' = edited
        BY <1>0, <2>2, <2>3, <3>1 DEF EInv, DiffKept
    <3>2. CASE /\ row[m] # {}
               /\ Put(m, [text |-> edit.text, extra |-> ExtraAfter(edit)])
               /\ edited' = IF edit.big THEN edited \cup {m} ELSE edited
      <4>1. /\ row'[m] = {[text |-> edit.text, extra |-> ExtraAfter(edit)]}
            /\ \A p \in Msgs \ {m} : row'[p] = row[p]
          BY <1>0, <3>2 DEF Put, Shape
      <4>2. CASE q = m
        <5>1. edit.big \/ "diff" \in edit.extra
            BY <2>1, <2>2, <2>3, <3>2, <4>2 DEF EInv, DiffKept
        <5>2. "diff" \in ExtraAfter(edit)
            BY <5>1 DEF ExtraAfter
        <5> QED
            BY <1>0, <2>2, <4>1, <4>2, <5>2 DEF DiffKept
      <4>3. CASE q # m
          BY <1>0, <2>2, <2>3, <3>2, <4>1, <4>3 DEF EInv, DiffKept
      <4> QED
          BY <4>2, <4>3
    <3> QED
        BY <2>2, <3>1, <3>2
  <2> QED
      BY <2>2, <2>3 DEF EInv
<1>5. ASSUME NEW m \in Msgs, StoreLinks(m) PROVE EInv'
  <2>1. /\ edit' = edit /\ edited' = edited /\ raced \subseteq raced'
        /\ \A q \in Msgs \ {m} : row'[q] = row[q]
        /\ row'[m] = row[m] \/ m \in raced' \/ m \notin edited
      BY <1>0, <1>5 DEF StoreLinks, Shape
  <2> QED
      BY <2>1 DEF EInv, DiffKept
<1>6. CASE CleanupRows
  <2>1. /\ edit' = edit /\ raced' = raced /\ edited' \subseteq edited
        /\ \A q \in edited' : row'[q] = row[q]
      BY <1>0, <1>6 DEF CleanupRows, EInv
  <2> QED
      BY <2>1 DEF EInv, DiffKept
<1>7. CASE Crash
  <2>1. edit' = NoEdit /\ row' = row /\ edited' = edited /\ raced' = raced
      BY <1>7 DEF Crash, history
  <2> QED
      BY <1>0, <2>1 DEF EInv, DiffKept
<1>8. CASE \/ \E m \in Msgs : Pin(m)
           \/ \E what \in {"chat", "rows"} : Age(what)
           \/ StartCleanup \/ StartPurge \/ \E k \in Jobs : DeleteOne(k) \/ RemoveOne(k)
           \/ UNCHANGED vars
    BY <1>1, <1>8
    DEF Pin, Age, StartCleanup, StartPurge, Start, DeleteOne, RemoveOne, vars, history,
        EditsStay
<1> QED
    BY <1>2, <1>3, <1>4, <1>5, <1>6, <1>7, <1>8 DEF Next

---------------------------------------------------------------------------
(* The theorems.                                                           *)

LEMMA InitRest == Named /\ Init => PInv /\ QInv /\ CInv /\ EInv
<1> SUFFICES ASSUME Init PROVE PInv /\ QInv /\ CInv /\ EInv
    OBVIOUS
<1>1. PInv /\ QInv
    BY DEF Init, PInv, QInv, ExcludedKept, NoJob, Jobs
<1>2. CInv
  <2>1. IsFiniteSet({}) /\ Cardinality({}) = 0
      BY FS_EmptySet
  <2>2. seen = {} /\ count = 0 /\ alerts = 0 /\ again = FALSE
      BY DEF Init
  <2>3. IsFiniteSet(seen) /\ Cardinality(seen) = 0
      BY <2>1, <2>2
  <2>4. alerts \in {0, 1} /\ (alerts = 1 => count > 0) /\ count \in Nat
      BY <2>2
  <2>5. again \in BOOLEAN
      BY <2>2
  <2>6. CountedOnce
      BY <2>2, <2>3 DEF CountedOnce
  <2> QED
      BY <2>3, <2>4, <2>5, <2>6 DEF CInv
<1>3. EInv
    BY DEF Init, EInv
<1> QED
    BY <1>1, <1>2, <1>3

KInv == LInv /\ PInv /\ QInv /\ CInv /\ EInv

LEMMA InitKInv == Named /\ Init => KInv
BY InitLInv, InitRest DEF KInv

LEMMA NextKInv == Named /\ KInv /\ [Next]_vars => KInv'
BY NextLInv, NextPInv, NextQInv, NextCInv, NextEInv DEF KInv

\* Other parts of the bot may use up the budget of slips.
LEMMA OthersKeepKInv == KInv /\ UNCHANGED <<chat, row, queue, aged, count, edit, feature, job, history>> => KInv'
BY DEF KInv, LInv, Shape, KnownWereSent, Sent, Dealt, PInv, ExcludedKept, MarkHolds, QInv, Queues,
   CInv, CountedOnce, EInv, DiffKept, history

\* Whatever is delivered again, edited, pinned, cleaned up and purged in between, a message that
\* was marked as pinned before the clean-up had listed it is not cleaned up; unless Telegram
\* refused to delete it, and the mark was lost with its place in the queue.  (GetOldMessages,
\* MarkMessageAsPinned)
LEMMA MarksHold == KInv => PinnedStays
BY DEF KInv, PInv, MarkHolds, PinnedStays

\* A recorded message leaves the queue deleted or refused, whatever crashes.  (cleanupOldMessages,
\* deleteUserMessagesSince)
LEMMA QueueHolds == KInv => LeftOnlyIfRefused
BY DEF KInv, QInv, Queues, LeftOnlyIfRefused

\* A message counts once, and its sender is reported as new once.  (RecordIncomingMessage)
LEMMA CountHolds == KInv => CountedOnce
BY DEF KInv, CInv

\* The original of an edited message stays in its row.  (recordEditedMessage)
LEMMA DiffHolds == KInv => OriginalKept
BY DEF KInv, EInv, DiffKept, OriginalKept
==============================================================================
