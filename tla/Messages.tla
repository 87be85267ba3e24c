------------------------------ MODULE Messages ------------------------------
(***************************************************************************)
(* The messages of a moderation chat and what the bot keeps of them: the   *)
(* rows of message_info, the deletion queue, the sender's counters         *)
(* (database/operations.go), the pipeline's recording stages (filters.go,  *)
(* pipeline.go), the side features in their goroutine (ai_content.go,      *)
(* handler.go), the clean-up and the purge (scheduler.go,                  *)
(* message_purge.go).  Updates are handled one after the other; the        *)
(* goroutines, the clean-up and the purge go on beside them.  All messages *)
(* are one user's; verdicts are in Moderation, replies in Replies.         *)
(***************************************************************************)
EXTENDS Integers, FiniteSets

CONSTANTS
  Msgs,
  Excluded,      \* messages of users in message_deletion.excluded_user_ids
  Written,       \* messages that are edited and hold links
  Texts,         \* 0 is the text a message was sent with
  MaxSlips       \* failures, crashes and repeated updates

VARIABLES
  chat,      \* in Telegram: "unsent", "here", "cleaned" or "purged"
  row,       \* message_info: the text and what extra_info holds, {} without a row
  queue,     \* messages_for_deletion: "no", "yes", "pinned"
  aged,      \* messages older than the retention of the chat, and than that of message_info
  count,     \* user_daily_activity of the user and the day
  edit,      \* the edit that is being handled
  feature,   \* what the goroutine of a message is doing
  job,       \* the clean-up and the purge
  slips,
  seen, again, alerts, edited, raced, marked, late, refused   \* history

vars == <<chat, row, queue, aged, count, edit, feature, job, slips,
          seen, again, alerts, edited, raced, marked, late, refused>>
history == <<seen, again, alerts, edited, raced, marked, late, refused>>

NoEdit == [of |-> {}, text |-> 0, extra |-> {}, big |-> FALSE]
NoJob == [pc |-> "idle", todo |-> {}]
Jobs == {"cleanup", "purge"}

Init ==
  /\ chat = [m \in Msgs |-> "unsent"]
  /\ row = [m \in Msgs |-> {}]
  /\ queue = [m \in Msgs |-> "no"]
  /\ aged = [chat |-> {}, rows |-> {}]
  /\ count = 0
  /\ edit = NoEdit
  /\ feature = [m \in Msgs |-> "none"]
  /\ job = [k \in Jobs |-> NoJob]
  /\ slips = 0
  /\ seen = {} /\ again = FALSE /\ alerts = 0
  /\ edited = {} /\ raced = {}
  /\ marked = {} /\ late = {} /\ refused = {}

Slip == slips < MaxSlips /\ slips' = slips + 1
Put(m, r) == row' = [row EXCEPT ![m] = {r}]

---------------------------------------------------------------------------
(* Recording.                                                              *)

Anew(m) == IF m \in Excluded THEN "pinned" ELSE "yes"
QueuedAnew(m) == Anew(m)
\* AddMessageForDeletionWithPinnedStatus: what is queued stays as it is.
Queued(m) == IF queue[m] # "no" THEN queue[m] ELSE Anew(m)

\* The upsert of message_info: the text is replaced, the annotations are not.
Upserted(m) == [text |-> 0, extra |-> UNION {r.extra : r \in row[m]}]

\* The counter of the day goes up with every transaction.
CountedReset(n) == 1
CountedTwice(n) == count + n + 1
Counted(n) == count + n

\* RecordIncomingMessage, committed n times because the reply to the commit was lost: a user
\* without a row of names is reported as new by the last attempt only.
Record(m, n) ==
  /\ Put(m, Upserted(m))
  /\ queue' = [queue EXCEPT ![m] = Queued(m)]
  /\ count' = Counted(n)
  /\ alerts' = IF count > 0 \/ n > 1 THEN alerts ELSE alerts + 1
  /\ seen' = seen \cup {m}
  /\ again' = (again \/ n > 1 \/ m \in seen)
  /\ marked' = IF queue'[m] = "pinned" THEN marked \cup {m} ELSE marked

\* A new message, or one that Telegram delivers once more.  The transaction may be repeated or
\* fail; a picture that content safety has flagged is only queued.  A goroutine for the side
\* features follows.
Receive(m) ==
  /\ edit = NoEdit /\ chat[m] \in {"unsent", "here"}
  /\ IF chat[m] = "here" THEN Slip /\ Record(m, 1)
     ELSE \/ Record(m, 1) /\ UNCHANGED slips
          \/ Slip /\ Record(m, 2)
          \/ Slip /\ UNCHANGED <<row, queue, count, alerts, seen, again, marked>>
          \/ /\ queue' = [queue EXCEPT ![m] = Queued(m)]
             /\ marked' = IF queue'[m] = "pinned" THEN marked \cup {m} ELSE marked
             /\ UNCHANGED <<slips, row, count, alerts, seen, again>>
  /\ chat' = [chat EXCEPT ![m] = "here"]
  /\ feature' = [feature EXCEPT ![m] = IF m \in Written THEN "link" ELSE @]
  /\ UNCHANGED <<aged, edit, job, edited, raced, late, refused>>

\* recordEditedMessage reads the row: an edit that changes nothing is not one ...
EditRead(m, text, big) ==
  /\ edit = NoEdit /\ chat[m] = "here" /\ m \in Written
  /\ \E r \in row[m] : r.text # text /\ edit' = [of |-> {m}, text |-> text, extra |-> r.extra, big |-> big]
  /\ UNCHANGED <<chat, row, queue, aged, count, feature, job, slips, history>>

\* What an edit leaves in extra_info: the difference is added, unless it is a trifle.
ExtraOfLastEdit(e) == IF e.big THEN e.extra \cup {"diff"} ELSE {}
ExtraAfter(e) == IF e.big THEN e.extra \cup {"diff"} ELSE e.extra

\* ... and writes it, if it is still there; then the message is queued, unless it is.
EditWrite ==
  /\ edit # NoEdit /\ edit' = NoEdit
  /\ \E m \in edit.of :
       /\ \/ /\ IF row[m] = {} THEN UNCHANGED row
                ELSE Put(m, [text |-> edit.text, extra |-> ExtraAfter(edit)])
             /\ edited' = IF row[m] # {} /\ edit.big THEN edited \cup {m} ELSE edited
             /\ UNCHANGED slips
          \/ Slip /\ UNCHANGED <<row, edited>>
       /\ queue' = [queue EXCEPT ![m] = Queued(m)]
       /\ marked' = IF queue'[m] = "pinned" THEN marked \cup {m} ELSE marked
       /\ raced' = IF feature[m] = "link" THEN raced \cup {m} ELSE raced
  /\ UNCHANGED <<chat, aged, count, feature, job, seen, again, alerts, late, refused>>

\* stageFinalizeDeletion of the service message about a pin: the row is marked, if there is one.
\* The update is not repeated when it fails.
Pin(m) ==
  /\ edit = NoEdit /\ chat[m] = "here"
  /\ \/ /\ queue' = [queue EXCEPT ![m] = IF @ = "no" THEN @ ELSE "pinned"]
        /\ marked' = IF queue[m] = "no" THEN marked ELSE marked \cup {m}
        /\ late' = IF m \in job["cleanup"].todo THEN late \cup {m} ELSE late
        /\ UNCHANGED slips
     \/ Slip /\ UNCHANGED <<queue, marked, late>>
  /\ UNCHANGED <<chat, row, aged, count, edit, feature, job, seen, again, alerts, edited,
                 raced, refused>>

---------------------------------------------------------------------------
(* Side features: the links of a message first, then the reply.            *)

\* extractAndStoreLinksContent: what was extracted replaces extra_info, whatever is there by now.
StoreLinks(m) ==
  /\ feature[m] = "link"
  /\ \/ /\ row' = [row EXCEPT ![m] = {[r EXCEPT !.extra = {"link"}] : r \in @}]
        /\ raced' = IF edit.of = {m} \/ m \in edited THEN raced \cup {m} ELSE raced
     \/ UNCHANGED <<row, raced>>
  /\ feature' = [feature EXCEPT ![m] = "done"]
  /\ UNCHANGED <<chat, queue, aged, count, edit, job, slips, seen, again, alerts, edited,
                 marked, late, refused>>

---------------------------------------------------------------------------
(* Clean-up and purge.                                                     *)

\* Time passes: everything there is grows older than one of the two retentions.
Age(what) ==
  /\ LET old == {m \in Msgs : chat[m] # "unsent"} \cap (IF what = "rows" THEN aged.chat ELSE Msgs)
     IN old # aged[what] /\ aged' = [aged EXCEPT ![what] = old]
  /\ UNCHANGED <<chat, row, queue, count, edit, feature, job, slips, history>>

\* GetOldMessages; GetUserMessageIDsSince.
ToClean == {m \in aged.chat : queue[m] = "yes"}
ToPurge(before) == {m \in Msgs \ before : row[m] # {}}

\* A purge reaches back to a point in time, or leaves nothing out.
LeftOut == {{}, aged.chat}

Start(k, todo) ==
  /\ job[k] = NoJob /\ todo # {}
  /\ job' = [job EXCEPT ![k] = [pc |-> "delete", todo |-> todo]]
  /\ UNCHANGED <<chat, row, queue, aged, count, edit, feature, slips, history>>

StartCleanup == Start("cleanup", ToClean)
StartPurge == \E before \in LeftOut : Start("purge", ToPurge(before))

\* RemoveMessageFromDeletion.
RemovedAll(k, m) == [n \in Msgs |-> IF n \in job[k].todo THEN "no" ELSE queue[n]]
Removed(k, m) == [queue EXCEPT ![m] = "no"]

\* One message of the list: Telegram deletes it, or refuses; then it leaves the queue,
\* deleted or not.  The purge keeps a record of what it has deleted.
DeleteOne(k) ==
  /\ job[k].pc = "delete"
  /\ \E m \in job[k].todo :
       /\ job' = [job EXCEPT ![k].pc = m]
       /\ \/ /\ chat[m] = "here"
             /\ chat' = [chat EXCEPT ![m] = IF k = "cleanup" THEN "cleaned" ELSE "purged"]
             /\ UNCHANGED refused
          \/ /\ refused' = IF chat[m] = "here" THEN refused \cup {m} ELSE refused
             /\ UNCHANGED <<chat>>
  /\ UNCHANGED <<row, queue, aged, count, edit, feature, slips, seen, again, alerts, edited,
                 raced, marked, late>>

RemoveOne(k) ==
  /\ job[k].pc \in Msgs
  /\ LET m == job[k].pc
         rest == job[k].todo \ {m}
     IN /\ job' = [job EXCEPT ![k] = IF rest = {} THEN NoJob ELSE [pc |-> "delete", todo |-> rest]]
        /\ \/ queue' = Removed(k, m) /\ UNCHANGED slips
           \/ Slip /\ UNCHANGED queue
  /\ UNCHANGED <<chat, row, aged, count, edit, feature, history>>

\* CleanupOldMessages; rows that a warning or a mute preserves are not told apart.
Expired == {m \in aged.rows : row[m] # {}}

\* PerformDatabaseCleanup: each table on its own.
CleanupRows ==
  /\ Expired # {}
  /\ row' = [m \in Msgs |-> IF m \in Expired THEN {} ELSE row[m]]
  /\ edited' = edited \ Expired
  /\ UNCHANGED <<chat, queue, aged, count, edit, feature, job, slips, seen, again, alerts,
                 raced, marked, late, refused>>

\* The process dies: what was in flight is gone.
Crash ==
  /\ Slip
  /\ edit' = NoEdit
  /\ feature' = [m \in Msgs |-> IF feature[m] = "none" THEN "none" ELSE "done"]
  /\ job' = [k \in Jobs |-> NoJob]
  /\ UNCHANGED <<chat, row, queue, aged, count, history>>

Next ==
  \/ \E m \in Msgs :
       \/ Receive(m)
       \/ \E text \in Texts, big \in BOOLEAN : EditRead(m, text, big)
       \/ Pin(m)
       \/ StoreLinks(m)
  \/ EditWrite
  \/ \E what \in {"chat", "rows"} : Age(what)
  \/ StartCleanup \/ StartPurge \/ \E k \in Jobs : DeleteOne(k) \/ RemoveOne(k)
  \/ CleanupRows
  \/ Crash

Spec == Init /\ [][Next]_vars

---------------------------------------------------------------------------
(* Properties.                                                             *)

\* Every variable has its type.
TypeOK ==
  /\ chat \in [Msgs -> {"unsent", "here", "cleaned", "purged"}]
  /\ \A m \in Msgs : Cardinality(row[m]) <= 1 /\ row[m] \subseteq [text : Texts, extra : SUBSET {"link", "diff"}]
  /\ queue \in [Msgs -> {"no", "yes", "pinned"}]
  /\ aged \in [chat : SUBSET Msgs, rows : SUBSET Msgs]
  /\ count \in 0 .. Cardinality(Msgs) + MaxSlips
  /\ feature \in [Msgs -> {"none", "link", "done"}]
  /\ \A k \in Jobs : job[k].todo \subseteq Msgs

\* A message that is marked as pinned is not cleaned up, however often it is delivered or edited
\* after that; only one that was on the clean-up's list already is, or one that a purge could not
\* delete and took out of the queue with its mark.  (GetOldMessages,
\* MarkMessageAsPinned, AddMessageForDeletionWithPinnedStatus)
PinnedStays == \A m \in marked \ (late \cup refused) : chat[m] # "cleaned"

\* What a message said before it was edited stays in extra_info through later edits, unless the
\* links of the message were being extracted meanwhile.  (recordEditedMessage)
OriginalKept == \A m \in edited \ raced : \A r \in row[m] : "diff" \in r.extra

\* A message is counted once, and its sender reported as new once, by everything that is
\* recorded of it in one transaction: more than once only if Telegram delivered it again or the
\* commit was repeated.  (RecordIncomingMessage)
CountedOnce ==
  /\ count >= Cardinality(seen) /\ alerts <= 1
  /\ ~again => count = Cardinality(seen) /\ alerts = IF seen = {} THEN 0 ELSE 1

\* A message that was recorded for deletion leaves the queue only when it has been deleted, or
\* when Telegram has refused to delete it; whatever crashes.  (cleanupOldMessages,
\* deleteUserMessagesSince)
LeftOnlyIfRefused == \A m \in seen : (chat[m] = "here" /\ queue[m] = "no") => m \in refused
============================================================================
