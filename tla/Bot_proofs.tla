----------------------------- MODULE Bot_proofs -----------------------------
(***************************************************************************)
(* What the bot promises beside moderation, for any number of messages,    *)
(* entries, users and models.  Each part has an invariant of its own, which *)
(* holds while the other parts are at work: the messages' is that of       *)
(* Messages_proofs.                                                        *)
(***************************************************************************)
EXTENDS MCBot, TLAPS, FiniteSetTheorems, SequenceTheorems

botVars == <<part, slips, now, messageVars, ofReplies, feedVars, profileVars, modelVars>>

---------------------------------------------------------------------------
(* Messages.                                                               *)

P2 == INSTANCE Messages_proofs WITH Msgs <- Pair, Written <- {}, Texts <- {0}
P1 == INSTANCE Messages_proofs WITH Msgs <- Single, Written <- Single, Excluded <- {}, Texts <- {0, 1},
                                    MaxSlips <- MaxSlips + 1

\* The first is Messages as MCBot takes it, the second as its proofs do.
LEMMA SameTwo == (Two!Init <=> P2!Init) /\ (Two!Next <=> P2!Next)
BY DEF
    Two!history, P2!history, Two!NoEdit, P2!NoEdit, Two!NoJob, P2!NoJob, Two!Jobs, P2!Jobs,
    Two!Init, P2!Init, Two!Slip, P2!Slip, Two!Put, P2!Put, Two!Anew, P2!Anew, Two!Queued,
    P2!Queued, Two!Upserted, P2!Upserted, Two!Counted, P2!Counted, Two!Record, P2!Record,
    Two!Receive, P2!Receive, Two!EditRead, P2!EditRead, Two!ExtraAfter, P2!ExtraAfter,
    Two!EditWrite, P2!EditWrite, Two!Pin, P2!Pin, Two!StoreLinks, P2!StoreLinks, Two!Age, P2!Age,
    Two!ToClean, P2!ToClean, Two!ToPurge, P2!ToPurge, Two!LeftOut, P2!LeftOut, Two!Start,
    P2!Start, Two!StartCleanup, P2!StartCleanup, Two!StartPurge, P2!StartPurge, Two!Removed,
    P2!Removed, Two!DeleteOne, P2!DeleteOne, Two!RemoveOne, P2!RemoveOne, Two!Expired, P2!Expired,
    Two!CleanupRows, P2!CleanupRows, Two!Crash, P2!Crash, Two!Next, P2!Next
LEMMA SameOne == (One!Init <=> P1!Init) /\ (One!Next <=> P1!Next)
BY DEF
    One!history, P1!history, One!NoEdit, P1!NoEdit, One!NoJob, P1!NoJob, One!Jobs, P1!Jobs,
    One!Init, P1!Init, One!Slip, P1!Slip, One!Put, P1!Put, One!Anew, P1!Anew, One!Queued,
    P1!Queued, One!Upserted, P1!Upserted, One!Counted, P1!Counted, One!Record, P1!Record,
    One!Receive, P1!Receive, One!EditRead, P1!EditRead, One!ExtraAfter, P1!ExtraAfter,
    One!EditWrite, P1!EditWrite, One!Pin, P1!Pin, One!StoreLinks, P1!StoreLinks, One!Age, P1!Age,
    One!ToClean, P1!ToClean, One!ToPurge, P1!ToPurge, One!LeftOut, P1!LeftOut, One!Start,
    P1!Start, One!StartCleanup, P1!StartCleanup, One!StartPurge, P1!StartPurge, One!Removed,
    P1!Removed, One!DeleteOne, P1!DeleteOne, One!RemoveOne, P1!RemoveOne, One!Expired, P1!Expired,
    One!CleanupRows, P1!CleanupRows, One!Crash, P1!Crash, One!Next, P1!Next

\* Messages are not the words that stand for the states of a job.
PairNamed == Pair \cap {"idle", "delete"} = {}
SingleNamed == Single \cap {"idle", "delete"} = {}

\* The part at work with messages keeps the invariant of its messages, the others leave them.
MessagesInv == IF part = "one" THEN P1!KInv ELSE P2!KInv


LEMMA MessagesInvInitially == PairNamed /\ SingleNamed /\ BotInit => MessagesInv
<1> SUFFICES ASSUME PairNamed, SingleNamed, BotInit PROVE MessagesInv
    OBVIOUS
<1>1. P1!Named /\ P2!Named
    BY DEF PairNamed, SingleNamed, P1!Named, P2!Named
<1>2. CASE part = "one"
  <2>1. P1!Init
      BY <1>2, SameOne DEF BotInit
  <2> QED
      BY <1>1, <1>2, <2>1, P1!InitKInv DEF MessagesInv
<1>3. CASE part # "one"
  <2>1. P2!Init
      BY <1>3, SameTwo DEF BotInit
  <2> QED
      BY <1>1, <1>3, <2>1, P2!InitKInv DEF MessagesInv
<1> QED
    BY <1>2, <1>3

LEMMA MessagesInvHolds ==
  PairNamed /\ SingleNamed /\ MessagesInv /\ [BotNext]_botVars => MessagesInv'
<1> SUFFICES ASSUME PairNamed, SingleNamed, MessagesInv, [BotNext]_botVars PROVE MessagesInv'
    OBVIOUS
<1>0. part' = part
    BY DEF BotNext, botVars
<1>1. P1!Named /\ P2!Named
    BY DEF PairNamed, SingleNamed, P1!Named, P2!Named
<1>2. CASE part = "two" /\ Two!Next
  <2>1. P2!KInv /\ P2!Next
      BY <1>2, SameTwo DEF MessagesInv
  <2>2. P2!KInv'
      BY <1>1, <2>1, P2!NextKInv
  <2> QED
      BY <1>0, <1>2, <2>2 DEF MessagesInv
<1>3. CASE part = "one" /\ One!Next
  <2>1. P1!KInv /\ P1!Next
      BY <1>3, SameOne DEF MessagesInv
  <2>2. P1!KInv'
      BY <1>1, <2>1, P1!NextKInv
  <2> QED
      BY <1>0, <1>3, <2>2 DEF MessagesInv
<1>4. CASE UNCHANGED messageVars
  <2>1. (P1!KInv => P1!KInv') /\ (P2!KInv => P2!KInv')
      BY <1>4, P1!OthersKeepKInv, P2!OthersKeepKInv DEF messageVars, P1!history, P2!history
  <2> QED
      BY <1>0, <2>1 DEF MessagesInv
<1>5. \/ part = "two" /\ Two!Next
      \/ part = "one" /\ One!Next
      \/ UNCHANGED messageVars
    BY DEF BotNext, botVars
<1> QED
    BY <1>2, <1>3, <1>4, <1>5

\* What the bot keeps of messages is stated of those that are there, whichever part they are.
LEMMA MessagesInvShows ==
  MessagesInv => PinnedStays /\ CountedOnce /\ LeftOnlyIfRefused /\ OriginalKept
<1> SUFFICES ASSUME MessagesInv PROVE PinnedStays /\ CountedOnce /\ LeftOnlyIfRefused /\ OriginalKept
    OBVIOUS
<1>1. CASE part = "one"
  <2>1. P1!PinnedStays /\ P1!CountedOnce /\ P1!LeftOnlyIfRefused /\ P1!OriginalKept
    <3>1. P1!KInv
        BY <1>1 DEF MessagesInv
    <3>2. P1!PinnedStays
        BY <3>1, P1!MarksHold
    <3>3. P1!CountedOnce
        BY <3>1, P1!CountHolds
    <3>4. P1!LeftOnlyIfRefused
        BY <3>1, P1!QueueHolds
    <3>5. P1!OriginalKept
        BY <3>1, P1!DiffHolds
    <3> QED
        BY <3>2, <3>3, <3>4, <3>5
  <2>2. PinnedStays
      BY <2>1 DEF PinnedStays, P1!PinnedStays, Two!PinnedStays
  <2>3. CountedOnce
      BY <2>1 DEF CountedOnce, P1!CountedOnce, Two!CountedOnce, P1!Cardinality, Two!Cardinality
  <2>4. LeftOnlyIfRefused
      BY <2>1 DEF LeftOnlyIfRefused, P1!LeftOnlyIfRefused, Two!LeftOnlyIfRefused
  <2>5. OriginalKept
      BY <2>1 DEF OriginalKept, P1!OriginalKept, One!OriginalKept
  <2> QED
      BY <2>2, <2>3, <2>4, <2>5
<1>2. CASE part # "one"
  <2>1. P2!PinnedStays /\ P2!CountedOnce /\ P2!LeftOnlyIfRefused /\ P2!OriginalKept
    <3>1. P2!KInv
        BY <1>2 DEF MessagesInv
    <3>2. P2!PinnedStays
        BY <3>1, P2!MarksHold
    <3>3. P2!CountedOnce
        BY <3>1, P2!CountHolds
    <3>4. P2!LeftOnlyIfRefused
        BY <3>1, P2!QueueHolds
    <3>5. P2!OriginalKept
        BY <3>1, P2!DiffHolds
    <3> QED
        BY <3>2, <3>3, <3>4, <3>5
  <2>2. PinnedStays
      BY <2>1 DEF PinnedStays, P2!PinnedStays, Two!PinnedStays
  <2>3. CountedOnce
      BY <2>1 DEF CountedOnce, P2!CountedOnce, Two!CountedOnce, P2!Cardinality, Two!Cardinality
  <2>4. LeftOnlyIfRefused
      BY <2>1 DEF LeftOnlyIfRefused, P2!LeftOnlyIfRefused, Two!LeftOnlyIfRefused
  <2>5. OriginalKept
      BY <2>1 DEF OriginalKept, P2!OriginalKept, One!OriginalKept
  <2> QED
      BY <2>2, <2>3, <2>4, <2>5
<1> QED
    BY <1>1, <1>2

\* However many messages there are and however their steps are interleaved, one that is marked as
\* pinned is not cleaned up, with the exceptions that the property names.  (GetOldMessages,
\* MarkMessageAsPinned, AddMessageForDeletionWithPinnedStatus)
THEOREM PinnedAreKept ==
  ASSUME PairNamed, SingleNamed
  PROVE  BotSpec => []PinnedStays
<1> QED
    BY MessagesInvInitially, MessagesInvHolds, MessagesInvShows, PTL DEF BotSpec, botVars

\* Each message is counted, and a sender announced, once, whatever fails or crashes; more than
\* once only when Telegram delivers again or a commit is repeated.  (RecordIncomingMessage)
THEOREM CountedExactly ==
  ASSUME PairNamed, SingleNamed
  PROVE  BotSpec => []CountedOnce
<1> QED
    BY MessagesInvInitially, MessagesInvHolds, MessagesInvShows, PTL DEF BotSpec, botVars

\* No message that was recorded for deletion falls out of the queue while it is in the chat,
\* unless Telegram has refused to delete it, for any number of messages and whatever crashes.
\* (cleanupOldMessages, deleteUserMessagesSince)
THEOREM QueueIsWorkedOff ==
  ASSUME PairNamed, SingleNamed
  PROVE  BotSpec => []LeftOnlyIfRefused
<1> QED
    BY MessagesInvInitially, MessagesInvHolds, MessagesInvShows, PTL DEF BotSpec, botVars

\* What a message said before it was edited is not lost to any number of later edits, unless its
\* links were being extracted meanwhile.  (recordEditedMessage)
THEOREM OriginalsAreKept ==
  ASSUME PairNamed, SingleNamed
  PROVE  BotSpec => []OriginalKept
<1> QED
    BY MessagesInvInitially, MessagesInvHolds, MessagesInvShows, PTL DEF BotSpec, botVars

---------------------------------------------------------------------------
(* Creative replies: what was sent is among the rows that are counted, and *)
(* the one reply being written was allowed when there was room for it.     *)

\* Whether the reply to a message is being written.
Writing(m) == reply[m] = "generate"

ReplyShape ==
  /\ reply \in [Msgs -> {"none", "asked", "allowed", "generate", "done"}]
  /\ rows \in Nat /\ sent \in Nat /\ overlap \in BOOLEAN

\* While nothing has overlapped or gone uncounted, one reply at most is being written, there is
\* room for it, and the count is not short.
Room ==
  ~overlap => /\ sent <= rows /\ sent <= MaxReplies
              /\ \A m, n \in Msgs : Writing(m) /\ Writing(n) => m = n
              /\ \A m \in Msgs : Writing(m) => sent < MaxReplies

\* Nothing is written where nothing is allowed.
SomeAllowed == \A m \in Msgs : Writing(m) => MaxReplies > 0

ReplyInv == ReplyShape /\ Room /\ SomeAllowed

LEMMA InitReplyInv == MaxReplies \in Nat /\ RepliesInit => ReplyInv
<1> SUFFICES ASSUME MaxReplies \in Nat, RepliesInit PROVE ReplyInv
    OBVIOUS
<1>1. ReplyShape /\ \A m \in Msgs : ~Writing(m)
    BY DEF RepliesInit, ReplyShape, Writing
<1> QED
    BY <1>1 DEF RepliesInit, ReplyInv, Room, SomeAllowed

\* A goroutine moves to where it writes nothing, and the counts stay.
LEMMA WritesNothing ==
  ASSUME ReplyInv, NEW m \in Msgs, NEW from, NEW to \in {"asked", "allowed", "done"},
         Step(m, from, to), rows' = rows, sent' = sent, overlap' = overlap
  PROVE  ReplyInv'
<1>1. /\ reply' \in [Msgs -> {"none", "asked", "allowed", "generate", "done"}]
      /\ \A n \in Msgs : Writing(n)' => Writing(n)
    BY DEF Step, ReplyInv, ReplyShape, Writing
<1> QED
    BY <1>1 DEF ReplyInv, ReplyShape, Room, SomeAllowed

LEMMA CheckLimitKeeps ==
  ASSUME MaxReplies \in Nat, ReplyInv, NEW m \in Msgs, CheckLimit(m)
  PROVE  ReplyInv'
<1>1. CASE Step(m, "allowed", "done")
  <2>1. overlap' = overlap /\ rows' = rows /\ sent' = sent
      BY <1>1 DEF CheckLimit, Step, ReplyInv, ReplyShape
  <2> QED
      BY <1>1, <2>1, WritesNothing
<1>2. CASE Step(m, "allowed", "generate") /\ ~AtLimit(rows)
  <2>1. /\ reply' = [reply EXCEPT ![m] = "generate"] /\ rows' = rows /\ sent' = sent
        /\ overlap' = (overlap \/ \E n \in Msgs : Writing(n))
      BY <1>2 DEF CheckLimit, Step, ReplyInv, ReplyShape, Writing
  <2>2. rows < MaxReplies /\ rows \in Nat /\ sent \in Nat
      BY <1>2 DEF AtLimit, ReplyInv, ReplyShape
  <2>3. \A n \in Msgs : n # m => (Writing(n)' <=> Writing(n))
      BY <2>1 DEF ReplyInv, ReplyShape, Writing
  <2>4. ReplyShape'
      BY <2>1 DEF ReplyInv, ReplyShape
  <2>5. SomeAllowed'
      BY <2>2 DEF SomeAllowed
  <2>6. Room'
    <3> SUFFICES ASSUME ~overlap'
                 PROVE  /\ sent <= rows /\ sent <= MaxReplies
                        /\ \A n, k \in Msgs : Writing(n)' /\ Writing(k)' => n = k
                        /\ \A n \in Msgs : Writing(n)' => sent < MaxReplies
        BY <2>1 DEF Room
    <3>1. ~overlap /\ \A n \in Msgs : ~Writing(n)
        BY <2>1
    <3>2. sent <= rows
        BY <3>1 DEF ReplyInv, Room
    <3> QED
        BY <2>2, <2>3, <3>1, <3>2
  <2> QED
      BY <2>4, <2>5, <2>6 DEF ReplyInv
<1>3. CheckLimit(m) => Step(m, "allowed", "done")
                       \/ (Step(m, "allowed", "generate") /\ ~AtLimit(rows))
    BY DEF CheckLimit, AtLimit
<1> QED
    BY <1>1, <1>2, <1>3

LEMMA SendReplyKeeps ==
  ASSUME MaxReplies \in Nat, ReplyInv, NEW m \in Msgs, SendReply(m)
  PROVE  ReplyInv'
<1>1. /\ reply' \in [Msgs -> {"none", "asked", "allowed", "generate", "done"}]
      /\ Writing(m) /\ ~Writing(m)'
      /\ \A n \in Msgs : Writing(n)' => Writing(n) /\ n # m
    BY DEF SendReply, Step, ReplyInv, ReplyShape, Writing
<1>2. rows \in Nat /\ sent \in Nat /\ overlap \in BOOLEAN
    BY DEF ReplyInv, ReplyShape
<1>3. SomeAllowed'
    BY <1>1 DEF ReplyInv, SomeAllowed
<1>4. CASE rows' = rows + 1 /\ sent' = sent + 1 /\ overlap' = overlap
  <2>1. ~overlap => sent < MaxReplies /\ \A n \in Msgs : ~Writing(n)'
      BY <1>1 DEF ReplyInv, Room
  <2> QED
      BY <1>1, <1>2, <1>3, <1>4, <2>1 DEF ReplyInv, ReplyShape, Room
<1>5. CASE sent' = sent + 1 /\ overlap' = TRUE /\ rows' = rows
    BY <1>1, <1>2, <1>3, <1>5 DEF ReplyInv, ReplyShape, Room
<1>6. CASE rows' = rows /\ sent' = sent /\ overlap' = overlap
    BY <1>1, <1>2, <1>3, <1>6 DEF ReplyInv, ReplyShape, Room
<1> QED
    BY <1>4, <1>5, <1>6 DEF SendReply

LEMMA WindowKeeps ==
  ASSUME MaxReplies \in Nat, ReplyInv, WindowPasses
  PROVE  ReplyInv'
<1>1. /\ reply' = reply /\ rows' = 0 /\ sent' = 0 /\ overlap' \in BOOLEAN
      /\ overlap' <=> \E m, n \in Msgs : m # n /\ Writing(m) /\ Writing(n)
    BY DEF WindowPasses, Writing
<1>2. \A m \in Msgs : Writing(m)' <=> Writing(m)
    BY <1>1 DEF Writing
<1>3. SomeAllowed'
    BY <1>2 DEF ReplyInv, SomeAllowed
<1>4. Room'
    BY <1>1, <1>2 DEF ReplyInv, Room, SomeAllowed
<1> QED
    BY <1>1, <1>3, <1>4 DEF ReplyInv, ReplyShape

LEMMA CrashKeepsReplies ==
  ASSUME ReplyInv, Crash
  PROVE  ReplyInv'
<1>1. /\ reply' \in [Msgs -> {"none", "asked", "allowed", "generate", "done"}]
      /\ \A n \in Msgs : ~Writing(n)'
      /\ rows' = rows /\ sent' = sent /\ overlap' = overlap
    BY DEF Crash, ReplyInv, ReplyShape, Writing
<1> QED
    BY <1>1 DEF ReplyInv, ReplyShape, Room, SomeAllowed

LEMMA NextReplyInv == MaxReplies \in Nat /\ ReplyInv /\ [RepliesNext]_replyVars => ReplyInv'
<1> SUFFICES ASSUME MaxReplies \in Nat, ReplyInv, [RepliesNext]_replyVars PROVE ReplyInv'
    OBVIOUS
<1>1. ASSUME NEW m \in Msgs, NEW moderated \in BOOLEAN, CreativeReply(m, moderated) PROVE ReplyInv'
  <2>1. /\ Step(m, "none", "done") \/ Step(m, "none", "asked")
        /\ rows' = rows /\ sent' = sent /\ overlap' = overlap
      BY <1>1 DEF CreativeReply
  <2> QED
      BY <2>1, WritesNothing
<1>2. ASSUME NEW m \in Msgs, FollowUpOnlySameUser(m) PROVE ReplyInv'
  <2>1. /\ Step(m, "asked", "done") \/ Step(m, "asked", "allowed")
        /\ rows' = rows /\ sent' = sent /\ overlap' = overlap
      BY <1>2 DEF FollowUpOnlySameUser
  <2> QED
      BY <2>1, WritesNothing
<1>3. CASE BotSpeaks
    BY <1>3 DEF BotSpeaks, ReplyInv, ReplyShape, Room, SomeAllowed, Writing
<1>4. CASE UNCHANGED replyVars
    BY <1>4 DEF replyVars, ReplyInv, ReplyShape, Room, SomeAllowed, Writing
<1> QED
    BY <1>1, <1>2, <1>3, <1>4, CheckLimitKeeps, SendReplyKeeps, WindowKeeps, CrashKeepsReplies
    DEF RepliesNext

\* While another part is at work, the replies stay as they are.
LEMMA ReplyInvHolds == MaxReplies \in Nat /\ ReplyInv /\ [BotNext]_botVars => ReplyInv'
<1> SUFFICES ASSUME MaxReplies \in Nat, ReplyInv, [BotNext]_botVars PROVE ReplyInv'
    OBVIOUS
<1>1. CASE RepliesNext
    BY <1>1, NextReplyInv
<1>2. CASE UNCHANGED ofReplies
    BY <1>2 DEF ofReplies, ReplyInv, ReplyShape, Room, SomeAllowed, Writing
<1> QED
    BY <1>1, <1>2 DEF BotNext, botVars

\* Whatever the limit and however many messages call for an answer, the bot sends no more
\* creative replies in a window than it may, unless two were written at the same time or one
\* was not stored.  (handleCreativeFollowUp, GetRecentBotMessageCount)
THEOREM LimitKept ==
  ASSUME MaxReplies \in Nat
  PROVE  BotSpec => []LimitUnlessOverlapping
<1>1. ReplyInv => LimitUnlessOverlapping
    BY DEF ReplyInv, ReplyShape, Room, LimitUnlessOverlapping
<1>2. BotInit => ReplyInv
    BY InitReplyInv DEF BotInit
<1> QED
    BY <1>1, <1>2, ReplyInvHolds, PTL DEF BotSpec, botVars

---------------------------------------------------------------------------
(* Scheduled feeds.                                                        *)

FeedShape ==
  /\ task \in {"rss", "profiles", "watch"}
  /\ now \in Nat \ {0} /\ slips \in Nat /\ fired \in 0 .. now /\ first \in Nat
  /\ first = 0 <=> fired = 0
  /\ at \in [Items -> 0 .. now] /\ out \in [Items -> Nat]
  /\ spoilt \subseteq Items
  /\ run.pc \in {"idle", "read", "work", "stamp", "ask", "publish", "save"}
  /\ run = [pc |-> run.pc, todo |-> run.todo, from |-> run.from]
  /\ run.pc \in {"read", "work", "stamp"} => task # "watch"
  /\ run.pc \in {"read", "work"} => run.todo \subseteq Items

\* What is new since the last run, and came in time for the one that works.
Awaited(i) == i \in Items \ spoilt /\ first # 0 /\ fired < at[i]

\* What was new at an earlier run was worked off; what is awaited is on the list, or was.
WorkedOff ==
  /\ \A i \in Items \ spoilt : first # 0 /\ first < at[i] /\ at[i] <= fired => out[i] > 0
  /\ run.pc = "read" =>
       run.from = fired /\ (task = "rss" => \A i \in Items : Awaited(i) => i \in run.todo)
  /\ run.pc = "work" => \A i \in Items : Awaited(i) => out[i] > 0 \/ i \in run.todo
  /\ run.pc = "stamp" => \A i \in Items : Awaited(i) => out[i] > 0

\* An entry that was published is no newer than the last run, or was published by this one.
Once ==
  task = "rss" /\ slips = 0 =>
    \A i \in Items :
      /\ out[i] <= 1
      /\ out[i] = 1 => at[i] # 0 /\ (at[i] <= fired \/ run.pc \in {"work", "stamp"})
      /\ run.pc = "work" /\ i \in run.todo => out[i] = 0 /\ at[i] # 0

\* The readers know the version that the next report is going to start from.
Follows ==
  ~unheard /\ slips = 0 =>
    /\ ~gap
    /\ told = IF run.pc = "save" THEN {run.from} ELSE snapshot
    /\ run.pc \in {"ask", "publish"} => run.todo = snapshot

FeedInv == FeedShape /\ WorkedOff /\ Once /\ Follows

LEMMA FeedInvInitially == FE!FeedsInit => FeedInv
<1> SUFFICES ASSUME FE!FeedsInit PROVE FeedInv
    OBVIOUS
<1>1. /\ task \in {"rss", "profiles", "watch"} /\ now = 1 /\ slips = 0 /\ fired = 0 /\ first = 0
      /\ at = [i \in Items |-> 0] /\ out = [i \in Items |-> 0] /\ spoilt = {}
      /\ run = [pc |-> "idle", todo |-> {}, from |-> 0]
      /\ told = {} /\ snapshot = {} /\ gap = FALSE
    BY DEF FE!FeedsInit, FE!Idle
<1>2. FeedShape
    BY <1>1 DEF FeedShape
<1>3. WorkedOff /\ Once
    BY <1>1 DEF WorkedOff, Awaited, Once
<1>4. Follows
    BY <1>1 DEF Follows
<1> QED
    BY <1>2, <1>3, <1>4 DEF FeedInv

LEMMA AppearKeeps ==
  ASSUME FeedInv, NEW i \in Items, FE!Appear(i)
  PROVE  FeedInv'
<1>1. PICK date \in {now - 1, now} \ {0} :
        /\ at' = [at EXCEPT ![i] = date]
        /\ spoilt' = IF date <= fired \/ run.pc \in {"work", "stamp"} \/ (task = "rss" /\ run.pc = "read")
                     THEN spoilt \cup {i} ELSE spoilt
    BY DEF FE!Appear
<1>2. /\ task' = task /\ now' = now /\ fired' = fired /\ run' = run /\ slips' = slips /\ out' = out
      /\ first' = first /\ snapshot' = snapshot /\ told' = told /\ gap' = gap /\ unheard' = unheard
      /\ at[i] = 0
    BY DEF FE!Appear, FE!ofPage
<1>3. /\ at'[i] = date /\ date \in 0 .. now /\ date # 0 /\ at' \in [Items -> 0 .. now]
      /\ \A j \in Items \ {i} : at'[j] = at[j]
    BY <1>1 DEF FeedInv, FeedShape
<1>4. spoilt \subseteq spoilt' /\ spoilt' \subseteq Items
    BY <1>1 DEF FeedInv, FeedShape
<1>5. i \in spoilt' \/ (fired < date /\ run.pc \notin {"work", "stamp"} /\ (task = "rss" => run.pc # "read"))
    BY <1>1, <1>3 DEF FeedInv, FeedShape
<1>6. FeedShape'
    BY <1>2, <1>3, <1>4 DEF FeedInv, FeedShape
<1>7. WorkedOff'
    BY <1>2, <1>3, <1>4, <1>5 DEF FeedInv, FeedShape, WorkedOff, Awaited
<1>8. Once' /\ Follows'
    BY <1>2, <1>3 DEF FeedInv, FeedShape, Once, Follows
<1> QED
    BY <1>6, <1>7, <1>8 DEF FeedInv

LEMMA BeginKeeps ==
  ASSUME FeedInv, FE!Begin
  PROVE  FeedInv'
<1>1. /\ task' = task /\ now' = now /\ fired' = fired /\ at' = at /\ slips' = slips /\ out' = out
      /\ first' = first /\ snapshot' = snapshot /\ told' = told /\ gap' = gap /\ unheard' = unheard
      /\ run = [pc |-> "idle", todo |-> {}, from |-> 0]
      /\ task # "watch"
    BY DEF FE!Begin, FE!Idle, FE!outside
<1>2. CASE /\ run' = [pc |-> "read", todo |-> {i \in Items : task = "rss" /\ at[i] # 0}, from |-> fired]
           /\ spoilt' = spoilt
  <2>1. FeedShape'
      BY <1>1, <1>2 DEF FeedInv, FeedShape
  <2>2. WorkedOff'
      BY <1>1, <1>2 DEF FeedInv, FeedShape, WorkedOff, Awaited
  <2>3. Once' /\ Follows'
      BY <1>1, <1>2 DEF FeedInv, FeedShape, Once, Follows
  <2> QED
      BY <2>1, <2>2, <2>3 DEF FeedInv
<1>3. CASE /\ run' = [run EXCEPT !.pc = "stamp"]
           /\ spoilt' = spoilt \cup {i \in Items : at[i] > fired}
  <2>1. run' = [pc |-> "stamp", todo |-> {}, from |-> 0]
      BY <1>1, <1>3
  <2>2. FeedShape'
      BY <1>1, <1>3, <2>1 DEF FeedInv, FeedShape
  <2>3. WorkedOff'
      BY <1>1, <1>3, <2>1 DEF FeedInv, FeedShape, WorkedOff, Awaited
  <2>4. Once' /\ Follows'
      BY <1>1, <1>3, <2>1 DEF FeedInv, FeedShape, Once, Follows
  <2> QED
      BY <2>2, <2>3, <2>4 DEF FeedInv
<1> QED
    BY <1>1, <1>2, <1>3 DEF FE!Begin, FE!Doing

LEMMA ListKeeps ==
  ASSUME FeedInv, FE!List
  PROVE  FeedInv'
<1>1. /\ task' = task /\ now' = now /\ fired' = fired /\ at' = at /\ slips' = slips /\ out' = out
      /\ first' = first /\ snapshot' = snapshot /\ told' = told /\ gap' = gap /\ unheard' = unheard
      /\ spoilt' = spoilt /\ run.pc = "read"
    BY DEF FE!List, FE!outside, FE!ofPage
<1>a. PICK new :
        /\ new = IF task = "profiles" THEN FE!Written(run.from) ELSE IF fired = 0 THEN {} ELSE FE!New(fired)
        /\ run' = [run EXCEPT !.pc = IF new = {} THEN "stamp" ELSE "work", !.todo = new]
    BY DEF FE!List
<1>2. PICK pc \in {"stamp", "work"} :
        run' = [run EXCEPT !.pc = pc, !.todo = new] /\ (pc = "stamp" => new = {})
    BY <1>a
<1>3. run' = [pc |-> pc, todo |-> new, from |-> run.from]
    BY <1>2 DEF FeedInv, FeedShape
<1>4. ASSUME NEW i \in Items, Awaited(i) PROVE i \in new
  <2>1. CASE task = "profiles"
      BY <1>1, <1>a, <1>4, <2>1 DEF FE!Written, FeedInv, FeedShape, WorkedOff, Awaited
  <2>2. CASE task # "profiles"
      BY <1>1, <1>a, <1>4, <2>2 DEF FE!New, FeedInv, FeedShape, WorkedOff, Awaited
  <2> QED
      BY <2>1, <2>2
<1>b. new \subseteq Items
    BY <1>1, <1>a DEF FE!Written, FE!New, FeedInv, FeedShape
<1>5. FeedShape'
    BY <1>1, <1>3, <1>b DEF FeedInv, FeedShape
<1>6. WorkedOff'
    BY <1>1, <1>2, <1>3, <1>4 DEF FeedInv, FeedShape, WorkedOff, Awaited
<1>7. task = "rss" => \A i \in new : at[i] > fired
    BY <1>a DEF FE!New
<1>8. Once'
    BY <1>1, <1>3, <1>7 DEF FeedInv, FeedShape, Once
<1>9. Follows'
    BY <1>1, <1>2, <1>3 DEF FeedInv, Follows
<1> QED
    BY <1>5, <1>6, <1>8, <1>9 DEF FeedInv

LEMMA WorkKeeps ==
  ASSUME FeedInv, FE!Work
  PROVE  FeedInv'
<1>1. /\ task' = task /\ now' = now /\ fired' = fired /\ at' = at /\ slips' = slips
      /\ first' = first /\ snapshot' = snapshot /\ told' = told /\ gap' = gap /\ unheard' = unheard
      /\ run.pc = "work"
    BY DEF FE!Work, FE!outside, FE!ofPage
<1>2. PICK i \in run.todo :
        /\ run' = [run EXCEPT !.todo = @ \ {i}, !.pc = IF run.todo = {i} THEN "stamp" ELSE "work"]
        /\ \/ out' = [out EXCEPT ![i] = @ + 1] /\ spoilt' = spoilt
           \/ spoilt' = spoilt \cup {i} /\ out' = out
    BY DEF FE!Work
<1>3. PICK pc \in {"stamp", "work"} :
        /\ run' = [pc |-> pc, todo |-> run.todo \ {i}, from |-> run.from]
        /\ pc = "stamp" => run.todo \ {i} = {}
  <2>1. PICK pc : pc = IF run.todo = {i} THEN "stamp" ELSE "work"
      OBVIOUS
  <2>2. run' = [pc |-> pc, todo |-> run.todo \ {i}, from |-> run.from]
      BY <1>2, <2>1 DEF FeedInv, FeedShape
  <2> QED
      BY <2>1, <2>2
<1>4. /\ out' \in [Items -> Nat] /\ \A j \in Items : out[j] > 0 => out'[j] > 0
      /\ \A j \in Items \ {i} : out'[j] = out[j]
      /\ i \in Items => out'[i] \in {out[i], out[i] + 1} /\ (out'[i] > 0 \/ i \in spoilt')
    BY <1>2 DEF FeedInv, FeedShape
<1>5. i \in Items
    BY <1>1 DEF FeedInv, FeedShape
<1>6. spoilt \subseteq spoilt' /\ spoilt' \subseteq Items
    BY <1>2, <1>5 DEF FeedInv, FeedShape
<1>7. FeedShape'
    BY <1>1, <1>3, <1>4, <1>6 DEF FeedInv, FeedShape
<1>8. WorkedOff'
    BY <1>1, <1>3, <1>4, <1>6 DEF FeedInv, FeedShape, WorkedOff, Awaited
<1>9. Once'
  <2> SUFFICES ASSUME task = "rss", slips = 0, NEW j \in Items
               PROVE  /\ out'[j] <= 1
                      /\ out'[j] = 1 => at[j] # 0
                      /\ j \in run.todo \ {i} => out'[j] = 0 /\ at[j] # 0
      BY <1>1, <1>3 DEF Once
  <2>1. /\ out[j] <= 1 /\ (out[j] = 1 => at[j] # 0)
        /\ j \in run.todo => out[j] = 0 /\ at[j] # 0
      BY <1>1 DEF FeedInv, Once
  <2> QED
      BY <1>4, <1>5, <2>1
<1> QED
    BY <1>1, <1>3, <1>7, <1>8, <1>9 DEF FeedInv, Follows

LEMMA StampKeeps ==
  ASSUME FeedInv, FE!Stamp
  PROVE  FeedInv'
<1>1. /\ task' = task /\ now' = now /\ at' = at /\ out' = out /\ spoilt' = spoilt
      /\ snapshot' = snapshot /\ told' = told /\ gap' = gap /\ unheard' = unheard
      /\ run.pc = "stamp" /\ run' = [pc |-> "idle", todo |-> {}, from |-> 0]
    BY DEF FE!Stamp, FE!Idle, FE!outside, FE!ofPage
<1>2. CASE fired' = now /\ first' = (IF first = 0 THEN now ELSE first) /\ slips' = slips
  <2>1. FeedShape'
      BY <1>1, <1>2 DEF FeedInv, FeedShape
  <2>2. WorkedOff'
      BY <1>1, <1>2 DEF FeedInv, FeedShape, WorkedOff, Awaited
  <2>3. Once' /\ Follows'
      BY <1>1, <1>2 DEF FeedInv, FeedShape, Once, Follows
  <2> QED
      BY <2>1, <2>2, <2>3 DEF FeedInv
<1>3. CASE slips' = slips + 1 /\ fired' = fired /\ first' = first
  <2>1. FeedShape'
      BY <1>1, <1>3 DEF FeedInv, FeedShape
  <2>2. WorkedOff'
      BY <1>1, <1>3 DEF FeedInv, FeedShape, WorkedOff, Awaited
  <2>3. slips' # 0
      BY <1>3 DEF FeedInv, FeedShape
  <2> QED
      BY <2>1, <2>2, <2>3 DEF FeedInv, Once, Follows
<1> QED
    BY <1>2, <1>3 DEF FE!Stamp, FE!Slip

\* What a watched page goes through does not touch entries.
LEMMA WatchKeeps ==
  ASSUME FeedInv, UNCHANGED <<task, now, at, fired, out, first, spoilt>>, slips' \in {slips, slips + 1},
         run'.pc \in {"idle", "ask", "publish", "save"}, Follows',
         run.pc \in {"idle", "ask", "publish", "save"} \/ slips' = slips + 1,
         run' = [pc |-> run'.pc, todo |-> run'.todo, from |-> run'.from]
  PROVE  FeedInv'
<1>1. FeedShape'
    BY DEF FeedInv, FeedShape
<1>2. WorkedOff'
    BY DEF FeedInv, FeedShape, WorkedOff, Awaited
<1>3. slips' = 0 => slips = 0 /\ run.pc \in {"idle", "ask", "publish", "save"}
    BY DEF FeedInv, FeedShape
<1>5. Once'
    BY <1>3 DEF FeedInv, FeedShape, Once
<1> QED
    BY <1>1, <1>2, <1>5 DEF FeedInv

LEMMA WatchStepsKeep ==
  ASSUME FeedInv, FE!Fetch \/ FE!Summarize \/ FE!Publish \/ FE!SaveSnapshot \/ FE!Crash
  PROVE  FeedInv'
<1> DEFINE watching == {"idle", "ask", "publish", "save"}
<1>0. /\ UNCHANGED <<task, now, at, fired, out, first, spoilt>>
      /\ slips \in Nat /\ FE!Idle = [pc |-> "idle", todo |-> {}, from |-> 0]
      /\ run = [pc |-> run.pc, todo |-> run.todo, from |-> run.from]
    BY DEF FE!Fetch, FE!Summarize, FE!Publish, FE!SaveSnapshot, FE!Crash, FE!outside, FE!Idle,
           FeedInv, FeedShape
<1>1. CASE FE!Fetch
  <2>1. /\ run.pc = "idle" /\ slips' \in {slips, slips + 1} /\ gap' = gap /\ unheard' = unheard
      BY <1>0, <1>1 DEF FE!Fetch, FE!Slip
  <2>2. \/ snapshot' = {page} /\ told' = {page} /\ run' = run
        \/ slips' = slips + 1 /\ run' = run
        \/ run' = [pc |-> "ask", todo |-> snapshot, from |-> page]
           /\ snapshot' = snapshot /\ told' = told /\ slips' = slips
      BY <1>1 DEF FE!Fetch, FE!Slip
  <2>3. /\ run'.pc \in {"idle", "ask"} /\ run' = [pc |-> run'.pc, todo |-> run'.todo, from |-> run'.from]
      BY <1>0, <2>1, <2>2
  <2>4. Follows'
      BY <1>0, <2>1, <2>2 DEF FeedInv, Follows
  <2> QED
      BY <1>0, <2>1, <2>3, <2>4, WatchKeeps
<1>2. CASE FE!Summarize
  <2>1. /\ run.pc = "ask" /\ slips' = slips /\ gap' = gap /\ unheard' = unheard /\ told' = told
        /\ snapshot' = snapshot /\ run' \in {[run EXCEPT !.pc = "publish"], FE!Idle}
      BY <1>2 DEF FE!Summarize, FE!Doing, FE!Touched
  <2>2. \/ run' = [pc |-> "publish", todo |-> run.todo, from |-> run.from]
        \/ run' = [pc |-> "idle", todo |-> {}, from |-> 0]
      BY <1>0, <2>1
  <2>3. /\ run'.pc \in {"idle", "publish"} /\ run' = [pc |-> run'.pc, todo |-> run'.todo, from |-> run'.from]
      BY <2>2
  <2>4. Follows'
      BY <2>1, <2>2 DEF FeedInv, Follows
  <2> QED
      BY <1>0, <2>1, <2>3, <2>4, WatchKeeps
<1>3. CASE FE!Publish
  <2>1. /\ run.pc = "publish" /\ slips' = slips /\ snapshot' = snapshot
        /\ gap' = (gap \/ told # run.todo)
        /\ (told' = {run.from} /\ unheard' = unheard) \/ unheard' = TRUE
        /\ run' = [run EXCEPT !.pc = "save"]
      BY <1>3 DEF FE!Publish, FE!Doing
  <2>2. run' = [pc |-> "save", todo |-> run.todo, from |-> run.from]
      BY <1>0, <2>1
  <2>3. Follows'
      BY <2>1, <2>2 DEF FeedInv, Follows
  <2>4. run' = [pc |-> run'.pc, todo |-> run'.todo, from |-> run'.from] /\ run'.pc = "save"
      BY <2>2
  <2> QED
      BY <1>0, <2>1, <2>3, <2>4, WatchKeeps
<1>4. CASE FE!SaveSnapshot
  <2>1. /\ run.pc = "save" /\ gap' = gap /\ unheard' = unheard /\ told' = told
        /\ (snapshot' = {run.from} /\ slips' = slips) \/ slips' = slips + 1
        /\ run' = [pc |-> "idle", todo |-> {}, from |-> 0]
      BY <1>0, <1>4 DEF FE!SaveSnapshot, FE!Slip
  <2>2. Follows'
      BY <1>0, <2>1 DEF FeedInv, Follows
  <2>3. run' = [pc |-> run'.pc, todo |-> run'.todo, from |-> run'.from] /\ run'.pc = "idle"
      BY <2>1
  <2> QED
      BY <1>0, <2>1, <2>2, <2>3, WatchKeeps
<1>5. CASE FE!Crash
  <2>1. slips' = slips + 1 /\ run' = [pc |-> "idle", todo |-> {}, from |-> 0]
      BY <1>0, <1>5 DEF FE!Crash, FE!Slip
  <2>2. Follows'
      BY <1>0, <2>1 DEF Follows
  <2>3. run' = [pc |-> run'.pc, todo |-> run'.todo, from |-> run'.from] /\ run'.pc = "idle"
      BY <2>1
  <2> QED
      BY <1>0, <2>1, <2>2, <2>3, WatchKeeps
<1> QED
    BY <1>1, <1>2, <1>3, <1>4, <1>5

LEMMA FeedInvSteps == FeedInv /\ FE!FeedsNext => FeedInv'
<1> SUFFICES ASSUME FeedInv, FE!FeedsNext PROVE FeedInv'
    OBVIOUS
<1>1. CASE FE!Tick
  <2>1. /\ now' = now + 1
        /\ UNCHANGED <<task, at, fired, run, slips, out, first, spoilt, snapshot, told, gap, unheard>>
      BY <1>1 DEF FE!Tick, FE!ofPage
  <2>2. FeedShape'
      BY <2>1 DEF FeedInv, FeedShape
  <2> QED
      BY <2>1, <2>2 DEF FeedInv, WorkedOff, Awaited, Once, Follows
<1>2. CASE FE!PageChanges
    BY <1>2 DEF FE!PageChanges, FeedInv, FeedShape, WorkedOff, Awaited, Once, Follows
<1> QED
    BY <1>1, <1>2, AppearKeeps, BeginKeeps, ListKeeps, WorkKeeps, StampKeeps, WatchStepsKeep
    DEF FE!FeedsNext

\* While another part is at work, nothing is published.
FeedsInv == IF part = "feeds" THEN FeedInv ELSE gap = FALSE /\ first = 0 /\ out = [i \in Items |-> 0]

LEMMA FeedsInvInitially == BotInit => FeedsInv
BY FeedInvInitially DEF BotInit, FeedsInv, FE!FeedsInit

LEMMA FeedsInvHolds == FeedsInv /\ [BotNext]_botVars => FeedsInv'
<1> SUFFICES ASSUME FeedsInv, [BotNext]_botVars PROVE FeedsInv'
    OBVIOUS
<1>1. CASE part = "feeds" /\ FE!FeedsNext /\ part' = part
    BY <1>1, FeedInvSteps DEF FeedsInv
<1>2. CASE part # "feeds" /\ part' = part /\ UNCHANGED feedVars
    BY <1>2 DEF FeedsInv, feedVars
<1>3. CASE UNCHANGED botVars
    BY <1>3 DEF botVars, feedVars, FeedsInv, FeedInv, FeedShape, WorkedOff, Awaited, Once, Follows
<1> QED
    BY <1>1, <1>2, <1>3 DEF BotNext

\* What came up between the first run of a task and its last was worked off, and no entry of a
\* feed was published twice, however many there are and however the runs fail; with the
\* exceptions that the property names.  (processRssFeed, runUserProfilesUpdate, executeWithLock)
THEOREM EntriesAreWorkedOff == BotSpec => []EachItemOnce
<1>1. FeedsInv => EachItemOnce
  <2> SUFFICES ASSUME FeedsInv PROVE EachItemOnce
      OBVIOUS
  <2>1. CASE part = "feeds"
    <3>1. \A i \in Items \ spoilt : first # 0 /\ first < at[i] /\ at[i] < fired => out[i] > 0
        BY <2>1 DEF FeedsInv, FeedInv, FeedShape, WorkedOff
    <3>2. task = "rss" /\ slips = 0 => \A i \in Items : out[i] <= 1
        BY <2>1 DEF FeedsInv, FeedInv, Once
    <3> QED
        BY <3>1, <3>2 DEF EachItemOnce, FE!EachItemOnce
  <2>2. CASE part # "feeds"
      BY <2>2 DEF FeedsInv, EachItemOnce, FE!EachItemOnce
  <2> QED
      BY <2>1, <2>2
<1> QED
    BY <1>1, FeedsInvInitially, FeedsInvHolds, PTL DEF BotSpec, botVars

\* Each report about a watched page starts from the version that the readers know of, through
\* any number of changes; except after a report that reached nobody or was not noted.
\* (processWatchedSite)
THEOREM ReportsFollow == BotSpec => []NothingUntold
<1>1. FeedsInv => NothingUntold
    BY DEF FeedsInv, FeedInv, FeedShape, Follows, NothingUntold, FE!NothingUntold
<1> QED
    BY <1>1, FeedsInvInitially, FeedsInvHolds, PTL DEF BotSpec, botVars

---------------------------------------------------------------------------
(* Profiles: screening.                                                    *)

ScreenShape ==
  /\ handler.pc \in {"idle", "screen", "judge", "append", "invalidate"}
  /\ handler.pc = "idle" => handler = PR!Rest
  /\ handler.pc # "idle" => \E u \in Users : handler.user = {u}
  /\ handler = [pc |-> handler.pc, user |-> handler.user, row |-> handler.row]
  /\ screened \in [Users -> 0 .. 2]
  /\ messages \subseteq Users

AtScreen(u) == handler.pc = "screen" /\ u \in handler.user

\* Who was screened has a message, or had one; whoever is screened again had one; and whoever has
\* one was screened, or is.
ScreenInv ==
  /\ ScreenShape
  /\ \A u \in Users : screened[u] > 0 \/ AtScreen(u) => u \in messages \cup forgotten
  /\ \A u \in Users : screened[u] > 0 /\ AtScreen(u) => u \in forgotten
  /\ \A u \in Users : screened[u] > 1 => u \in forgotten
  /\ \A u \in messages : screened[u] > 0 \/ u \in skipped \/ AtScreen(u)

LEMMA ScreenInvInitially == PR!ProfilesInit => ScreenInv
BY DEF PR!ProfilesInit, PR!Rest, ScreenInv, ScreenShape, AtScreen

LEMMA ReceiveKeepsScreening ==
  ASSUME ScreenInv, NEW u \in Users, PR!Receive(u)
  PROVE  ScreenInv'
<1>1. PICK counted \in BOOLEAN, stored \in BOOLEAN :
        /\ messages' = IF stored THEN messages \cup {u} ELSE messages
        /\ handler' = [pc |-> IF counted /\ u \notin messages THEN "screen" ELSE "judge",
                       user |-> {u}, row |-> {}]
        /\ forgotten' = IF stored THEN forgotten ELSE forgotten \cup {u}
        /\ skipped' = IF counted THEN skipped ELSE skipped \cup {u}
    BY DEF PR!Receive, PR!FirstInChat
<1>2. screened' = screened /\ handler = PR!Rest /\ handler.pc = "idle"
    BY DEF PR!Receive, PR!Rest
<1>3. PICK pc \in {"screen", "judge"} :
        /\ handler' = [pc |-> pc, user |-> {u}, row |-> {}]
        /\ pc = "screen" <=> counted /\ u \notin messages
    BY <1>1
<1>4. ScreenShape'
    BY <1>1, <1>2, <1>3 DEF ScreenInv, ScreenShape
<1>5. \A w : AtScreen(w)' <=> (pc = "screen" /\ w = u)
    BY <1>3 DEF AtScreen
<1>6. \A w : ~AtScreen(w)
    BY <1>2 DEF AtScreen
<1> QED
    BY <1>1, <1>2, <1>3, <1>4, <1>5, <1>6 DEF ScreenInv, ScreenShape

LEMMA ScreenKeepsScreening ==
  ASSUME ScreenInv, PR!Screen
  PROVE  ScreenInv'
<1>1. /\ handler.pc = "screen" /\ messages' = messages /\ forgotten' = forgotten /\ skipped' = skipped
      /\ screened' = [u \in Users |-> IF u \in handler.user /\ screened[u] < 2 THEN screened[u] + 1
                                                                         ELSE screened[u]]
    BY DEF PR!Screen
<1>2. PICK findings \in SUBSET Findings, pc \in {"judge", "append"} :
        handler' = [pc |-> pc, user |-> handler.user, row |-> findings]
  <2>1. PICK findings \in SUBSET Findings :
          handler' = [handler EXCEPT !.pc = IF findings = {} THEN "judge" ELSE "append", !.row = findings]
      BY DEF PR!Screen
  <2>2. PICK pc : pc = IF findings = {} THEN "judge" ELSE "append"
      OBVIOUS
  <2>3. handler' = [pc |-> pc, user |-> handler.user, row |-> findings]
      BY <2>1, <2>2 DEF ScreenInv, ScreenShape
  <2> QED
      BY <2>2, <2>3
<1>3. /\ \A u : ~AtScreen(u)'
      /\ \A u : AtScreen(u) <=> u \in handler.user
    BY <1>1, <1>2 DEF AtScreen
<1>4. /\ \A u \in Users : u \in handler.user => screened'[u] > 0
      /\ \A u \in Users : u \notin handler.user => screened'[u] = screened[u]
      /\ \A u \in Users : screened'[u] > 1 => screened[u] > 0
      /\ screened' \in [Users -> 0 .. 2]
    BY <1>1 DEF ScreenInv, ScreenShape
<1>5. ScreenShape'
    BY <1>1, <1>2, <1>4 DEF ScreenInv, ScreenShape
<1> QED
    BY <1>1, <1>3, <1>4, <1>5 DEF ScreenInv, ScreenShape

\* The handler goes on to where it does not screen.
LEMMA MovesKeepScreening ==
  ASSUME ScreenInv, NEW pc \in {"judge", "invalidate"},
         \/ handler' = [handler EXCEPT !.pc = pc] /\ handler.pc # "idle"
         \/ handler' = PR!Rest,
         handler.pc # "screen" \/ \A u \in handler.user : u \in skipped',
         messages' = messages, screened' = screened, forgotten' = forgotten, skipped \subseteq skipped'
  PROVE  ScreenInv'
<1>1. handler' = PR!Rest \/ handler' = [pc |-> pc, user |-> handler.user, row |-> handler.row]
    BY DEF ScreenInv, ScreenShape
<1>2. ScreenShape'
    BY <1>1 DEF ScreenInv, ScreenShape, PR!Rest
<1>3. \A u : ~AtScreen(u)' /\ (AtScreen(u) => u \in skipped')
    BY <1>1 DEF AtScreen, PR!Rest
<1> QED
    BY <1>2, <1>3 DEF ScreenInv, ScreenShape

LEMMA ScreenInvSteps == Writers \subseteq Users /\ ScreenInv /\ PR!ProfilesNext => ScreenInv'
<1> SUFFICES ASSUME Writers \subseteq Users, ScreenInv, PR!ProfilesNext PROVE ScreenInv'
    OBVIOUS
<1>1. CASE \E u \in Users : PR!CleanupMessages(u)
  <2>1. PICK u \in Users : /\ messages' = messages \ {u} /\ forgotten' = forgotten \cup {u}
                           /\ UNCHANGED <<handler, screened, skipped>>
      BY <1>1 DEF PR!CleanupMessages
  <2>2. ScreenShape'
      BY <2>1 DEF ScreenInv, ScreenShape
  <2>3. \A w : AtScreen(w)' <=> AtScreen(w)
      BY <2>1 DEF AtScreen
  <2> QED
      BY <2>1, <2>2, <2>3 DEF ScreenInv
<1>2. CASE \E u \in Writers : PR!Receive(u)
    BY <1>2, ReceiveKeepsScreening
<1>3. CASE PR!Screen
    BY <1>3, ScreenKeepsScreening
<1>4. CASE PR!AppendFindings
  <2>1. /\ handler' = [handler EXCEPT !.pc = "invalidate"] \/ handler' = [handler EXCEPT !.pc = "judge"]
        /\ handler.pc = "append" /\ UNCHANGED <<messages, screened, forgotten, skipped>>
      BY <1>4 DEF PR!AppendFindings, PR!screening
  <2> QED
      BY <2>1, MovesKeepScreening
<1>5. CASE PR!InvalidateFindings
  <2>1. /\ handler' = [handler EXCEPT !.pc = "judge"]
        /\ handler.pc = "invalidate" /\ UNCHANGED <<messages, screened, forgotten, skipped>>
      BY <1>5 DEF PR!InvalidateFindings, PR!screening
  <2> QED
      BY <2>1, MovesKeepScreening
<1>6. CASE PR!Judge
  <2>1. /\ handler' = PR!Rest
        /\ handler.pc = "judge" /\ UNCHANGED <<messages, screened, forgotten, skipped>>
      BY <1>6 DEF PR!Judge, PR!screening
  <2> QED
      BY <2>1, MovesKeepScreening
<1>7. CASE PR!Crash
  <2>1. /\ handler' = PR!Rest
        /\ skipped' = IF handler.pc = "screen" THEN skipped \cup handler.user ELSE skipped
        /\ UNCHANGED <<messages, screened, forgotten>>
      BY <1>7 DEF PR!Crash
  <2> QED
      BY <2>1, MovesKeepScreening
<1>8. CASE UNCHANGED <<handler, messages, screened, forgotten, skipped>>
    BY <1>8 DEF ScreenInv, ScreenShape, AtScreen
<1>9. \/ \E u \in Users : PR!CleanupMessages(u)
      \/ \E u \in Writers : PR!Receive(u)
      \/ PR!Screen \/ PR!AppendFindings \/ PR!InvalidateFindings \/ PR!Judge \/ PR!Crash
      \/ UNCHANGED <<handler, messages, screened, forgotten, skipped>>
    BY DEF PR!ProfilesNext, PR!Lookup, PR!DeleteProfile, PR!Regenerate, PR!LookupPut,
           PR!UpsertUserProfile, PR!InvalidateUpdate, PR!Tick, PR!screening
<1> QED
    BY <1>1, <1>2, <1>3, <1>4, <1>5, <1>6, <1>7, <1>8, <1>9

---------------------------------------------------------------------------
(* Profiles: the cache.                                                    *)

Row == [text : {0, 1}, findings : SUBSET Findings]
Entries == [user : Users, rows : SUBSET Row, until : Int]

\* An entry at most for each user.
OneEach(s) == \A i, j \in DOMAIN s : s[i].user = s[j].user => i = j
\* A list that holds what another one does.
From(s, t) == \A i \in DOMAIN s : \E j \in DOMAIN t : s[i] = t[j]
FromOthers(s, t, u) == \A i \in DOMAIN s : \E j \in DOMAIN t : s[i] = t[j] /\ t[j].user # u

CacheShape == cache \in Seq(Entries) /\ OneEach(cache)

LEMMA EntryIsTheOne ==
  ASSUME CacheShape, NEW i \in DOMAIN cache
  PROVE  PR!Entry(cache[i].user) = i
<1> DEFINE u == cache[i].user
<1>1. \E j \in DOMAIN cache : cache[j].user = u
    OBVIOUS
<1>2. PR!Entry(u) \in DOMAIN cache /\ cache[PR!Entry(u)].user = u
    BY <1>1 DEF PR!Entry
<1> QED
    BY <1>2 DEF CacheShape, OneEach

\* A list with one element taken out.
LEMMA TakenOut ==
  ASSUME NEW S, NEW s \in Seq(S), NEW e \in 1 .. Len(s)
  PROVE  LET w == SubSeq(s, 1, e - 1) \o SubSeq(s, e + 1, Len(s))
         IN  /\ w \in Seq(S) /\ DOMAIN w = 1 .. Len(s) - 1
             /\ \A i \in 1 .. Len(s) - 1 : w[i] = IF i < e THEN s[i] ELSE s[i + 1]
<1> DEFINE n == Len(s)
           a == SubSeq(s, 1, e - 1)
           b == SubSeq(s, e + 1, n)
           w == a \o b
<1>0. n \in Nat /\ e \in Int /\ 1 <= e /\ e <= n /\ \A i \in 1 .. n : s[i] \in S
    OBVIOUS
<1> HIDE DEF n
<1>1. a \in Seq(S) /\ Len(a) = e - 1 /\ \A i \in 1 .. e - 1 : a[i] = s[i]
  <2>1. \A i \in 1 .. e - 1 : s[i] \in S
      BY <1>0
  <2>2. /\ a \in Seq(S) /\ Len(a) = IF 1 <= e - 1 THEN e - 1 - 1 + 1 ELSE 0
        /\ \A i \in 1 .. e - 1 - 1 + 1 : a[i] = s[1 + i - 1]
      BY <1>0, <2>1, SubSeqProperties
  <2> QED
      BY <1>0, <2>2
<1>2. b \in Seq(S) /\ Len(b) = n - e /\ \A i \in 1 .. n - e : b[i] = s[e + i]
  <2>1. \A i \in e + 1 .. n : s[i] \in S
      BY <1>0
  <2>2. /\ b \in Seq(S) /\ Len(b) = IF e + 1 <= n THEN n - (e + 1) + 1 ELSE 0
        /\ \A i \in 1 .. n - (e + 1) + 1 : b[i] = s[e + 1 + i - 1]
      BY <1>0, <2>1, SubSeqProperties
  <2> QED
      BY <1>0, <2>2
<1> HIDE DEF a, b
<1>3. /\ w \in Seq(S) /\ Len(w) = Len(a) + Len(b)
      /\ \A i \in 1 .. Len(a) + Len(b) : w[i] = IF i <= Len(a) THEN a[i] ELSE b[i - Len(a)]
    BY <1>1, <1>2, ConcatProperties
<1> HIDE DEF w
<1>4. Len(w) = n - 1 /\ DOMAIN w = 1 .. n - 1
    BY <1>0, <1>1, <1>2, <1>3
<1>5. ASSUME NEW i \in 1 .. n - 1 PROVE w[i] = IF i < e THEN s[i] ELSE s[i + 1]
  <2>1. CASE i < e
      BY <1>0, <1>1, <1>2, <1>3, <2>1
  <2>2. CASE ~(i < e)
    <3>1. i \in 1 .. Len(a) + Len(b) /\ ~(i <= Len(a)) /\ i - Len(a) \in 1 .. n - e
        BY <1>0, <1>1, <1>2, <2>2
    <3>2. w[i] = b[i - Len(a)]
        BY <1>3, <3>1
    <3>3. b[i - Len(a)] = s[e + (i - Len(a))]
        BY <1>2, <3>1
    <3>4. e + (i - Len(a)) = i + 1
        BY <1>0, <1>1
    <3> QED
        BY <2>2, <3>2, <3>3, <3>4
  <2> QED
      BY <2>1, <2>2
<1> QED
    BY <1>3, <1>4, <1>5 DEF w, a, b, n

\* removeElement leaves the others.
LEMMA WithoutOf ==
  ASSUME CacheShape, NEW u
  PROVE  /\ PR!Without(u) \in Seq(Entries) /\ OneEach(PR!Without(u))
         /\ FromOthers(PR!Without(u), cache, u)
<1> DEFINE n == Len(cache)
           w == PR!Without(u)
<1>0. cache \in Seq(Entries) /\ n \in Nat /\ DOMAIN cache = 1 .. n
    BY DEF CacheShape
<1>1. CASE \E i \in DOMAIN cache : cache[i].user = u
  <2>1. PICK e \in 1 .. n : e = PR!Entry(u) /\ cache[e].user = u
      BY <1>0, <1>1 DEF PR!Entry
  <2>2. \A i \in 1 .. n : i # e => cache[i].user # u
      BY <1>0, <2>1 DEF CacheShape, OneEach
  <2>3. w = SubSeq(cache, 1, e - 1) \o SubSeq(cache, e + 1, n)
      BY <1>1, <2>1 DEF PR!Without
  <2>4. /\ w \in Seq(Entries) /\ DOMAIN w = 1 .. n - 1
        /\ \A i \in 1 .. n - 1 : w[i] = IF i < e THEN cache[i] ELSE cache[i + 1]
      BY <1>0, <2>1, <2>3, TakenOut
  <2> HIDE DEF w
  <2>5. PICK at1 \in [1 .. n - 1 -> 1 .. n] : \A i \in 1 .. n - 1 : at1[i] = IF i < e THEN i ELSE i + 1
    <3>1. [i \in 1 .. n - 1 |-> IF i < e THEN i ELSE i + 1] \in [1 .. n - 1 -> 1 .. n]
        BY <1>0, <2>1
    <3> QED
        BY <3>1
  <2>6. \A i \in 1 .. n - 1 : w[i] = cache[at1[i]] /\ at1[i] # e
      BY <1>0, <2>1, <2>4, <2>5
  <2>7. \A i, j \in 1 .. n - 1 : at1[i] = at1[j] => i = j
      BY <1>0, <2>1, <2>5
  <2>8. FromOthers(w, cache, u)
      BY <1>0, <2>2, <2>4, <2>5, <2>6 DEF FromOthers
  <2>9. OneEach(w)
      BY <1>0, <2>4, <2>5, <2>6, <2>7 DEF CacheShape, OneEach
  <2> QED
      BY <2>4, <2>8, <2>9 DEF w
<1>2. CASE ~\E i \in DOMAIN cache : cache[i].user = u
  <2>1. w = cache
      BY <1>2 DEF PR!Without
  <2> QED
      BY <1>2, <2>1 DEF CacheShape, FromOthers
<1> QED
    BY <1>1, <1>2

\* An entry in front of others that are not the same user's.
LEMMA InFront ==
  ASSUME NEW s \in Seq(Entries), OneEach(s), NEW x \in Entries,
         \A i \in DOMAIN s : s[i].user # x.user
  PROVE  /\ <<x>> \o s \in Seq(Entries) /\ OneEach(<<x>> \o s)
         /\ \A i \in DOMAIN (<<x>> \o s) : (<<x>> \o s)[i] = x \/ \E j \in DOMAIN s : (<<x>> \o s)[i] = s[j]
<1> DEFINE w == <<x>> \o s
<1>1. w \in Seq(Entries) /\ DOMAIN w = 1 .. Len(s) + 1 /\ Len(s) \in Nat /\ DOMAIN s = 1 .. Len(s)
    OBVIOUS
<1>2. \A i \in 1 .. Len(s) + 1 : w[i] = IF i = 1 THEN x ELSE s[i - 1]
    OBVIOUS
<1> HIDE DEF w
<1>3. OneEach(w)
  <2> SUFFICES ASSUME NEW i \in DOMAIN w, NEW j \in DOMAIN w, w[i].user = w[j].user PROVE i = j
      BY DEF OneEach
  <2>1. CASE i = 1 /\ j # 1
      BY <1>1, <1>2, <2>1
  <2>2. CASE i # 1 /\ j = 1
      BY <1>1, <1>2, <2>2
  <2>3. CASE i # 1 /\ j # 1
    <3>1. i - 1 \in DOMAIN s /\ j - 1 \in DOMAIN s /\ s[i - 1].user = s[j - 1].user
        BY <1>1, <1>2, <2>3
    <3>2. i - 1 = j - 1
        BY <3>1 DEF OneEach
    <3> QED
        BY <1>1, <3>2
  <2> QED
      BY <2>1, <2>2, <2>3
<1>4. \A i \in DOMAIN w : w[i] = x \/ \E j \in DOMAIN s : w[i] = s[j]
    BY <1>1, <1>2
<1> QED
    BY <1>1, <1>3, <1>4 DEF w

LEMMA PutOf ==
  ASSUME CacheShape, MaxEntries \in Nat, now \in Int, Ttl \in Int, NEW u \in Users, NEW kept \in SUBSET Row
  PROVE  /\ PR!Put(u, kept) \in Seq(Entries) /\ OneEach(PR!Put(u, kept))
         /\ \A i \in DOMAIN PR!Put(u, kept) :
              \/ PR!Put(u, kept)[i] = [user |-> u, rows |-> kept, until |-> now + Ttl]
              \/ \E j \in DOMAIN cache : PR!Put(u, kept)[i] = cache[j] /\ cache[j].user # u
<1> DEFINE x == [user |-> u, rows |-> kept, until |-> now + Ttl]
           s == PR!Without(u)
           all == <<x>> \o s
           n == IF Len(all) > MaxEntries THEN MaxEntries ELSE Len(all)
           p == SubSeq(all, 1, n)
<1>1. x \in Entries /\ x.user = u
    BY DEF Entries
<1>2. s \in Seq(Entries) /\ OneEach(s) /\ FromOthers(s, cache, u)
    BY WithoutOf
<1> HIDE DEF x, s
<1>3. /\ all \in Seq(Entries) /\ OneEach(all)
      /\ \A i \in DOMAIN all : all[i] = x \/ \E j \in DOMAIN s : all[i] = s[j]
    BY <1>1, <1>2, InFront DEF FromOthers
<1> HIDE DEF all
<1>4. n \in 0 .. Len(all) /\ Len(all) \in Nat /\ DOMAIN all = 1 .. Len(all)
    BY <1>3
<1>5. PR!Put(u, kept) = p
    BY DEF PR!Put, all, x, s
<1> HIDE DEF n
<1>6. p \in Seq(Entries) /\ DOMAIN p = 1 .. n /\ \A i \in 1 .. n : p[i] = all[i]
    BY <1>3, <1>4
<1> HIDE DEF p
<1>7. OneEach(p)
    BY <1>3, <1>4, <1>6 DEF OneEach
<1>8. \A i \in DOMAIN p : p[i] = x \/ \E j \in DOMAIN cache : p[i] = cache[j] /\ cache[j].user # u
    BY <1>2, <1>3, <1>4, <1>6 DEF FromOthers
<1> QED
    BY <1>5, <1>6, <1>7, <1>8 DEF x

LEMMA GetOf ==
  ASSUME CacheShape, NEW u
  PROVE  PR!Get(u) \in Seq(Entries) /\ OneEach(PR!Get(u)) /\ From(PR!Get(u), cache)
<1>1. PR!Without(u) \in Seq(Entries) /\ OneEach(PR!Without(u)) /\ FromOthers(PR!Without(u), cache, u)
    BY WithoutOf
<1>2. CASE PR!Cached(u)
  <2>1. PICK i \in DOMAIN cache : cache[i].user = u
      BY <1>2 DEF PR!Cached
  <2>2. cache[PR!Entry(u)] = cache[i] /\ cache[i] \in Entries
      BY <2>1, EntryIsTheOne DEF CacheShape
  <2>3. PR!Get(u) = <<cache[i]>> \o PR!Without(u)
      BY <1>2, <2>2 DEF PR!Get
  <2> DEFINE w == <<cache[i]>> \o PR!Without(u)
  <2>4. /\ w \in Seq(Entries) /\ OneEach(w)
        /\ \A k \in DOMAIN w : w[k] = cache[i] \/ \E j \in DOMAIN PR!Without(u) : w[k] = PR!Without(u)[j]
      BY <1>1, <2>1, <2>2, InFront DEF FromOthers
  <2> HIDE DEF w
  <2>5. From(w, cache)
      BY <1>1, <2>1, <2>4 DEF From, FromOthers
  <2> QED
      BY <2>3, <2>4, <2>5 DEF w
<1>3. CASE ~PR!Cached(u)
    BY <1>1, <1>3 DEF PR!Get, From, FromOthers
<1> QED
    BY <1>2, <1>3

\* What screening has found, of a row.
Held(kept) == UNION {r.findings : r \in kept}

ProfileShape ==
  /\ now \in Int
  /\ profile \in [Users -> SUBSET Row] /\ found \in [Users -> SUBSET Findings]
  /\ stale \in [Users -> Int] /\ \A u \in Users : stale[u] <= now
  /\ \A p \in {handler, update, lookup} : /\ p = PR!Rest \/ \E u \in Users : p.user = {u}
                                          /\ p = [pc |-> p.pc, user |-> p.user, row |-> p.row]
  /\ handler.row \subseteq Findings /\ lookup.row \subseteq Row

\* What was stored is about to be invalidated.
Pending(u) == \E p \in {update, handler} : p.pc = "invalidate" /\ u \in p.user

\* What is known of a user is what the row says, with all that was found.
Fresh(u, kept) == PR!Shown(kept) = PR!Shown(profile[u]) /\ found[u] \subseteq Held(kept)

\* An entry is as good as the row, or runs out in time.
Sound(e) ==
  /\ e.until <= now + Ttl
  /\ e.until <= stale[e.user] + Ttl \/ Pending(e.user) \/ Fresh(e.user, e.rows)

CacheInv ==
  /\ ProfileShape /\ CacheShape
  /\ \A u \in Users : found[u] \subseteq Held(profile[u])
  /\ \A i \in DOMAIN cache : Sound(cache[i])

LEMMA CacheInvInitially == Ttl \in Nat /\ PR!ProfilesInit => CacheInv
<1> SUFFICES ASSUME Ttl \in Nat, PR!ProfilesInit PROVE CacheInv
    OBVIOUS
<1>1. /\ now = 1 /\ profile = [u \in Users |-> {}] /\ cache = <<>> /\ found = [u \in Users |-> {}]
      /\ handler = PR!Rest /\ update = PR!Rest /\ lookup = PR!Rest
      /\ stale = [u \in Users |-> -Ttl - 1]
    BY DEF PR!ProfilesInit, PR!Never
<1>2. ProfileShape
    BY <1>1 DEF ProfileShape, PR!Rest
<1>3. CacheShape /\ DOMAIN cache = {}
    BY <1>1 DEF CacheShape, OneEach
<1>4. \A u \in Users : found[u] = {}
    BY <1>1
<1> QED
    BY <1>2, <1>3, <1>4 DEF CacheInv

\* An entry stays as good as it was while time passes and no row is changed without notice.
LEMMA SoundStays ==
  ASSUME NEW e \in Entries, Sound(e), Ttl \in Nat, now \in Int, now' \in Int, now' >= now,
         stale[e.user] \in Int, stale'[e.user] \in Int, stale'[e.user] >= stale[e.user],
         Pending(e.user) => Pending(e.user)',
         Fresh(e.user, e.rows) => Fresh(e.user, e.rows)' \/ Pending(e.user)'
  PROVE  Sound(e)'
<1>1. e.until \in Int
    BY DEF Entries
<1>2. e.until <= now' + Ttl
    BY <1>1 DEF Sound
<1>3. e.until <= stale[e.user] + Ttl => e.until <= stale'[e.user] + Ttl
    BY <1>1
<1> QED
    BY <1>2, <1>3 DEF Sound

\* No row, nobody at work on one and no time changes.
Quiet == UNCHANGED <<now, profile, found, stale>>
NoticesStay == \A u \in Users : Pending(u) => Pending(u)'

LEMMA QuietKeepsSound ==
  ASSUME CacheInv, Ttl \in Nat, Quiet, NEW e \in Entries, Sound(e), Pending(e.user) => Pending(e.user)'
  PROVE  Sound(e)'
<1>1. /\ now \in Int /\ now' = now /\ e.user \in Users
      /\ stale[e.user] \in Int /\ stale' = stale
    BY DEF CacheInv, ProfileShape, Quiet, Entries
<1>2. Fresh(e.user, e.rows) => Fresh(e.user, e.rows)'
    BY DEF Fresh, Quiet, PR!Shown
<1> QED
    BY <1>1, <1>2, SoundStays

\* The row of a user is fresh for whoever reads it.
LEMMA RowIsFresh == ASSUME CacheInv, NEW u \in Users PROVE Fresh(u, profile[u])
BY DEF CacheInv, Fresh

\* Stubs hold nothing.
LEMMA ShownHolds == \A kept : Held(PR!Shown(kept)) = Held(kept)
<1>1. PR!Blank.findings = {}
    BY DEF PR!Blank
<1> QED
    BY <1>1 DEF Held, PR!Shown

LEMMA LookupKeepsCache ==
  ASSUME Ttl \in Nat, CacheInv, NEW u \in Users, PR!Lookup(u)
  PROVE  CacheInv'
<1>1. /\ cache' = PR!Get(u) /\ Quiet /\ handler' = handler /\ update' = update
      /\ lookup' = PR!Rest \/ lookup' = [pc |-> "put", user |-> {u}, row |-> profile[u]]
    BY DEF PR!Lookup, Quiet
<1>2. ProfileShape'
    BY <1>1 DEF CacheInv, ProfileShape, Quiet, PR!Rest
<1>3. CacheShape' /\ From(cache', cache)
    BY <1>1, GetOf DEF CacheInv, CacheShape
<1>4. ASSUME NEW i \in DOMAIN cache' PROVE Sound(cache[i])'
  <2>1. PICK j \in DOMAIN cache : cache'[i] = cache[j]
      BY <1>3 DEF From
  <2>2. PICK e \in Entries : e = cache[j]
      BY DEF CacheInv, CacheShape
  <2>3. Sound(e)
      BY <2>2 DEF CacheInv
  <2>4. Sound(e)'
      BY <1>1, <2>3, QuietKeepsSound DEF Pending
  <2> QED
      BY <2>1, <2>2, <2>4 DEF Sound
<1> QED
    BY <1>1, <1>2, <1>3, <1>4 DEF CacheInv, Quiet

\* A cache of sound entries.
LEMMA SoundCache ==
  ASSUME CacheShape', \A i \in DOMAIN cache' : \E e \in Entries : cache'[i] = e /\ Sound(e)'
  PROVE  \A i \in DOMAIN cache' : Sound(cache[i])'
BY DEF Sound

\* The entries of a cache, before and after.
LEMMA EntriesAre == ASSUME CacheInv, NEW j \in DOMAIN cache PROVE cache[j] \in Entries /\ Sound(cache[j])
BY DEF CacheInv, CacheShape

\* Everything that leaves the cache alone and notices and rows as good as they were.
LEMMA CacheStays ==
  ASSUME Ttl \in Nat, CacheInv, cache' = cache, ProfileShape',
         \A u \in Users : found'[u] \subseteq Held(profile'[u]),
         \A e \in Entries : Sound(e) => Sound(e)'
  PROVE  CacheInv'
<1>1. CacheShape'
    BY DEF CacheInv, CacheShape
<1>2. \A i \in DOMAIN cache' : \E e \in Entries : cache'[i] = e /\ Sound(e)'
    BY EntriesAre
<1>3. \A i \in DOMAIN cache' : Sound(cache[i])'
    BY <1>1, <1>2, SoundCache
<1> QED
    BY <1>1, <1>3 DEF CacheInv

LEMMA LookupPutKeepsCache ==
  ASSUME Ttl \in Nat, MaxEntries \in Nat, CacheInv, PR!LookupPut
  PROVE  CacheInv'
<1>1. PICK u \in lookup.user :
        /\ cache' = PR!Put(u, lookup.row)
        /\ stale' = IF PR!Shown(lookup.row) # PR!Shown(profile[u]) THEN [stale EXCEPT ![u] = now] ELSE stale
    BY DEF PR!LookupPut
<1>2. /\ lookup' = PR!Rest
      /\ UNCHANGED <<now, profile, found, handler, update>>
    BY DEF PR!LookupPut
<1>3. u \in Users /\ lookup.row \in SUBSET Row /\ now \in Int
    BY DEF CacheInv, ProfileShape, PR!Rest
<1>4. /\ stale' \in [Users -> Int] /\ \A w \in Users : stale'[w] >= stale[w] /\ stale'[w] <= now
      /\ \A w \in Users : stale[w] \in Int
    BY <1>1, <1>3 DEF CacheInv, ProfileShape
<1>5. ProfileShape'
    BY <1>2, <1>4 DEF CacheInv, ProfileShape, PR!Rest
<1> DEFINE x == [user |-> u, rows |-> lookup.row, until |-> now + Ttl]
<1>6. /\ CacheShape'
      /\ \A i \in DOMAIN cache' : cache'[i] = x \/ \E j \in DOMAIN cache : cache'[i] = cache[j]
    BY <1>1, <1>3, PutOf DEF CacheInv, CacheShape
<1>7. ASSUME NEW e \in Entries, Sound(e) PROVE Sound(e)'
  <2>1. e.user \in Users
      BY DEF Entries
  <2>2. Fresh(e.user, e.rows) => Fresh(e.user, e.rows)'
      BY <1>2 DEF Fresh, PR!Shown
  <2>3. Pending(e.user) => Pending(e.user)'
      BY <1>2 DEF Pending
  <2> QED
      BY <1>2, <1>3, <1>4, <1>7, <2>1, <2>2, <2>3, SoundStays
<1>8. PICK y \in Entries : y = x
  <2>1. x \in Entries
    <3>1. now + Ttl \in Int
        BY <1>3
    <3> QED
        BY <1>3, <3>1 DEF Entries
  <2> QED
      BY <2>1
<1>9. Sound(y)'
  <2>1. y.user = u /\ y.rows = lookup.row /\ y.until = now + Ttl
      BY <1>8
  <2>2. CASE PR!Shown(lookup.row) # PR!Shown(profile[u])
    <3>1. stale'[u] = now
        BY <1>1, <1>3, <2>2 DEF CacheInv, ProfileShape
    <3> QED
        BY <1>2, <1>3, <2>1, <3>1 DEF Sound
  <2>3. CASE PR!Shown(lookup.row) = PR!Shown(profile[u])
    <3>1. found[u] \subseteq Held(lookup.row)
        BY <1>3, <2>3, ShownHolds DEF CacheInv
    <3>2. Fresh(u, y.rows)'
        BY <1>2, <2>1, <2>3, <3>1 DEF Fresh, PR!Shown
    <3> QED
        BY <1>2, <1>3, <2>1, <3>2 DEF Sound
  <2> QED
      BY <2>2, <2>3
<1>10. \A i \in DOMAIN cache' : \E e \in Entries : cache'[i] = e /\ Sound(e)'
    BY <1>6, <1>7, <1>8, <1>9, EntriesAre
<1>11. \A i \in DOMAIN cache' : Sound(cache[i])'
    BY <1>6, <1>10, SoundCache
<1> QED
    BY <1>2, <1>5, <1>6, <1>11 DEF CacheInv

LEMMA ReceiveKeepsCache ==
  ASSUME Ttl \in Nat, CacheInv, NEW u \in Users, PR!Receive(u)
  PROVE  CacheInv'
<1>1. PICK stored \in BOOLEAN :
        profile' = IF stored /\ profile[u] = {} THEN [profile EXCEPT ![u] = {PR!Blank}] ELSE profile
    BY DEF PR!Receive
<1>2. /\ UNCHANGED <<now, cache, update, lookup, found, stale>> /\ handler = PR!Rest
      /\ \E pc \in {"screen", "judge"} : handler' = [pc |-> pc, user |-> {u}, row |-> {}]
    BY DEF PR!Receive
<1>3. PR!Blank \in Row
    BY DEF PR!Blank, Row
<1>4. /\ profile' \in [Users -> SUBSET Row]
      /\ \A w \in Users : PR!Shown(profile'[w]) = PR!Shown(profile[w])
    BY <1>1, <1>3 DEF CacheInv, ProfileShape, PR!Shown
<1>5. ProfileShape'
    BY <1>2, <1>4 DEF CacheInv, ProfileShape
<1>6. \A w \in Users : found'[w] \subseteq Held(profile'[w])
    BY <1>2, <1>4, ShownHolds DEF CacheInv
<1>7. ASSUME NEW e \in Entries, Sound(e) PROVE Sound(e)'
  <2>1. e.user \in Users
      BY DEF Entries
  <2>2. Fresh(e.user, e.rows) => Fresh(e.user, e.rows)'
      BY <1>2, <1>4, <2>1 DEF Fresh, PR!Shown
  <2>3. Pending(e.user) => Pending(e.user)'
      BY <1>2 DEF Pending, PR!Rest
  <2> QED
      BY <1>2, <1>7, <2>1, <2>2, <2>3, SoundStays DEF CacheInv, ProfileShape
<1> QED
    BY <1>2, <1>5, <1>6, <1>7, CacheStays

\* The handler or the task moves on, and what it has to invalidate stays to be invalidated.
LEMMA MovesKeepCache ==
  ASSUME Ttl \in Nat, CacheInv, Quiet, cache' = cache,
         ProfileShape', NoticesStay
  PROVE  CacheInv'
<1>1. ASSUME NEW e \in Entries, Sound(e) PROVE Sound(e)'
    BY <1>1, QuietKeepsSound DEF NoticesStay, Entries
<1>2. \A u \in Users : found'[u] \subseteq Held(profile'[u])
    BY DEF CacheInv, Quiet
<1> QED
    BY <1>1, <1>2, CacheStays

\* A row is rewritten with notice: whatever was found stays in it, and more may come.
LEMMA RewriteKeepsCache ==
  ASSUME Ttl \in Nat, CacheInv, NEW u \in Users, UNCHANGED <<now, cache, stale>>, ProfileShape',
         Pending(u)', NoticesStay,
         \A w \in Users \ {u} : profile'[w] = profile[w] /\ found'[w] = found[w],
         found'[u] \subseteq Held(profile'[u])
  PROVE  CacheInv'
<1>1. ASSUME NEW e \in Entries, Sound(e) PROVE Sound(e)'
  <2>1. e.user \in Users
      BY DEF Entries
  <2>2. Fresh(e.user, e.rows) => Fresh(e.user, e.rows)' \/ Pending(e.user)'
      BY <2>1 DEF Fresh, PR!Shown
  <2>3. Pending(e.user) => Pending(e.user)'
      BY <2>1 DEF NoticesStay
  <2> QED
      BY <1>1, <2>1, <2>2, <2>3, SoundStays DEF CacheInv, ProfileShape
<1>2. \A w \in Users : found'[w] \subseteq Held(profile'[w])
    BY DEF CacheInv
<1> QED
    BY <1>1, <1>2, CacheStays

LEMMA AppendKeepsCache ==
  ASSUME Ttl \in Nat, CacheInv, PR!AppendFindings
  PROVE  CacheInv'
<1>1. /\ handler.pc = "append" /\ UNCHANGED <<now, cache, update, lookup, stale>>
    BY DEF PR!AppendFindings
<1>2. PICK u \in Users : handler = [pc |-> "append", user |-> {u}, row |-> handler.row]
    BY <1>1 DEF CacheInv, ProfileShape, PR!Rest
<1>3. CASE /\ profile' = [profile EXCEPT ![u] = PR!Annotated(@, handler.row)]
           /\ found' = [found EXCEPT ![u] = @ \cup handler.row]
           /\ handler' = [handler EXCEPT !.pc = "invalidate"]
  <2>1. handler' = [pc |-> "invalidate", user |-> {u}, row |-> handler.row]
      BY <1>2, <1>3
  <2>2. PICK kept \in SUBSET Row : kept = profile[u]
      BY DEF CacheInv, ProfileShape
  <2>3. PR!Annotated(kept, handler.row) \in SUBSET Row
    <3>1. handler.row \subseteq Findings
        BY DEF CacheInv, ProfileShape
    <3> QED
        BY <3>1 DEF PR!Annotated, Row
  <2>4. Held(kept) \cup handler.row \subseteq Held(PR!Annotated(kept, handler.row))
    <3>1. CASE kept = {}
        BY <3>1 DEF Held, PR!Annotated
    <3>2. CASE kept # {}
      <4>1. PR!Annotated(kept, handler.row) = {[r EXCEPT !.findings = @ \cup handler.row] : r \in kept}
          BY <3>2 DEF PR!Annotated
      <4>2. \A r \in kept : [r EXCEPT !.findings = @ \cup handler.row].findings = r.findings \cup handler.row
          BY DEF Row
      <4>3. \A r \in kept : \A f \in r.findings \cup handler.row :
              \E q \in PR!Annotated(kept, handler.row) : f \in q.findings
          BY <4>1, <4>2
      <4> QED
          BY <3>2, <4>3 DEF Held
    <3> QED
        BY <3>1, <3>2
  <2>5. /\ profile' \in [Users -> SUBSET Row] /\ found' \in [Users -> SUBSET Findings]
        /\ profile'[u] = PR!Annotated(kept, handler.row) /\ found'[u] = found[u] \cup handler.row
        /\ \A w \in Users \ {u} : profile'[w] = profile[w] /\ found'[w] = found[w]
      BY <1>3, <2>2, <2>3 DEF CacheInv, ProfileShape
  <2>6. found'[u] \subseteq Held(profile'[u])
      BY <2>2, <2>4, <2>5 DEF CacheInv
  <2>7. ProfileShape'
      BY <1>1, <2>1, <2>5 DEF CacheInv, ProfileShape
  <2>8. Pending(u)' /\ NoticesStay
      BY <1>1, <1>2, <2>1 DEF Pending, NoticesStay
  <2> QED
      BY <1>1, <2>5, <2>6, <2>7, <2>8, RewriteKeepsCache
<1>4. CASE handler' = [handler EXCEPT !.pc = "judge"] /\ UNCHANGED <<profile, found>>
  <2>1. handler' = [pc |-> "judge", user |-> {u}, row |-> handler.row]
      BY <1>2, <1>4
  <2>2. ProfileShape'
      BY <1>1, <1>4, <2>1 DEF CacheInv, ProfileShape
  <2>3. Quiet /\ NoticesStay
      BY <1>1, <1>2, <1>4, <2>1 DEF Quiet, NoticesStay, Pending
  <2> QED
      BY <1>1, <2>2, <2>3, MovesKeepCache
<1>5. \/ /\ \E w \in handler.user : /\ profile' = [profile EXCEPT ![w] = PR!Annotated(@, handler.row)]
                                     /\ found' = [found EXCEPT ![w] = @ \cup handler.row]
         /\ handler' = [handler EXCEPT !.pc = "invalidate"]
      \/ handler' = [handler EXCEPT !.pc = "judge"] /\ UNCHANGED <<profile, found>>
    BY DEF PR!AppendFindings
<1>6. \A w \in handler.user : w = u
    BY <1>2
<1> QED
    BY <1>3, <1>4, <1>5, <1>6

LEMMA UpsertKeepsCache ==
  ASSUME Ttl \in Nat, CacheInv, PR!UpsertUserProfile
  PROVE  CacheInv'
<1>1. /\ update.pc = "upsert" /\ UNCHANGED <<now, cache, handler, lookup, stale, found>>
    BY DEF PR!UpsertUserProfile
<1>2. PICK u \in Users : update = [pc |-> "upsert", user |-> {u}, row |-> update.row]
    BY <1>1 DEF CacheInv, ProfileShape, PR!Rest
<1>3. CASE /\ profile' = [profile EXCEPT ![u] = PR!Rewritten(@)]
           /\ update' = [update EXCEPT !.pc = "invalidate"]
  <2>1. update' = [pc |-> "invalidate", user |-> {u}, row |-> update.row]
      BY <1>2, <1>3
  <2>2. PICK kept \in SUBSET Row : kept = profile[u]
      BY DEF CacheInv, ProfileShape
  <2>3. PR!Rewritten(kept) \in SUBSET Row /\ Held(kept) \subseteq Held(PR!Rewritten(kept))
      BY DEF PR!Rewritten, Row, Held
  <2>5. /\ profile' \in [Users -> SUBSET Row]
        /\ profile'[u] = PR!Rewritten(kept)
        /\ \A w \in Users \ {u} : profile'[w] = profile[w]
      BY <1>3, <2>2, <2>3 DEF CacheInv, ProfileShape
  <2>6. found'[u] \subseteq Held(profile'[u])
      BY <1>1, <2>2, <2>3, <2>5 DEF CacheInv
  <2>7. ProfileShape'
      BY <1>1, <2>1, <2>5 DEF CacheInv, ProfileShape
  <2>8. Pending(u)' /\ NoticesStay
      BY <1>1, <1>2, <2>1 DEF Pending, NoticesStay
  <2> QED
      BY <1>1, <2>5, <2>6, <2>7, <2>8, RewriteKeepsCache
<1>4. CASE update' = PR!Rest /\ profile' = profile
  <2>1. ProfileShape'
      BY <1>1, <1>4 DEF CacheInv, ProfileShape, PR!Rest
  <2>2. Quiet /\ NoticesStay
      BY <1>1, <1>2, <1>4 DEF Quiet, NoticesStay, Pending
  <2> QED
      BY <1>1, <2>1, <2>2, MovesKeepCache
<1>5. \/ /\ \E w \in update.user : profile' = [profile EXCEPT ![w] = PR!Rewritten(@)]
         /\ update' = [update EXCEPT !.pc = "invalidate"]
      \/ update' = PR!Rest /\ profile' = profile
    BY DEF PR!UpsertUserProfile
<1>6. \A w \in update.user : w = u
    BY <1>2
<1> QED
    BY <1>3, <1>4, <1>5, <1>6

\* Once the entry of a user is gone, there is nothing left to be invalidated.
LEMMA InvalidateKeepsCache ==
  ASSUME Ttl \in Nat, CacheInv, NEW u \in Users, cache' = PR!Without(u), Quiet, ProfileShape',
         \A w \in Users \ {u} : Pending(w) => Pending(w)'
  PROVE  CacheInv'
<1>1. CacheShape' /\ FromOthers(cache', cache, u)
    BY WithoutOf DEF CacheInv, CacheShape
<1>2. ASSUME NEW e \in Entries, Sound(e), e.user # u PROVE Sound(e)'
  <2>1. e.user \in Users \ {u}
      BY <1>2 DEF Entries
  <2> QED
      BY <1>2, <2>1, QuietKeepsSound
<1>3. \A i \in DOMAIN cache' : \E e \in Entries : cache'[i] = e /\ Sound(e)'
    BY <1>1, <1>2, EntriesAre DEF FromOthers
<1>4. \A i \in DOMAIN cache' : Sound(cache[i])'
    BY <1>1, <1>3, SoundCache
<1>5. \A w \in Users : found'[w] \subseteq Held(profile'[w])
    BY DEF CacheInv, Quiet
<1> QED
    BY <1>1, <1>4, <1>5 DEF CacheInv

LEMMA InvalidateFindingsKeepsCache ==
  ASSUME Ttl \in Nat, CacheInv, PR!InvalidateFindings
  PROVE  CacheInv'
<1>1. /\ handler.pc = "invalidate" /\ Quiet /\ UNCHANGED <<update, lookup>>
      /\ handler' = [handler EXCEPT !.pc = "judge"]
    BY DEF PR!InvalidateFindings, Quiet
<1>2. PICK u \in Users : handler = [pc |-> "invalidate", user |-> {u}, row |-> handler.row]
    BY <1>1 DEF CacheInv, ProfileShape, PR!Rest
<1>3. cache' = PR!Without(u)
  <2>1. \E w \in handler.user : cache' = PR!Without(w)
      BY DEF PR!InvalidateFindings, PR!Invalidated
  <2> QED
      BY <1>2, <2>1
<1>4. handler' = [pc |-> "judge", user |-> {u}, row |-> handler.row]
    BY <1>1, <1>2
<1>5. ProfileShape'
    BY <1>1, <1>4 DEF CacheInv, ProfileShape, Quiet
<1>6. \A w \in Users \ {u} : Pending(w) => Pending(w)'
    BY <1>1, <1>2 DEF Pending
<1> QED
    BY <1>1, <1>3, <1>5, <1>6, InvalidateKeepsCache

LEMMA InvalidateUpdateKeepsCache ==
  ASSUME Ttl \in Nat, CacheInv, PR!InvalidateUpdate
  PROVE  CacheInv'
<1>1. /\ update.pc = "invalidate" /\ Quiet /\ UNCHANGED <<handler, lookup>> /\ update' = PR!Rest
    BY DEF PR!InvalidateUpdate, Quiet
<1>2. PICK u \in Users : update = [pc |-> "invalidate", user |-> {u}, row |-> update.row]
    BY <1>1 DEF CacheInv, ProfileShape, PR!Rest
<1>3. cache' = PR!Without(u)
  <2>1. \E w \in update.user : cache' = PR!Without(w)
      BY DEF PR!InvalidateUpdate, PR!Invalidated
  <2> QED
      BY <1>2, <2>1
<1>5. ProfileShape'
    BY <1>1 DEF CacheInv, ProfileShape, Quiet, PR!Rest
<1>6. \A w \in Users \ {u} : Pending(w) => Pending(w)'
    BY <1>1, <1>2 DEF Pending
<1> QED
    BY <1>1, <1>3, <1>5, <1>6, InvalidateKeepsCache

LEMMA JudgeKeepsCache ==
  ASSUME Ttl \in Nat, MaxEntries \in Nat, CacheInv, PR!Judge
  PROVE  CacheInv'
<1>1. /\ handler.pc = "judge" /\ Quiet /\ UNCHANGED <<update, lookup>> /\ handler' = PR!Rest
    BY DEF PR!Judge, Quiet
<1>2. PICK u \in Users : cache' = IF PR!Cached(u) THEN PR!Get(u) ELSE PR!Put(u, profile[u])
    BY DEF PR!Judge, CacheInv, ProfileShape, PR!Rest
<1>3. ProfileShape'
    BY <1>1 DEF CacheInv, ProfileShape, Quiet, PR!Rest
<1>4. \A e \in Entries : Sound(e) => Sound(e)'
  <2>1. ASSUME NEW e \in Entries, Sound(e) PROVE Sound(e)'
    <3>1. Pending(e.user) => Pending(e.user)'
        BY <1>1 DEF Pending
    <3> QED
        BY <1>1, <2>1, <3>1, QuietKeepsSound
  <2> QED
      BY <2>1
<1>5. CacheShape' /\ \A i \in DOMAIN cache' : \E e \in Entries : cache'[i] = e /\ Sound(e)'
  <2>1. CASE PR!Cached(u)
    <3>1. CacheShape' /\ From(cache', cache)
        BY <1>2, <2>1, GetOf DEF CacheInv, CacheShape
    <3> QED
        BY <1>4, <3>1, EntriesAre DEF From
  <2>2. CASE ~PR!Cached(u)
    <3>1. profile[u] \in SUBSET Row /\ now \in Int
        BY DEF CacheInv, ProfileShape
    <3> DEFINE x == [user |-> u, rows |-> profile[u], until |-> now + Ttl]
    <3>2. /\ CacheShape'
          /\ \A i \in DOMAIN cache' : cache'[i] = x \/ \E j \in DOMAIN cache : cache'[i] = cache[j]
        BY <1>2, <2>2, <3>1, PutOf DEF CacheInv, CacheShape
    <3>3. PICK y \in Entries : y = x
      <4>1. now + Ttl \in Int
          BY <3>1
      <4>2. x \in Entries
          BY <3>1, <4>1 DEF Entries
      <4> QED
          BY <4>2
    <3>4. Sound(y)
      <4>1. y.user = u /\ y.rows = profile[u] /\ y.until = now + Ttl
          BY <3>3
      <4> QED
          BY <3>1, <4>1, RowIsFresh DEF Sound
    <3> QED
        BY <1>4, <3>2, <3>3, <3>4, EntriesAre
  <2> QED
      BY <2>1, <2>2
<1>6. \A i \in DOMAIN cache' : Sound(cache[i])'
    BY <1>5, SoundCache
<1>7. \A w \in Users : found'[w] \subseteq Held(profile'[w])
    BY <1>1 DEF CacheInv, Quiet
<1> QED
    BY <1>3, <1>5, <1>6, <1>7 DEF CacheInv

LEMMA DeleteKeepsCache ==
  ASSUME Ttl \in Nat, CacheInv, NEW u \in Users, PR!DeleteProfile(u)
  PROVE  CacheInv'
<1>1. /\ profile' = [profile EXCEPT ![u] = {}] /\ found' = [found EXCEPT ![u] = {}]
      /\ stale' = [stale EXCEPT ![u] = now]
      /\ UNCHANGED <<now, cache, handler, update, lookup>>
    BY DEF PR!DeleteProfile
<1>2. /\ profile' \in [Users -> SUBSET Row] /\ found' \in [Users -> SUBSET Findings]
      /\ stale' \in [Users -> Int] /\ found'[u] = {} /\ stale'[u] = now
      /\ \A w \in Users \ {u} : profile'[w] = profile[w] /\ found'[w] = found[w] /\ stale'[w] = stale[w]
    BY <1>1 DEF CacheInv, ProfileShape
<1>3. ProfileShape'
    BY <1>1, <1>2 DEF CacheInv, ProfileShape
<1>4. \A w \in Users : found'[w] \subseteq Held(profile'[w])
    BY <1>2 DEF CacheInv
<1>5. ASSUME NEW e \in Entries, Sound(e) PROVE Sound(e)'
  <2>1. e.user \in Users
      BY DEF Entries
  <2>2. CASE e.user = u
      BY <1>1, <1>2, <1>5, <2>2 DEF Sound
  <2>3. CASE e.user # u
    <3>1. Fresh(e.user, e.rows) => Fresh(e.user, e.rows)'
        BY <1>2, <2>1, <2>3 DEF Fresh, PR!Shown
    <3>2. Pending(e.user) => Pending(e.user)'
        BY <1>1 DEF Pending
    <3>3. /\ now \in Int /\ now' \in Int /\ now' >= now /\ stale[e.user] \in Int
          /\ stale'[e.user] \in Int /\ stale'[e.user] >= stale[e.user]
        BY <1>1, <1>2, <2>1, <2>3 DEF CacheInv, ProfileShape
    <3> QED
        BY <1>5, <3>1, <3>2, <3>3, SoundStays
  <2> QED
      BY <2>2, <2>3
<1> QED
    BY <1>1, <1>3, <1>4, <1>5, CacheStays

LEMMA TickKeepsCache ==
  ASSUME Ttl \in Nat, CacheInv, PR!Tick
  PROVE  CacheInv'
<1>1. now' = now + 1 /\ UNCHANGED <<profile, cache, handler, update, lookup, found, stale>>
    BY DEF PR!Tick
<1>2. now \in Int /\ now' \in Int /\ now' >= now
    BY <1>1 DEF CacheInv, ProfileShape
<1>3. ProfileShape'
  <2>1. \A u \in Users : stale[u] \in Int /\ stale[u] <= now
      BY DEF CacheInv, ProfileShape
  <2>2. \A u \in Users : stale[u] <= now'
      BY <1>1, <1>2, <2>1
  <2> QED
      BY <1>1, <1>2, <2>2 DEF CacheInv, ProfileShape
<1>4. ASSUME NEW e \in Entries, Sound(e) PROVE Sound(e)'
  <2>1. Fresh(e.user, e.rows) => Fresh(e.user, e.rows)'
      BY <1>1 DEF Fresh, PR!Shown
  <2>2. Pending(e.user) => Pending(e.user)'
      BY <1>1 DEF Pending
  <2>3. stale[e.user] \in Int /\ stale'[e.user] = stale[e.user]
      BY <1>1 DEF CacheInv, ProfileShape, Entries
  <2> QED
      BY <1>2, <1>4, <2>1, <2>2, <2>3, SoundStays
<1>5. \A w \in Users : found'[w] \subseteq Held(profile'[w])
    BY <1>1 DEF CacheInv
<1> QED
    BY <1>1, <1>3, <1>4, <1>5, CacheStays

LEMMA CrashKeepsCache ==
  ASSUME CacheInv, PR!Crash
  PROVE  CacheInv'
<1>1. /\ cache' = <<>> /\ handler' = PR!Rest /\ update' = PR!Rest /\ lookup' = PR!Rest
      /\ UNCHANGED <<now, profile, found, stale>>
    BY DEF PR!Crash
<1>2. ProfileShape'
    BY <1>1 DEF CacheInv, ProfileShape, PR!Rest
<1>3. CacheShape' /\ DOMAIN cache' = {}
    BY <1>1 DEF CacheShape, OneEach
<1>4. \A w \in Users : found'[w] \subseteq Held(profile'[w])
    BY <1>1 DEF CacheInv
<1> QED
    BY <1>2, <1>3, <1>4 DEF CacheInv

LEMMA ScreenMovesKeepCache ==
  ASSUME Ttl \in Nat, CacheInv,
         PR!Screen \/ (\E u \in Users : PR!Regenerate(u) \/ PR!CleanupMessages(u))
  PROVE  CacheInv'
<1>1. Quiet /\ cache' = cache
    BY DEF PR!Screen, PR!Regenerate, PR!CleanupMessages, Quiet
<1>2. CASE PR!Screen
  <2>1. /\ handler.pc = "screen" /\ UNCHANGED <<update, lookup>>
        /\ \E findings \in SUBSET Findings :
             handler' = [handler EXCEPT !.pc = IF findings = {} THEN "judge" ELSE "append", !.row = findings]
      BY <1>2 DEF PR!Screen
  <2>2. PICK u \in Users : handler = [pc |-> "screen", user |-> {u}, row |-> handler.row]
      BY <2>1 DEF CacheInv, ProfileShape, PR!Rest
  <2>3. PICK findings \in SUBSET Findings, pc \in {"judge", "append"} :
          handler' = [pc |-> pc, user |-> {u}, row |-> findings]
    <3>1. PICK findings \in SUBSET Findings :
            handler' = [handler EXCEPT !.pc = IF findings = {} THEN "judge" ELSE "append", !.row = findings]
        BY <2>1
    <3>2. PICK pc : pc = IF findings = {} THEN "judge" ELSE "append"
        OBVIOUS
    <3>3. PICK of : of = handler.row
        OBVIOUS
    <3>4. handler = [pc |-> "screen", user |-> {u}, row |-> of]
        BY <2>2, <3>3
    <3>5. handler' = [pc |-> pc, user |-> {u}, row |-> findings]
        BY <3>1, <3>2, <3>4
    <3> QED
        BY <3>2, <3>5
  <2>4. ProfileShape'
      BY <1>1, <2>1, <2>3 DEF CacheInv, ProfileShape, Quiet
  <2>5. NoticesStay
      BY <2>1, <2>2, <2>3 DEF NoticesStay, Pending
  <2> QED
      BY <1>1, <2>4, <2>5, MovesKeepCache
<1>3. ASSUME NEW u \in Users, PR!Regenerate(u) PROVE CacheInv'
  <2>1. /\ update = PR!Rest /\ update' = [pc |-> "upsert", user |-> {u}, row |-> {}]
        /\ UNCHANGED <<handler, lookup>>
      BY <1>3 DEF PR!Regenerate
  <2>2. ProfileShape'
      BY <1>1, <2>1 DEF CacheInv, ProfileShape, Quiet
  <2>3. NoticesStay
      BY <2>1 DEF NoticesStay, Pending, PR!Rest
  <2> QED
      BY <1>1, <2>2, <2>3, MovesKeepCache
<1>4. ASSUME NEW u \in Users, PR!CleanupMessages(u) PROVE CacheInv'
  <2>1. UNCHANGED <<handler, update, lookup>>
      BY <1>4 DEF PR!CleanupMessages
  <2>2. ProfileShape'
      BY <1>1, <2>1 DEF CacheInv, ProfileShape, Quiet
  <2>3. NoticesStay
      BY <2>1 DEF NoticesStay, Pending
  <2> QED
      BY <1>1, <2>2, <2>3, MovesKeepCache
<1> QED
    BY <1>2, <1>3, <1>4

LEMMA CacheInvSteps ==
  Ttl \in Nat /\ MaxEntries \in Nat /\ Writers \subseteq Users /\ CacheInv /\ PR!ProfilesNext => CacheInv'
BY LookupKeepsCache, LookupPutKeepsCache, ReceiveKeepsCache, ScreenMovesKeepCache, AppendKeepsCache,
   InvalidateFindingsKeepsCache, JudgeKeepsCache, UpsertKeepsCache, InvalidateUpdateKeepsCache,
   DeleteKeepsCache, TickKeepsCache, CrashKeepsCache
   DEF PR!ProfilesNext

LEMMA CacheInvShows == Ttl \in Nat /\ CacheInv => PR!FindingsTold
<1> SUFFICES ASSUME Ttl \in Nat, CacheInv, NEW u \in Users
             PROVE  \/ now <= stale[u] + Ttl
                    \/ \E p \in {update, handler} : p.pc = "invalidate" /\ u \in p.user
                    \/ /\ PR!Shown(PR!Told(u)) = PR!Shown(profile[u])
                       /\ found[u] \subseteq UNION {r.findings : r \in PR!Told(u)}
    BY DEF PR!FindingsTold
<1>1. CASE PR!Cached(u)
  <2>1. PICK i \in DOMAIN cache : cache[i].user = u /\ now <= cache[i].until
      BY <1>1 DEF PR!Cached
  <2>2. PR!Told(u) = cache[i].rows
      BY <1>1, <2>1, EntryIsTheOne DEF PR!Told, CacheInv
  <2>3. cache[i] \in Entries /\ Sound(cache[i])
      BY EntriesAre
  <2>4. cache[i].until \in Int /\ now \in Int /\ stale[u] \in Int
      BY <2>3 DEF Entries, CacheInv, ProfileShape
  <2>5. cache[i].until <= stale[u] + Ttl => now <= stale[u] + Ttl
      BY <2>1, <2>4
  <2> QED
      BY <2>1, <2>2, <2>3, <2>5 DEF Sound, Pending, Fresh, Held
<1>2. CASE ~PR!Cached(u)
    BY <1>2, RowIsFresh DEF PR!Told, Fresh, Held
<1> QED
    BY <1>1, <1>2

---------------------------------------------------------------------------
(* Profiles in the bot.                                                    *)

ProfilesInv == IF part = "profiles" THEN ScreenInv /\ CacheInv ELSE ScreenInv

LEMMA ProfilesInvInitially == Ttl \in Nat /\ BotInit => ProfilesInv
BY ScreenInvInitially, CacheInvInitially DEF BotInit, ProfilesInv

LEMMA ProfilesInvHolds ==
  Ttl \in Nat /\ MaxEntries \in Nat /\ Writers \subseteq Users /\ ProfilesInv /\ [BotNext]_botVars => ProfilesInv'
<1> SUFFICES ASSUME Ttl \in Nat, MaxEntries \in Nat, Writers \subseteq Users, ProfilesInv,
                    [BotNext]_botVars
             PROVE  ProfilesInv'
    OBVIOUS
<1>1. CASE part = "profiles" /\ part' = part /\ PR!ProfilesNext
    BY <1>1, ScreenInvSteps, CacheInvSteps DEF ProfilesInv
<1>2. CASE UNCHANGED profileVars /\ part' = part /\ (part = "profiles" => now' = now)
  <2>1. ScreenInv => ScreenInv'
      BY <1>2 DEF profileVars, ScreenInv, ScreenShape, AtScreen
  <2>2. now' = now /\ CacheInv => CacheInv'
      BY <1>2 DEF profileVars, CacheInv, ProfileShape, CacheShape, OneEach, Sound, Pending, Fresh, PR!Shown
  <2> QED
      BY <1>2, <2>1, <2>2 DEF ProfilesInv
<1> QED
    BY <1>1, <1>2 DEF BotNext, botVars

\* What moderation is told of a user is what stands in the row, and everything that screening has
\* found is part of it, for any number of users and any size and age of the cache; with the
\* exceptions that the property names.  (lookupCachedUserProfile, recordUserProfileFinding,
\* generateOrUpdateUserProfile)
THEOREM CacheTellsFindings ==
  ASSUME Ttl \in Nat, MaxEntries \in Nat, Writers \subseteq Users
  PROVE  BotSpec => []FindingsTold
<1>1. ProfilesInv => FindingsTold
    BY CacheInvShows DEF ProfilesInv, FindingsTold
<1> QED
    BY <1>1, ProfilesInvInitially, ProfilesInvHolds, PTL DEF BotSpec, botVars

\* Nobody is screened twice while messages of theirs are kept, nobody goes unscreened unless
\* something failed, for any number of users.  (recordNewMessage, checkFirstMessageUserProfile)
THEOREM NewcomersAreScreened ==
  ASSUME Ttl \in Nat, MaxEntries \in Nat, Writers \subseteq Users
  PROVE  BotSpec => []ScreenedOnce
<1>1. ProfilesInv => ScreenedOnce
  <2> SUFFICES ASSUME ScreenInv, NEW u \in Users
               PROVE  /\ screened[u] > 1 => u \in forgotten
                      /\ handler = PR!Rest /\ u \in messages => screened[u] > 0 \/ u \in skipped
      BY DEF ProfilesInv, ScreenedOnce, PR!ScreenedOnce
  <2>1. handler = PR!Rest => ~AtScreen(u)
      BY DEF AtScreen, PR!Rest
  <2> QED
      BY <2>1 DEF ScreenInv
<1> QED
    BY <1>1, ProfilesInvInitially, ProfilesInvHolds, PTL DEF BotSpec, botVars

---------------------------------------------------------------------------
(* The calls to models.                                                    *)

LEMMA ModelsCount == \A S : MO!Cardinality(S) = Cardinality(S)
BY DEF MO!Cardinality, Cardinality

\* The enabled entries before one of them.
Before(S, i) == {j \in S : j < i}
Rank(S, i) == Cardinality(Before(S, i))

\* The entries that are enabled are numbered from 0 on, in their order.
LEMMA RankIsOneToOne ==
  ASSUME NEW S, IsFiniteSet(S), S \subseteq Int
  PROVE  /\ \A i \in S : Rank(S, i) \in 0 .. Cardinality(S) - 1
         /\ \A i, j \in S : Rank(S, i) = Rank(S, j) => i = j
<1>1. ASSUME NEW i \in S PROVE Rank(S, i) \in 0 .. Cardinality(S) - 1
  <2>1. Before(S, i) \subseteq S /\ i \in S \ Before(S, i)
      BY DEF Before
  <2>2. /\ Cardinality(Before(S, i)) \in Nat /\ Cardinality(S) \in Nat
        /\ Cardinality(Before(S, i)) <= Cardinality(S)
        /\ Cardinality(S) # Cardinality(Before(S, i))
      BY <2>1, FS_Subset, FS_CardinalityType
  <2> QED
      BY <2>2 DEF Rank
<1>2. ASSUME NEW i \in S, NEW j \in S, i < j PROVE Rank(S, i) # Rank(S, j)
  <2>1. Before(S, i) \subseteq Before(S, j) /\ i \in Before(S, j) \ Before(S, i)
    <3>1. \A x \in S : x < i => x < j
        BY <1>2
    <3>2. ~(i < i)
        OBVIOUS
    <3> QED
        BY <1>2, <3>1, <3>2 DEF Before
  <2>2. IsFiniteSet(Before(S, j))
      BY FS_Subset DEF Before
  <2> QED
      BY <2>1, <2>2, FS_Subset DEF Rank
<1>3. \A i, j \in S : i = j \/ i < j \/ j < i
    OBVIOUS
<1> QED
    BY <1>1, <1>2, <1>3

\* And each number below their count is one's.
LEMMA EveryRankIsTaken ==
  ASSUME NEW S, IsFiniteSet(S), S \subseteq Int, NEW k \in 0 .. Cardinality(S) - 1
  PROVE  \E i \in S : Rank(S, i) = k
<1> DEFINE T == 0 .. Cardinality(S) - 1
           f == [i \in S |-> Rank(S, i)]
<1>1. Cardinality(S) \in Nat
    BY FS_CardinalityType
<1>2. IsFiniteSet(T) /\ Cardinality(T) = Cardinality(S)
    BY <1>1, FS_Interval
<1>3. f \in Injection(S, T)
    BY RankIsOneToOne DEF Injection, IsInjective
<1>4. f \in Surjection(S, T)
    BY <1>2, <1>3, FS_Injection
<1> QED
    BY <1>4 DEF Surjection
Kinds5 == {"light", "full", "text", "plain", "once"}

CallShape ==
  /\ on \in [MO!Slots -> SUBSET (1 .. MaxModels)]
  /\ call \in [pc : {"idle", "unasked", "ask", "failed", "filtered", "answered", "refused"},
               kind : Kinds5, slot : MO!Slots, attempt : Nat, quoted : BOOLEAN]
  /\ failed \in [MO!Entries -> Nat]

\* The entries that a prompt has been to so often have failed.
Tried(n) == \A a \in 0 .. n - 1 : failed[<<call.slot, MO!Get(call.slot, a)>>] > 0

\* A prompt that asks has an entry to ask and a try left; one that has failed has tried.
CallGoesOn ==
  /\ call.pc = "ask" =>
       on[call.slot] # {} /\ call.attempt < MO!Limit(call) /\ Tried(call.attempt)
  /\ call.pc = "failed" => on[call.slot] = {} \/ Tried(MO!Limit(call))

CallInv == CallShape /\ CallGoesOn /\ NotBlamedForQuote

LEMMA EnabledIsFinite ==
  ASSUME MaxModels \in Nat, CallShape, NEW slot \in MO!Slots
  PROVE  /\ IsFiniteSet(on[slot]) /\ on[slot] \subseteq Int
         /\ MO!Count(slot) = Cardinality(on[slot]) /\ MO!Count(slot) \in Nat
         /\ MO!Count(slot) = 0 <=> on[slot] = {}
<1>1. on[slot] \in SUBSET (1 .. MaxModels)
    BY DEF CallShape
<1>2. IsFiniteSet(1 .. MaxModels)
    BY FS_Interval
<1>3. IsFiniteSet(on[slot])
    BY <1>1, <1>2, FS_Subset
<1>4. MO!Count(slot) = Cardinality(on[slot])
    BY ModelsCount DEF MO!Count
<1>5. on[slot] \subseteq Int
    BY <1>1
<1> QED
    BY <1>3, <1>4, <1>5, FS_CardinalityType, FS_EmptySet

\* Get finds an enabled entry, and the one whose turn it is.
LEMMA GetFinds ==
  ASSUME MaxModels \in Nat, CallShape, NEW slot \in MO!Slots, on[slot] # {}, NEW k \in Nat
  PROVE  /\ MO!Get(slot, k) \in on[slot]
         /\ Rank(on[slot], MO!Get(slot, k)) = k % Cardinality(on[slot])
<1> DEFINE S == on[slot]
<1>1. /\ IsFiniteSet(S) /\ S \subseteq Int /\ MO!Count(slot) = Cardinality(S)
      /\ Cardinality(S) \in Nat /\ Cardinality(S) # 0
    BY EnabledIsFinite
<1>2. k % Cardinality(S) \in 0 .. Cardinality(S) - 1
    BY <1>1
<1>3. \E i \in S : Rank(S, i) = k % Cardinality(S)
    BY <1>1, <1>2, EveryRankIsTaken
<1>4. MO!Get(slot, k) = CHOOSE i \in S : Rank(S, i) = k % Cardinality(S)
    BY <1>1, ModelsCount DEF MO!Get, Rank, Before
<1> QED
    BY <1>3, <1>4

\* Whoever has tried as often as there are entries has been to each of them.
LEMMA TriedAll ==
  ASSUME MaxModels \in Nat, CallShape, NEW n \in Nat, Tried(n), MO!Count(call.slot) <= n
  PROVE  \A i \in on[call.slot] : failed[<<call.slot, i>>] > 0
<1> SUFFICES ASSUME NEW i \in on[call.slot] PROVE failed[<<call.slot, i>>] > 0
    OBVIOUS
<1> DEFINE S == on[call.slot]
           k == Rank(S, i)
<1>0. call.slot \in MO!Slots
    BY DEF CallShape
<1>1. /\ IsFiniteSet(S) /\ S \subseteq Int /\ MO!Count(call.slot) = Cardinality(S)
      /\ Cardinality(S) \in Nat
    BY <1>0, EnabledIsFinite
<1>2. k \in 0 .. Cardinality(S) - 1
    BY <1>1, RankIsOneToOne
<1>3. k \in Nat /\ k % Cardinality(S) = k
    BY <1>1, <1>2
<1>4. MO!Get(call.slot, k) \in S /\ Rank(S, MO!Get(call.slot, k)) = k
    BY <1>0, <1>3, GetFinds
<1>5. MO!Get(call.slot, k) = i
    BY <1>1, <1>4, RankIsOneToOne
<1>6. k \in 0 .. n - 1
    BY <1>1, <1>2
<1> QED
    BY <1>5, <1>6 DEF Tried

LEMMA CallInvInitially == MaxModels \in Nat /\ MO!ModelsInit => CallInv
BY DEF MO!ModelsInit, MO!NoCall, MO!Slots, MO!Entries, CallInv, CallShape, CallGoesOn, Kinds5,
       NotBlamedForQuote, MO!NotBlamedForQuote

LEMMA BeginKeepsCalls ==
  ASSUME MaxModels \in Nat, CallInv, NEW kind \in Kinds5, NEW quoted \in BOOLEAN,
         MO!Begin(kind, quoted)
  PROVE  CallInv'
<1>1. PICK slot \in MO!Slots :
        call' = [pc |-> IF MO!Count(slot) = 0 THEN "unasked" ELSE "ask",
                 kind |-> kind, slot |-> slot, attempt |-> 0, quoted |-> quoted]
    BY DEF MO!Begin
<1>2. on' = on /\ offends' = offends /\ failed' = failed
    BY DEF MO!Begin
<1>3. CallShape'
    BY <1>1, <1>2 DEF CallInv, CallShape
<1>4. MO!Count(slot) = 0 <=> on[slot] = {}
    BY EnabledIsFinite DEF CallInv
<1>5. MO!Limit(call)' \in {1, 2, 3}
    BY DEF MO!Limit
<1>6. CallGoesOn'
    BY <1>1, <1>2, <1>4, <1>5 DEF CallGoesOn, Tried
<1>7. NotBlamedForQuote'
    BY <1>1 DEF NotBlamedForQuote, MO!NotBlamedForQuote
<1> QED
    BY <1>3, <1>6, <1>7 DEF CallInv

\* What follows a failure: another try, the light models, or the end after the last try.
LEMMA AfterFailureKeeps ==
  ASSUME MaxModels \in Nat, CallInv, call.pc = "ask", on' = on, offends' = offends,
         call' = MO!AfterFailure,
         failed' = [failed EXCEPT ![<<call.slot, MO!Get(call.slot, call.attempt)>>] = @ + 1]
  PROVE  CallInv'
<1>a. PICK slot, a : slot = call.slot /\ a = call.attempt
    OBVIOUS
<1> DEFINE e == <<slot, MO!Get(slot, a)>>
<1>0. /\ slot \in MO!Slots /\ a \in Nat /\ on[slot] # {} /\ a < MO!Limit(call) /\ Tried(a)
      /\ call.kind \in Kinds5 /\ call.quoted \in BOOLEAN
    BY <1>a DEF CallInv, CallShape, CallGoesOn
<1>1. MO!Get(slot, a) \in 1 .. MaxModels
    BY <1>0, GetFinds DEF CallInv, CallShape
<1>2. e \in MO!Entries
    BY <1>0, <1>1 DEF MO!Entries
<1>3. /\ failed' \in [MO!Entries -> Nat] /\ failed'[e] > 0
      /\ \A x \in MO!Entries : failed[x] > 0 => failed'[x] > 0
    BY <1>a, <1>2 DEF CallInv, CallShape
<1>4. ASSUME NEW b \in 0 .. a PROVE failed'[<<slot, MO!Get(slot, b)>>] > 0
  <2>1. <<slot, MO!Get(slot, b)>> \in MO!Entries
    <3>1. b \in Nat
        BY <1>0
    <3>2. MO!Get(slot, b) \in 1 .. MaxModels
        BY <1>0, <3>1, GetFinds DEF CallInv, CallShape
    <3> QED
        BY <1>0, <3>2 DEF MO!Entries
  <2>2. CASE b = a
      BY <1>3, <2>2
  <2>3. CASE b # a
    <3>1. failed[<<slot, MO!Get(slot, b)>>] > 0
        BY <1>a, <1>0, <2>3 DEF Tried
    <3> QED
        BY <1>3, <2>1, <3>1
  <2> QED
      BY <2>2, <2>3
<1>5. \A s, k : MO!Get(s, k)' = MO!Get(s, k)
    BY DEF MO!Get, MO!Count
<1>6. MO!Limit(call) \in {1, 2, 3}
    BY DEF MO!Limit
<1>7. CASE a + 1 < MO!Limit(call)
  <2>1. call' = [call EXCEPT !.attempt = a + 1]
      BY <1>a, <1>7 DEF MO!AfterFailure
  <2>2. /\ call'.slot = slot /\ call'.attempt = a + 1 /\ call'.kind = call.kind
        /\ call'.pc = "ask" /\ CallShape'
      BY <1>a, <1>0, <1>3, <2>1 DEF CallInv, CallShape
  <2>3. Tried(a + 1)'
      BY <1>0, <1>4, <1>5, <2>2 DEF Tried
  <2>4. Tried(call.attempt)'
      BY <2>2, <2>3 DEF Tried
  <2>5. MO!Limit(call)' = MO!Limit(call)
      BY <1>a, <2>2 DEF MO!Limit
  <2>6. CallGoesOn'
      BY <1>0, <1>7, <2>2, <2>4, <2>5 DEF CallGoesOn
  <2> QED
      BY <2>2, <2>6 DEF CallInv, NotBlamedForQuote, MO!NotBlamedForQuote
<1>8. CASE ~(a + 1 < MO!Limit(call)) /\ call.kind = "text" /\ slot = "full"
  <2>1. PICK pc \in {"failed", "ask"} :
          /\ call' = [call EXCEPT !.slot = "light", !.attempt = 0, !.pc = pc]
          /\ pc = "failed" <=> MO!Count("light") = 0
      BY <1>a, <1>8 DEF MO!AfterFailure
  <2>2. call'.slot = "light" /\ call'.attempt = 0 /\ call'.pc = pc /\ CallShape'
    <3>1. call' \in [pc : {"failed", "ask"}, kind : Kinds5, slot : {"light"}, attempt : {0},
                      quoted : BOOLEAN]
        BY <2>1 DEF CallInv, CallShape
    <3>2. call'.pc = pc
        BY <2>1 DEF CallInv, CallShape
    <3>3. /\ failed' \in [MO!Entries -> Nat] /\ on' \in [MO!Slots -> SUBSET (1 .. MaxModels)]
          /\ {"light"} \subseteq MO!Slots
        BY <1>3 DEF CallInv, CallShape, MO!Slots
    <3> QED
        BY <3>1, <3>2, <3>3 DEF CallShape
  <2>3. MO!Count("light") = 0 <=> on["light"] = {}
      BY EnabledIsFinite DEF CallInv, MO!Slots
  <2>4. MO!Limit(call)' \in {1, 2, 3}
      BY DEF MO!Limit
  <2>5. CallGoesOn'
      BY <2>1, <2>2, <2>3, <2>4 DEF CallGoesOn, Tried
  <2> QED
      BY <2>2, <2>5 DEF CallInv, NotBlamedForQuote, MO!NotBlamedForQuote
<1>9. CASE ~(a + 1 < MO!Limit(call)) /\ ~(call.kind = "text" /\ slot = "full")
  <2>1. call' = [call EXCEPT !.pc = "failed"]
      BY <1>a, <1>9 DEF MO!AfterFailure
  <2>2. /\ call'.slot = slot /\ call'.pc = "failed" /\ call'.kind = call.kind /\ CallShape'
      BY <1>a, <1>0, <1>3, <2>1 DEF CallInv, CallShape
  <2>3. MO!Limit(call)' = a + 1
      BY <1>a, <1>0, <1>6, <1>9, <2>2 DEF MO!Limit
  <2>4. Tried(a + 1)'
      BY <1>0, <1>4, <1>5, <2>2 DEF Tried
  <2>5. Tried(MO!Limit(call))'
      BY <2>3, <2>4 DEF Tried
  <2>6. CallGoesOn'
      BY <2>2, <2>5 DEF CallGoesOn
  <2> QED
      BY <2>2, <2>6 DEF CallInv, NotBlamedForQuote, MO!NotBlamedForQuote
<1> QED
    BY <1>7, <1>8, <1>9

LEMMA AskKeepsCalls ==
  ASSUME MaxModels \in Nat, CallInv, MO!Ask
  PROVE  CallInv'
<1> DEFINE i == MO!Get(call.slot, call.attempt)
<1>0. /\ call.slot \in MO!Slots /\ call.attempt \in Nat /\ on[call.slot] # {}
      /\ call.pc = "ask" /\ on' = on /\ offends' = offends
    BY DEF CallInv, CallShape, CallGoesOn, MO!Ask
<1>1. i \in on[call.slot]
    BY <1>0, GetFinds DEF CallInv
<1>2. ASSUME NEW what \in {"answered", "refused"},
             call' = [call EXCEPT !.pc = what], failed' = failed
      PROVE  CallInv'
    BY <1>0, <1>2 DEF CallInv, CallShape, CallGoesOn, NotBlamedForQuote, MO!NotBlamedForQuote
<1>3. CASE /\ "text" \in offends \/ ("quote" \in offends /\ call.quoted)
           /\ call' = MO!AfterFilter(call) /\ failed' = failed
  <2>1. CASE call.quoted
    <3>1. call' = [call EXCEPT !.attempt = 0, !.quoted = FALSE]
        BY <1>3, <2>1 DEF MO!AfterFilter, MO!AskedAgain
    <3>2. /\ call'.pc = "ask" /\ call'.slot = call.slot /\ call'.attempt = 0
          /\ call'.kind = call.kind /\ call' \in [pc : {"ask"}, kind : Kinds5,
                slot : MO!Slots, attempt : Nat, quoted : BOOLEAN]
        BY <1>0, <3>1 DEF CallInv, CallShape
    <3>5. CallShape'
        BY <1>0, <1>3, <3>2 DEF CallInv, CallShape
    <3>3. MO!Limit(call)' \in {1, 2, 3}
        BY DEF MO!Limit
    <3>4. CallGoesOn'
        BY <1>0, <3>2, <3>3 DEF CallGoesOn, Tried
    <3> QED
        BY <3>2, <3>4, <3>5 DEF CallInv, NotBlamedForQuote, MO!NotBlamedForQuote
  <2>2. CASE ~call.quoted
    <3>1. call' = [call EXCEPT !.pc = "filtered"] /\ "text" \in offends
        BY <1>3, <2>2 DEF MO!AfterFilter
    <3> QED
        BY <1>0, <1>3, <3>1
        DEF CallInv, CallShape, CallGoesOn, NotBlamedForQuote, MO!NotBlamedForQuote
  <2> QED
      BY <2>1, <2>2
<1>4. CASE call' = MO!AfterFailure /\ failed' = [failed EXCEPT ![<<call.slot, i>>] = @ + 1]
    BY <1>0, <1>4, AfterFailureKeeps
<1>5. \/ \E what \in {"answered", "refused"} : call' = [call EXCEPT !.pc = what] /\ failed' = failed
      \/ /\ "text" \in offends \/ ("quote" \in offends /\ call.quoted)
         /\ call' = MO!AfterFilter(call) /\ failed' = failed
      \/ call' = MO!AfterFailure /\ failed' = [failed EXCEPT ![<<call.slot, i>>] = @ + 1]
    BY <1>1 DEF MO!Ask, MO!Answer
<1> QED
    BY <1>2, <1>3, <1>4, <1>5

LEMMA CallInvHolds ==
  ASSUME MaxModels \in Nat, CallInv, [MO!ModelsNext]_modelVars
  PROVE  CallInv'
<1>1. CASE \E kind \in Kinds5, quoted \in BOOLEAN : MO!Begin(kind, quoted)
    BY <1>1, BeginKeepsCalls
<1>2. CASE MO!Ask
    BY <1>2, AskKeepsCalls
<1>3. CASE UNCHANGED <<on, offends, call, failed>>
    BY <1>3 DEF CallInv, CallShape, CallGoesOn, Tried, MO!Get, MO!Count, MO!Limit,
                NotBlamedForQuote, MO!NotBlamedForQuote
<1>4. \/ \E kind \in Kinds5, quoted \in BOOLEAN : MO!Begin(kind, quoted)
      \/ MO!Ask \/ UNCHANGED <<on, offends, call, failed>>
    BY DEF MO!ModelsNext, MO!See, MO!Request, MO!ofCall, modelVars, Kinds5
<1> QED
    BY <1>1, <1>2, <1>3, <1>4

---------------------------------------------------------------------------
(* Pictures.                                                               *)

Steps == {"safety", "vision", "visionSafety", "ocr"}

PictureShape ==
  /\ services \subseteq MO!Services
  /\ picture \in [pc : Steps \cup {"idle", "lost", "done"}, of : {"message", "profile"}, bad : BOOLEAN,
                  attempt : 0 .. 2, flagged : BOOLEAN, described : BOOLEAN]
  /\ outages \in [MO!Services -> Nat]
  /\ refusals \subseteq MO!Services

\* A service has let the picture down.
LetDown == \E s \in {"safety", "vision"} : outages[s] > 2 \/ s \in refusals
\* Nobody asks content safety about a message that is not described.
NotDescribed == picture.of = "message" /\ "vision" \notin services

\* Each try so far was an outage; and a bad picture comes past content safety for a reason.
PictureGoesOn ==
  /\ picture.pc \in Steps => outages[MO!Asked(picture.pc)] >= picture.attempt
  /\ picture.pc \in {"vision", "visionSafety"} => "vision" \in services
  /\ picture.pc \in {"vision", "visionSafety", "ocr", "done"} /\ "safety" \in services /\ picture.bad =>
       \/ picture.flagged \/ LetDown \/ NotDescribed
       \/ picture.of = "message" /\ picture.pc = "vision"
       \/ picture.pc = "visionSafety"

PictureInv == PictureShape /\ PictureGoesOn

LEMMA PictureInvInitially == MO!ModelsInit => PictureInv
BY DEF MO!ModelsInit, MO!NoPicture, MO!Services, PictureInv, PictureShape, PictureGoesOn, Steps

LEMMA AskedServices == \A pc \in Steps : MO!Asked(pc) \in MO!Services
BY DEF Steps, MO!Asked, MO!Services

LEMMA SeeKeepsPictures ==
  ASSUME PictureInv, NEW of \in {"message", "profile"}, NEW bad \in BOOLEAN, MO!See(of, bad)
  PROVE  PictureInv'
<1>1. PICK pc :
        /\ picture' = [MO!NoPicture EXCEPT !.of = of, !.bad = bad, !.pc = pc]
        /\ \/ pc = "lost"
           \/ pc = "safety" /\ of = "profile" /\ "safety" \in services
           \/ pc = MO!Describe /\ ~(of = "profile" /\ "safety" \in services)
    BY DEF MO!See
<1>2. picture' = [pc |-> pc, of |-> of, bad |-> bad, attempt |-> 0, flagged |-> FALSE,
                  described |-> FALSE]
    BY <1>1 DEF MO!NoPicture
<1>3. services' = services /\ outages' = outages /\ refusals' = refusals
    BY DEF MO!See
<1>4. MO!Describe \in {"vision", "ocr", "done"} /\ (MO!Describe = "vision" <=> "vision" \in services)
    BY DEF MO!Describe, MO!OrOcr
<1>5. PictureShape'
  <2>1. pc \in Steps \cup {"idle", "lost", "done"}
      BY <1>1, <1>4 DEF Steps
  <2>2. 0 \in 0 .. 2
      OBVIOUS
  <2> QED
      BY <1>2, <1>3, <2>1, <2>2 DEF PictureInv, PictureShape
<1>6. pc \in Steps => outages[MO!Asked(pc)] >= 0
    BY AskedServices DEF PictureInv, PictureShape
<1>7. /\ picture'.pc = pc /\ picture'.of = of /\ picture'.attempt = 0
      /\ outages'[MO!Asked(picture.pc)'] = outages[MO!Asked(pc)]
    BY <1>2, <1>3 DEF MO!Asked
<1>8. pc \in {"vision", "visionSafety"} => "vision" \in services
    BY <1>1, <1>4
<1>9. pc \in {"vision", "visionSafety", "ocr", "done"} /\ "safety" \in services =>
        NotDescribed' \/ (of = "message" /\ pc = "vision")
    BY <1>1, <1>3, <1>4, <1>7 DEF NotDescribed
<1>10. PictureGoesOn'
    BY <1>3, <1>6, <1>7, <1>8, <1>9 DEF PictureGoesOn
<1> QED
    BY <1>5, <1>10 DEF PictureInv

\* What comes after a service that has given up, refused or failed three times.
LEMMA GivenUpKeeps ==
  ASSUME PictureInv, picture.pc \in Steps, picture' = MO!GivenUp(picture), services' = services,
         outages' \in [MO!Services -> Nat], refusals' \subseteq MO!Services,
         \A s \in MO!Services : outages'[s] >= outages[s], refusals \subseteq refusals',
         MO!Asked(picture.pc) \in refusals' \/ outages'[MO!Asked(picture.pc)] > 2
  PROVE  PictureInv'
<1>1. PICK pc :
        /\ picture' = [picture EXCEPT !.attempt = 0, !.pc = pc]
        /\ pc = CASE picture.pc = "safety" -> MO!Describe
                  [] picture.pc = "vision" -> MO!OrOcr
                  [] OTHER                 -> "done"
    BY DEF MO!GivenUp
<1>2. /\ picture.pc = "safety" => pc = MO!Describe
      /\ picture.pc = "vision" => pc = MO!OrOcr
      /\ picture.pc \in {"visionSafety", "ocr"} => pc = "done"
    BY <1>1
<1>3. /\ MO!Describe \in {"vision", "ocr", "done"} /\ (MO!Describe = "vision" => "vision" \in services)
      /\ MO!OrOcr \in {"ocr", "done"}
    BY DEF MO!Describe, MO!OrOcr
<1>4. pc \in {"vision", "ocr", "done"} /\ (pc = "vision" => "vision" \in services)
    BY <1>2, <1>3 DEF Steps
<1>5. /\ picture'.pc = pc /\ picture'.of = picture.of /\ picture'.bad = picture.bad
      /\ picture'.attempt = 0 /\ picture'.flagged = picture.flagged
      /\ picture'.described = picture.described
      /\ picture' \in [pc : {pc}, of : {"message", "profile"}, bad : BOOLEAN, attempt : {0},
                       flagged : BOOLEAN, described : BOOLEAN]
    BY <1>1 DEF PictureInv, PictureShape
<1>6. PictureShape'
    BY <1>4, <1>5 DEF PictureInv, PictureShape, Steps
<1>7. LetDown => LetDown'
    BY DEF LetDown, PictureInv, PictureShape, MO!Services
<1>8. picture.pc # "ocr" => LetDown'
    BY DEF LetDown, Steps, MO!Asked
<1>9. pc \in Steps => outages'[MO!Asked(pc)] >= 0
    BY AskedServices
<1>10. PictureGoesOn'
  <2>1. CASE picture.pc # "ocr"
      BY <1>4, <1>5, <1>8, <1>9, <2>1 DEF PictureGoesOn
  <2>2. CASE picture.pc = "ocr"
    <3>1. "safety" \in services /\ picture.bad => picture.flagged \/ LetDown \/ NotDescribed
        BY <2>2 DEF PictureInv, PictureGoesOn
    <3>2. NotDescribed' <=> NotDescribed
        BY <1>5 DEF NotDescribed
    <3> QED
        BY <1>2, <1>5, <1>7, <2>2, <3>1, <3>2 DEF PictureGoesOn, Steps
  <2> QED
      BY <2>1, <2>2
<1> QED
    BY <1>6, <1>10 DEF PictureInv

LEMMA RequestKeepsPictures ==
  ASSUME PictureInv, MO!Request
  PROVE  PictureInv'
<1> DEFINE s == MO!Asked(picture.pc)
<1>1. picture.pc \in Steps /\ services' = services
    BY DEF MO!Request, MO!Services, Steps
<1>2. s \in MO!Services /\ outages[s] \in Nat /\ outages[s] >= picture.attempt
    BY <1>1 DEF PictureInv, PictureShape, PictureGoesOn, Steps, MO!Asked, MO!Services
<1>3. CASE /\ picture' = [MO!Answered(picture) EXCEPT !.attempt = 0]
           /\ outages' = outages /\ refusals' = refusals
  <2>1. PICK pc, flagged, described :
          /\ picture' = [picture EXCEPT !.pc = pc, !.attempt = 0, !.flagged = flagged,
                                        !.described = described]
          /\ picture.pc = "vision" => /\ flagged = picture.flagged
                                      /\ pc = IF "safety" \in services THEN "visionSafety" ELSE "done"
          /\ picture.pc # "vision" => pc = "done"
          /\ picture.pc \in {"safety", "visionSafety"} => flagged = picture.bad
          /\ picture.pc = "ocr" => flagged = picture.flagged
          /\ flagged \in BOOLEAN /\ described \in BOOLEAN
    <3>1. picture \in [pc : Steps, of : {"message", "profile"}, bad : BOOLEAN, attempt : 0 .. 2,
                       flagged : BOOLEAN, described : BOOLEAN]
        BY <1>1 DEF PictureInv, PictureShape
    <3>2. CASE picture.pc \in {"safety", "visionSafety"}
      <4>1. MO!Answered(picture) = [picture EXCEPT !.pc = "done", !.flagged = picture.bad]
          BY <3>2 DEF MO!Answered
      <4>2. picture' = [picture EXCEPT !.pc = "done", !.attempt = 0, !.flagged = picture.bad,
                                       !.described = picture.described]
          BY <1>3, <3>1, <4>1
      <4> QED
          BY <3>1, <3>2, <4>2
    <3>3. CASE picture.pc = "vision"
      <4>1. PICK pc : pc = IF "safety" \in services THEN "visionSafety" ELSE "done"
          OBVIOUS
      <4>2. MO!Answered(picture) = [picture EXCEPT !.pc = pc, !.described = TRUE]
          BY <3>3, <4>1 DEF MO!Answered
      <4>3. picture' = [picture EXCEPT !.pc = pc, !.attempt = 0, !.flagged = picture.flagged,
                                       !.described = TRUE]
          BY <1>3, <3>1, <4>2
      <4> QED
          BY <3>1, <3>3, <4>1, <4>3
    <3>4. CASE picture.pc = "ocr"
      <4>1. MO!Answered(picture) = [picture EXCEPT !.pc = "done", !.described = TRUE]
          BY <3>4 DEF MO!Answered
      <4>2. picture' = [picture EXCEPT !.pc = "done", !.attempt = 0, !.flagged = picture.flagged,
                                       !.described = TRUE]
          BY <1>3, <3>1, <4>1
      <4> QED
          BY <3>1, <3>4, <4>2
    <3> QED
        BY <1>1, <3>2, <3>3, <3>4 DEF Steps
  <2>2. pc \in {"visionSafety", "done"} /\ (pc = "visionSafety" => picture.pc = "vision")
      BY <2>1
  <2>3. /\ picture'.pc = pc /\ picture'.of = picture.of /\ picture'.bad = picture.bad
        /\ picture'.attempt = 0 /\ picture'.flagged = flagged
        /\ picture' \in [pc : {pc}, of : {"message", "profile"}, bad : BOOLEAN, attempt : {0},
                         flagged : BOOLEAN, described : BOOLEAN]
      BY <2>1 DEF PictureInv, PictureShape
  <2>4. PictureShape'
      BY <1>1, <1>3, <2>2, <2>3 DEF PictureInv, PictureShape, Steps
  <2>5. (LetDown' <=> LetDown) /\ (NotDescribed' <=> NotDescribed)
      BY <1>1, <1>3, <2>3 DEF LetDown, NotDescribed
  <2>6. pc \in Steps => outages'[MO!Asked(pc)] >= 0
      BY <1>3, AskedServices DEF PictureInv, PictureShape
  <2>7. pc \in {"vision", "visionSafety"} => "vision" \in services
      BY <2>2 DEF PictureInv, PictureGoesOn
  <2>8. pc = "done" /\ "safety" \in services /\ picture.bad => flagged \/ LetDown \/ NotDescribed
      BY <1>1, <2>1 DEF PictureInv, PictureGoesOn, Steps
  <2>9. PictureGoesOn'
      BY <1>1, <2>2, <2>3, <2>5, <2>6, <2>7, <2>8 DEF PictureGoesOn
  <2> QED
      BY <2>4, <2>9 DEF PictureInv
<1>4. CASE /\ outages' = [outages EXCEPT ![s] = @ + 1] /\ refusals' = refusals
           /\ picture' = IF MO!Retried(picture.attempt)
                         THEN [picture EXCEPT !.attempt = @ + 1] ELSE MO!GivenUp(picture)
  <2>1. /\ outages' \in [MO!Services -> Nat] /\ outages'[s] = outages[s] + 1
        /\ \A q \in MO!Services : outages'[q] >= outages[q]
      BY <1>2, <1>4 DEF PictureInv, PictureShape
  <2>2. CASE picture.attempt < 2
    <3>1. picture' = [picture EXCEPT !.attempt = picture.attempt + 1]
        BY <1>4, <2>2 DEF MO!Retried
    <3>2. /\ picture'.pc = picture.pc /\ picture'.of = picture.of /\ picture'.bad = picture.bad
          /\ picture'.attempt = picture.attempt + 1 /\ picture'.flagged = picture.flagged
        BY <3>1 DEF PictureInv, PictureShape
    <3>3. picture.attempt + 1 \in 0 .. 2
        BY <2>2 DEF PictureInv, PictureShape
    <3>4. PictureShape'
        BY <1>1, <1>4, <2>1, <3>1, <3>3 DEF PictureInv, PictureShape
    <3>5. (LetDown => LetDown') /\ (NotDescribed' <=> NotDescribed)
        BY <1>1, <1>4, <2>1, <3>2 DEF LetDown, NotDescribed, PictureInv, PictureShape, MO!Services
    <3>6. outages'[s] >= picture.attempt + 1
      <4>1. picture.attempt \in Nat
          BY DEF PictureInv, PictureShape
      <4> QED
          BY <1>2, <2>1, <4>1
    <3>7. PictureGoesOn'
        BY <1>1, <3>2, <3>5, <3>6 DEF PictureInv, PictureGoesOn
    <3> QED
        BY <3>4, <3>7 DEF PictureInv
  <2>3. CASE ~(picture.attempt < 2)
    <3>1. picture' = MO!GivenUp(picture)
        BY <1>4, <2>3 DEF MO!Retried
    <3>2. outages'[s] > 2
        BY <1>2, <2>1, <2>3 DEF PictureInv, PictureShape
    <3>3. refusals' \subseteq MO!Services /\ refusals \subseteq refusals'
        BY <1>4 DEF PictureInv, PictureShape
    <3> QED
        BY <1>1, <2>1, <3>1, <3>2, <3>3, GivenUpKeeps
  <2> QED
      BY <2>2, <2>3
<1>5. CASE picture' = MO!GivenUp(picture) /\ refusals' = refusals \cup {s} /\ outages' = outages
  <2>1. /\ outages' \in [MO!Services -> Nat] /\ refusals' \subseteq MO!Services
        /\ \A q \in MO!Services : outages'[q] >= outages[q]
        /\ refusals \subseteq refusals' /\ s \in refusals'
      BY <1>2, <1>5 DEF PictureInv, PictureShape
  <2> QED
      BY <1>1, <1>5, <2>1, GivenUpKeeps
<1> QED
    BY <1>3, <1>4, <1>5 DEF MO!Request

LEMMA PictureInvHolds ==
  ASSUME PictureInv, [MO!ModelsNext]_modelVars
  PROVE  PictureInv'
<1>1. CASE \E of \in {"message", "profile"}, bad \in BOOLEAN : MO!See(of, bad)
    BY <1>1, SeeKeepsPictures
<1>2. CASE MO!Request
    BY <1>2, RequestKeepsPictures
<1>3. CASE UNCHANGED <<services, picture, outages, refusals>>
    BY <1>3 DEF PictureInv, PictureShape, PictureGoesOn, LetDown, NotDescribed
<1>4. \/ \E of \in {"message", "profile"}, bad \in BOOLEAN : MO!See(of, bad)
      \/ MO!Request \/ UNCHANGED <<services, picture, outages, refusals>>
    BY DEF MO!ModelsNext, MO!Begin, MO!Ask, MO!ofPicture, modelVars
<1> QED
    BY <1>1, <1>2, <1>3, <1>4

LEMMA ModelsInvShows == MaxModels \in Nat /\ CallInv /\ PictureInv => FailsOver /\ NotBlamedForQuote
<1> SUFFICES ASSUME MaxModels \in Nat, CallInv, PictureInv PROVE FailsOver /\ NotBlamedForQuote
    OBVIOUS
<1>1. call.pc # "disabled" /\ NotBlamedForQuote
    BY DEF CallInv, CallShape
<1>2. ASSUME call.pc = "failed"
      PROVE  \A i \in on[call.slot] : failed[<<call.slot, i>>] > 0 \/ MO!Count(call.slot) > MO!Limit(call)
  <2>1. CASE on[call.slot] = {}
      BY <2>1
  <2>2. CASE Tried(MO!Limit(call))
    <3>1. MO!Limit(call) \in Nat
        BY DEF MO!Limit
    <3>2. MO!Count(call.slot) \in Nat
        BY EnabledIsFinite DEF CallInv, CallShape
    <3>3. MO!Count(call.slot) > MO!Limit(call) \/ MO!Count(call.slot) <= MO!Limit(call)
        BY <3>1, <3>2
    <3> QED
        BY <2>2, <3>1, <3>3, TriedAll DEF CallInv
  <2> QED
      BY <1>2, <2>1, <2>2 DEF CallInv, CallGoesOn
<1>3. picture.pc = "done" /\ picture.bad /\ "safety" \in services =>
        \/ picture.flagged
        \/ \E s \in {"safety", "vision"} : outages[s] > 2 \/ s \in refusals
        \/ picture.of = "message" /\ "vision" \notin services
    BY DEF PictureInv, PictureGoesOn, LetDown, NotDescribed
<1> QED
    BY <1>1, <1>2, <1>3 DEF FailsOver, MO!FailsOver

ModelsInv == CallInv /\ PictureInv

LEMMA ModelsInvInitially == MaxModels \in Nat /\ BotInit => ModelsInv
BY CallInvInitially, PictureInvInitially DEF BotInit, ModelsInv

LEMMA ModelsInvHolds == MaxModels \in Nat /\ ModelsInv /\ [BotNext]_botVars => ModelsInv'
<1> SUFFICES ASSUME MaxModels \in Nat, ModelsInv, [BotNext]_botVars PROVE ModelsInv'
    OBVIOUS
<1>1. [MO!ModelsNext]_modelVars
    BY DEF BotNext, botVars
<1> QED
    BY <1>1, CallInvHolds, PictureInvHolds DEF ModelsInv

\* The judgement of a message counts it as refused by the content filter only when what it says
\* itself may be refused, however many models are asked and in whatever order they fail.
\* (callContentModerationWithReplyRetry)
THEOREM QuotesAreForgiven ==
  ASSUME MaxModels \in Nat
  PROVE  BotSpec => []NotBlamedForQuote
<1>1. ModelsInv => NotBlamedForQuote
    BY DEF ModelsInv, CallInv
<1> QED
    BY <1>1, ModelsInvInitially, ModelsInvHolds, PTL DEF BotSpec, botVars

\* However many models are listed and whichever are enabled, a call fails only after it has
\* tried each of them, or as many as it may; and a bad picture passes only when a service was
\* asked three times, or refused.  (Get, callAzureOpenAIWithRetriesAndBackoff, doAPIWithRetries)
THEOREM EveryEntryIsTried ==
  ASSUME MaxModels \in Nat
  PROVE  BotSpec => []FailsOver
<1>1. ModelsInv => FailsOver
    BY ModelsInvShows DEF ModelsInv
<1> QED
    BY <1>1, ModelsInvInitially, ModelsInvHolds, PTL DEF BotSpec, botVars
=============================================================================
