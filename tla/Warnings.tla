------------------------------- MODULE Warnings -------------------------------
(***************************************************************************)
(* The warnings of one user, and the replies by which the bot delivers     *)
(* them.  An admin, the web UI or a rule looks whether the message has a   *)
(* warning, inserts a row, has a text generated (which takes seconds),     *)
(* replies to the message and records the reply's id in the row.  A        *)
(* cancellation goes the other way round: read the reply's id, delete the  *)
(* row, delete the reply.  Each is a statement or a call of its own, and   *)
(* goroutines interleave between them.                                     *)
(*                                                                         *)
(* The table is keyed by user and message number, without the chat.        *)
(***************************************************************************)
EXTENDS Integers, FiniteSets

CONSTANTS
    Messages,   \* the user's messages: records of a chat and a number in it
    NoMessage,  \* not a message
    Workers,    \* goroutines that serve updates, callbacks and web requests
    FirstReply, \* a number above those of Messages
    MaxReplies, \* bound: replies of the bot per chat
    MaxCalls,   \* bound: calls of admins and of the web UI
    MaxFaults   \* bound: calls that fail, lost replies, crashes

ASSUME MessagesAssumption ==
    /\ \A m \in Messages : m = [chat |-> m.chat, num |-> m.num] /\ m.num \in 1..FirstReply
    /\ NoMessage \notin Messages
    /\ FirstReply \in Nat \ {0}

ASSUME CallBoundsAssumption == {MaxReplies, MaxCalls, MaxFaults} \subseteq Nat

VARIABLES
    rows,     \* the table warnings
    serial,   \* the last id given to a row
    replies,  \* messages of the bot that are in a chat
    stored,   \* messages of the bot that are in message_info
    last,     \* last[c]: the number of the last message in chat c
    cards,    \* messages that admins hold a card for, with its buttons
    job,      \* job[w]: where goroutine w is in warning or cancelling
    calls,
    faults,
    upset     \* upset[m]: history, what has disturbed the warnings of m

warningVars == <<rows, serial, replies, stored, last, cards, job, calls,
                 faults, upset>>

-----------------------------------------------------------------------------
(* Data                                                                    *)

Chats == {m.chat : m \in Messages}

Row == [id : Nat, chat : Chats, num : Nat, reply : Nat]

Reply == [chat : Chats, num : Nat, to : Nat, kind : {"warning", "creative"}]

Writers == {"admin", "web", "rule"}

\* insert, send, record: a warning on its way; remove, unsend: a cancellation.
Job == [by : Writers \cup {"cancel", "creative", "none"},
        step : {"idle", "insert", "send", "record", "remove", "unsend"},
        msg : Messages \cup {NoMessage}, reply : Nat]

NoJob == [by |-> "none", step |-> "idle", msg |-> NoMessage, reply |-> 0]

\* Why a warning may be doubled, its reply outlive it, or a verdict go unseen.
\*   overlap    two goroutines were at the message's warnings at once
\*   resent     an INSERT lost its answer and was repeated
\*   refused    Telegram did not delete a reply
\*   untracked  the web UI does not record the reply's number
\*   crash      the process died in the middle
\*   lost       a card for the admins could not be sent, or a row not inserted
\*   cut        a version was recorded and its judging was cut short
Reasons == {"overlap", "resent", "refused", "untracked", "crash", "lost", "cut"}

\* The rows that a query by user and message number finds.
RowsFor(m) == {r \in rows : r.num = m.num}

\* Mutation: a warning counts once its reply is on record.
HasDeliveredWarning(m) == \E r \in RowsFor(m) : r.reply > 0

HasWarningForMessage(m) == RowsFor(m) # {}

\* The reply recorded with the latest of them, 0 if there is none.
GetWarningMessageID(m) ==
    IF RowsFor(m) = {} THEN 0
    ELSE (CHOOSE r \in RowsFor(m) : \A q \in RowsFor(m) : q.id <= r.id).reply

\* The bot's latest reply to m, as a set.
FindBotReplyMessage(m) ==
    LET found == {s \in stored : s.chat = m.chat /\ s.to = m.num}
    IN  {s \in found : \A q \in found : q.num <= s.num}

\* A card has buttons to warn, to cancel a warning, or to call the message no
\* violation.  Admins keep their cards, whatever becomes of the message.
SendModerationCard(m) == cards' = cards \cup {m}

At(w, s) == job[w].step = s

Goto(w, s) == job' = [job EXCEPT ![w].step = s]

Done(w) == job' = [job EXCEPT ![w] = NoJob]

Call == calls < MaxCalls /\ calls' = calls + 1

Fault == faults < MaxFaults /\ faults' = faults + 1

Upset(m, why) == upset' = [upset EXCEPT ![m] = @ \cup why]

\* Goroutine w takes up a job on m; other goroutines that are at the same
\* number's warnings meet it.
Begin(w, m, j) ==
    LET others == {v \in Workers \ {w} : /\ job[v].msg # NoMessage
                                         /\ job[v].by # "creative"
                                         /\ job[v].msg.num = m.num}
    IN  /\ job' = [job EXCEPT ![w] = j]
        /\ upset' = [n \in Messages |->
                        IF others # {} /\ n.num = m.num /\ j.by # "creative"
                        THEN upset[n] \cup {"overlap"} ELSE upset[n]]

-----------------------------------------------------------------------------
(* Warning                                                                 *)

\* The check found no warning; the row is inserted next.
StartWarning(w, m, by) ==
    /\ ~HasWarningForMessage(m)
    /\ Begin(w, m, [NoJob EXCEPT !.by = by, !.step = "insert", !.msg = m])

NewRow(n, m) == [id |-> n, chat |-> m.chat, num |-> m.num, reply |-> 0]

AddWarning(w) ==
    LET m == job[w].msg IN
    /\ At(w, "insert")
    /\ \/ /\ rows' = rows \cup {NewRow(serial + 1, m)}
          /\ serial' = serial + 1
          /\ Goto(w, "send")
          /\ UNCHANGED <<faults, upset>>
       \/ /\ Fault
          /\ rows' = rows \cup {NewRow(serial + 1, m), NewRow(serial + 2, m)}
          /\ serial' = serial + 2
          /\ Upset(m, {"resent"})
          /\ Goto(w, "send")
       \/ /\ Fault
          /\ Upset(m, {"lost"})
          /\ Done(w)
          /\ UNCHANGED <<rows, serial>>
    /\ UNCHANGED <<replies, stored, last, cards, calls>>

NewReply(w) ==
    [chat |-> job[w].msg.chat, num |-> last[job[w].msg.chat] + 1,
     to |-> job[w].msg.num,
     kind |-> IF job[w].by = "creative" THEN "creative" ELSE "warning"]

\* Mutation: the web UI's goroutine does not end.
DeliveredUnfinished(w) ==
    IF job[w].by \in {"admin", "rule"}
    THEN job' = [job EXCEPT ![w].step = "record", ![w].reply = NewReply(w).num]
    ELSE Goto(w, "idle")

\* The web UI does not record which message its warning is.
Delivered(w) ==
    IF job[w].by \in {"admin", "rule"}
    THEN job' = [job EXCEPT ![w].step = "record", ![w].reply = NewReply(w).num]
    ELSE Done(w)

\* The text is generated; Telegram posts the reply, which storeBotMessageInfo
\* then puts on record, or it does not.
SendReply(w) ==
    LET c == job[w].msg.chat IN
    /\ At(w, "send")
    /\ \/ /\ last[c] < FirstReply + MaxReplies
          /\ replies' = replies \cup {NewReply(w)}
          /\ stored' = stored \cup {NewReply(w)}
          /\ last' = [last EXCEPT ![c] = @ + 1]
          /\ Delivered(w)
          /\ IF job[w].by = "web" THEN Upset(job[w].msg, {"untracked"})
             ELSE UNCHANGED upset
          /\ UNCHANGED faults
       \/ /\ Fault
          /\ Done(w)
          /\ UNCHANGED <<replies, stored, last, upset>>
    /\ UNCHANGED <<rows, serial, cards, calls>>

UpdateWarningMessageID(w) ==
    LET j == job[w] IN
    /\ At(w, "record")
    /\ rows' = {IF r.num = j.msg.num THEN [r EXCEPT !.reply = j.reply] ELSE r :
                   r \in rows}
    /\ Done(w)
    /\ UNCHANGED <<serial, replies, stored, last, cards, calls, faults, upset>>

-----------------------------------------------------------------------------
(* Cancelling                                                              *)

\* Mutation: the latest reply to the message passes for the warning.
StartCancellingLatest(w, m) ==
    Begin(w, m, [NoJob EXCEPT !.by = "cancel", !.step = "remove", !.msg = m])

\* The number of the reply is read before the row goes.
StartCancelling(w, m) ==
    Begin(w, m, [NoJob EXCEPT !.by = "cancel", !.step = "remove", !.msg = m,
                              !.reply = GetWarningMessageID(m)])

RemoveWarningForMessage(w) ==
    /\ At(w, "remove")
    /\ rows' = rows \ RowsFor(job[w].msg)
    /\ Goto(w, "unsend")
    /\ UNCHANGED <<serial, replies, stored, last, cards, calls, faults, upset>>

\* The message that a cancellation deletes.
Unsent(j) ==
    {r \in replies : /\ r.chat = j.msg.chat
                     /\ IF j.reply > 0 THEN r.num = j.reply
                        ELSE \E s \in FindBotReplyMessage(j.msg) :
                                s.num = r.num}

DeleteBotWarningReply(w) ==
    LET m == job[w].msg IN
    /\ At(w, "unsend")
    /\ \/ /\ replies' = replies \ Unsent(job[w])
          /\ UNCHANGED <<faults, upset>>
       \/ /\ Fault
          /\ Upset(m, {"refused"})
          /\ UNCHANGED replies
    /\ Done(w)
    /\ UNCHANGED <<rows, serial, stored, last, cards, calls>>

-----------------------------------------------------------------------------
(* The bot talks                                                           *)

\* A creative reply to m.
StartCreativeReply(w, m) ==
    Begin(w, m, [NoJob EXCEPT !.by = "creative", !.step = "send", !.msg = m])

WarningStep(w) ==
    \/ AddWarning(w)
    \/ SendReply(w)
    \/ UpdateWarningMessageID(w)
    \/ RemoveWarningForMessage(w)
    \/ DeleteBotWarningReply(w)

WarningsInit ==
    /\ rows = {}
    /\ serial = 0
    /\ replies = {}
    /\ stored = {}
    /\ last = [c \in Chats |-> FirstReply]
    /\ cards = {}
    /\ job = [w \in Workers |-> NoJob]
    /\ calls = 0
    /\ faults = 0
    /\ upset = [m \in Messages |-> {}]

WarningsTypeOK ==
    /\ rows \subseteq Row
    /\ serial \in Nat
    /\ \A r \in rows : r.id <= serial
    /\ replies \subseteq Reply
    /\ stored \subseteq Reply
    /\ last \in [Chats -> Nat]
    /\ cards \subseteq Messages
    /\ job \in [Workers -> Job]
    /\ \A w \in Workers : job[w].step = "idle" <=> job[w] = NoJob
    /\ calls \in 0..MaxCalls
    /\ faults \in 0..MaxFaults
    /\ upset \in [Messages -> SUBSET Reasons]

=============================================================================
