------------------------------ MODULE Replies ------------------------------
(***************************************************************************)
(* Creative replies (ai_content.go, handler.go): each message gets a       *)
(* goroutine that decides whether the bot may answer, lets a model write   *)
(* for seconds, sends and stores the answer.  How much the bot may say is  *)
(* read off message_info, where its warnings and greetings stand too.      *)
(***************************************************************************)
EXTENDS Integers

CONSTANTS
  Msgs,
  MaxReplies,    \* ai.creative_replies.max_messages
  MaxOther,      \* bound: other messages of the bot
  MaxSlips       \* bound: failing writes, crashes, and answers to a flagged message

VARIABLES
  reply,     \* how far the goroutine of a message is
  about,     \* what a message replies to
  rows,      \* rows of the bot in message_info in the time window
  other,     \* of them, messages that are no creative replies
  slips,
  sent, overlap   \* history: replies sent in the window; two were generated at once, or one was lost

replyVars == <<reply, about, rows, other, slips, sent, overlap>>

\* A message mentions the bot or replies to it, replies to what the bot has said to the same user
\* or to another one, or has nothing to do with the bot.
Kinds == {"mention", "own", "theirs", "nothing"}

RepliesInit ==
  /\ reply = [m \in Msgs |-> "none"]
  /\ about \in [Msgs -> Kinds]
  /\ rows = 0 /\ other = 0 /\ slips = 0
  /\ sent = 0 /\ overlap = FALSE

Step(m, from, to) == reply[m] = from /\ reply' = [reply EXCEPT ![m] = to]

\* creativeReply: what is none of the bot's business, or was flagged by moderation, goes unanswered.
CreativeReply(m, moderated) ==
  /\ Step(m, "none", IF moderated \/ about[m] = "nothing" THEN "done" ELSE "asked")
  /\ UNCHANGED <<about, rows, other, slips, sent, overlap>>

\* isBotReplyToUser: the thread of another user is left alone, if both messages are found.
FollowUpOnlySameUser(m) ==
  /\ \/ Step(m, "asked", IF about[m] = "theirs" THEN "done" ELSE "allowed")
     \/ Step(m, "asked", "allowed")
  /\ UNCHANGED <<about, rows, other, slips, sent, overlap>>

AtLimitLate(n) == n > MaxReplies
AtLimit(n) == n >= MaxReplies

\* handleCreativeFollowUp counts what the bot has sent lately; it gives up when it cannot.
CheckLimit(m) ==
  /\ \/ Step(m, "allowed", IF AtLimit(rows) THEN "done" ELSE "generate")
     \/ Step(m, "allowed", "done")
  /\ overlap' = (overlap \/ (reply'[m] = "generate" /\ \E n \in Msgs : reply[n] = "generate"))
  /\ UNCHANGED <<about, rows, other, slips, sent>>

\* After the answer is written, it is sent and stored; or the model or Telegram refuses.  A reply
\* that is not stored does not count.
SendReply(m) ==
  /\ Step(m, "generate", "done")
  /\ \/ rows' = rows + 1 /\ sent' = sent + 1 /\ UNCHANGED <<slips, overlap>>
     \/ /\ slips < MaxSlips /\ slips' = slips + 1
        /\ sent' = sent + 1 /\ overlap' = TRUE /\ UNCHANGED rows
     \/ UNCHANGED <<rows, sent, slips, overlap>>
  /\ UNCHANGED <<about, other>>

\* storeBotMessageInfo of a warning, a greeting, a private answer.
BotSpeaks ==
  /\ other < MaxOther
  /\ other' = other + 1 /\ rows' = rows + 1
  /\ UNCHANGED <<reply, about, slips, sent, overlap>>

\* GetRecentBotMessageCount looks time_window hours back: what was sent falls out of sight.
WindowPasses ==
  /\ rows > 0
  /\ rows' = 0 /\ sent' = 0 /\ overlap' = \E m, n \in Msgs : m # n /\ reply[m] = "generate" /\ reply[n] = "generate"
  /\ UNCHANGED <<reply, about, other, slips>>

\* The process dies: what is in flight is gone.
Crash ==
  /\ slips < MaxSlips /\ slips' = slips + 1
  /\ reply' = [m \in Msgs |-> IF reply[m] = "none" THEN "none" ELSE "done"]
  /\ UNCHANGED <<about, rows, other, sent, overlap>>

RepliesNext ==
  \/ \E m \in Msgs :
       \/ \E moderated \in BOOLEAN : CreativeReply(m, moderated)
       \/ FollowUpOnlySameUser(m) \/ CheckLimit(m) \/ SendReply(m)
  \/ BotSpeaks \/ WindowPasses \/ Crash

RepliesSpec == RepliesInit /\ [][RepliesNext]_replyVars

\* The bot does not reply more often than it may, unless two replies were generated at the same
\* time or one was not stored, whatever else the bot says.  (handleCreativeFollowUp, GetRecentBotMessageCount)
LimitUnlessOverlapping == sent <= MaxReplies \/ overlap
============================================================================
