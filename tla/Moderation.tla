------------------------------ MODULE Moderation ------------------------------
(***************************************************************************)
(* What happens to a user's messages, from Telegram's update to the        *)
(* actions of the rules it breaks.  An update is claimed by its id, the    *)
(* message is recorded, the models are asked, a verdict claims the message *)
(* for ten minutes and its plan is carried out one action after the other. *)
(* Updates of one message run concurrently and in any order, complaints    *)
(* and the web UI have a message judged again, admins warn and cancel, and *)
(* a crash forgets the claims and leaves Telegram to deliver again.        *)
(*                                                                         *)
(* Muting is Enforcement's; here it succeeds or is refused.                *)
(***************************************************************************)
EXTENDS Warnings, Verdicts

CONSTANTS
    MaxVersion   \* bound: versions of a message's text

ASSUME VersionsAssumption == MaxVersion \in Nat \ {0}

VARIABLES
    shown,     \* shown[m]: the version of m in the chat, Missing before it is
               \* posted
    alive,     \* alive[m]: m has not been deleted from the chat
    pending,   \* updates that Telegram delivers, until they are answered
    seen,      \* updateDedup: the updates that this process has claimed
    info,      \* info[m]: the row of m in message_info
    claims,    \* moderatedMsgs: the messages claimed in the last ten minutes
    turn,      \* turn[w]: the message that goroutine w moderates, and where
    judged,    \* judged[m]: history, the versions that the models were asked of
    loose,     \* history, messages whose claim was given up while a verdict
               \* on them was being carried out
    acted      \* acted[m]: history, the last verdict on m has had an effect

chatVars == <<shown, alive>>

moderationVars == <<chatVars, pending, seen, info, claims, turn, judged, loose,
                    acted>>

vars == <<warningVars, moderationVars>>

-----------------------------------------------------------------------------
(* Data                                                                    *)

Missing == 0    \* no row, or not posted

Removed == -1   \* the text is the placeholder

Info == [text : {Removed} \cup Nat, reason : BOOLEAN]

Update == [msg : Messages, ver : Nat, kind : {"new", "edit"}]

NoUpdate == [msg |-> NoMessage, ver |-> 0, kind |-> "none"]

Turn == [step : {"idle", "record", "save", "judge", "rejudge", "claim",
                 "dispatch"},
         upd : Update \cup {NoUpdate}, msg : Messages \cup {NoMessage},
         ver : {Removed} \cup Nat, plan : Seq(Actions)]

NoTurn == [step |-> "idle", upd |-> NoUpdate, msg |-> NoMessage,
           ver |-> 0, plan |-> <<>>]

Free(w) == turn[w] = NoTurn /\ job[w] = NoJob

\* A turn waits while its goroutine delivers a warning.
In(w, s) == turn[w].step = s /\ job[w] = NoJob

Step(w, s) == turn' = [turn EXCEPT ![w].step = s]

\* The turn is over and its update, if it has one, is answered.
EndTurn(w) ==
    /\ turn' = [turn EXCEPT ![w] = NoTurn]
    /\ pending' = pending \ {turn[w].upd}

Recorded(m) == info[m].text # Missing

\* Goroutine w carries out the plan of a verdict on m.
Dispatching(w, m) == turn[w].step = "dispatch" /\ turn[w].msg = m

GiveUpClaim(m) ==
    /\ claims' = claims \ {m}
    /\ loose' = IF m \in claims /\ \E w \in Workers : Dispatching(w, m)
                THEN loose \cup {m} ELSE loose

\* Nobody is at work on m.
Quiet(m) == \A w \in Workers : turn[w].msg # m /\ job[w].msg # m

-----------------------------------------------------------------------------
(* The chat                                                                *)

Post(m) ==
    /\ shown[m] = Missing
    /\ shown' = [shown EXCEPT ![m] = 1]
    /\ pending' = pending \cup {[msg |-> m, ver |-> 1, kind |-> "new"]}
    /\ UNCHANGED <<warningVars, alive, seen, info, claims, turn, judged, loose,
                   acted>>

Edit(m) ==
    /\ shown[m] \in 1..(MaxVersion - 1) /\ alive[m]
    /\ shown' = [shown EXCEPT ![m] = @ + 1]
    /\ pending' = pending \cup
                    {[msg |-> m, ver |-> shown[m] + 1, kind |-> "edit"]}
    /\ UNCHANGED <<warningVars, alive, seen, info, claims, turn, judged, loose,
                   acted>>

-----------------------------------------------------------------------------
(* Intake                                                                  *)

\* processUpdate claims the update before anything else; a second delivery
\* in the lifetime of the process stops here.
ProcessUpdate(w, u) ==
    /\ Free(w)
    /\ u \in pending /\ u \notin seen
    /\ seen' = seen \cup {u}
    /\ turn' = [turn EXCEPT ![w] = [NoTurn EXCEPT !.step = "record", !.upd = u,
                                                  !.msg = u.msg, !.ver = u.ver]]
    /\ UNCHANGED <<warningVars, chatVars, pending, info, claims, judged, loose,
                   acted>>

\* A cruel mute or night mode: a new message is deleted and forgotten.
StageSilence(w) ==
    LET m == turn[w].msg IN
    /\ In(w, "record") /\ turn[w].upd.kind = "new"
    /\ \/ alive' = [alive EXCEPT ![m] = FALSE] /\ UNCHANGED <<faults, upset>>
       \/ Fault /\ Upset(m, {"cut"}) /\ UNCHANGED alive
    /\ EndTurn(w)
    /\ UNCHANGED <<rows, serial, replies, stored, last, cards, job, calls,
                   shown, seen, info, claims, judged, loose, acted>>

\* The image check flagged the message: it goes to the content-security rules
\* at once, without being recorded.
StageFlagged(w) ==
    LET m == turn[w].msg IN
    /\ In(w, "record")
    /\ judged' = [judged EXCEPT ![m] = @ \cup {turn[w].ver}]
    /\ IF CSPlan = <<>> THEN EndTurn(w)
       ELSE /\ turn' = [turn EXCEPT ![w].step = "claim", ![w].plan = CSPlan]
            /\ UNCHANGED pending
    /\ UNCHANGED <<warningVars, chatVars, seen, info, claims, loose, acted>>

-----------------------------------------------------------------------------
(* Recording                                                               *)

\* Mutation: the row is replaced, as INSERT OR REPLACE does.
Replaced(old, ver) == [old EXCEPT !.text = ver, !.reason = FALSE]

\* The upsert refreshes the text and leaves the annotations.
Upserted(old, ver) == [old EXCEPT !.text = ver]

RecordNewMessage(w) ==
    LET m == turn[w].msg IN
    /\ In(w, "record") /\ turn[w].upd.kind = "new"
    /\ info' = [info EXCEPT ![m] = Upserted(@, turn[w].ver)]
    /\ Step(w, "judge")
    /\ UNCHANGED <<warningVars, chatVars, pending, seen, claims, judged, loose,
                   acted>>

\* An edit of a message that is not on record is judged and not saved, one
\* that changes nothing is dropped.
RecordEditedMessage(w) ==
    LET m == turn[w].msg IN
    /\ In(w, "record") /\ turn[w].upd.kind # "new"
    /\ IF info[m].text = turn[w].ver THEN EndTurn(w)
       ELSE /\ Step(w, IF Recorded(m) THEN "save" ELSE "judge")
            /\ UNCHANGED pending
    /\ UNCHANGED <<warningVars, chatVars, seen, info, claims, judged, loose,
                   acted>>

\* Mutation: the edit of a claimed message is saved, and no more.
UpdateMessageInfoOnly(w) ==
    LET m == turn[w].msg IN
    /\ In(w, "save")
    /\ info' = [info EXCEPT ![m].text = turn[w].ver]
    /\ IF m \in claims THEN EndTurn(w)
       ELSE Step(w, "judge") /\ UNCHANGED pending
    /\ UNCHANGED <<warningVars, chatVars, seen, claims, judged, loose, acted>>

UpdateMessageInfo(w) ==
    LET m == turn[w].msg IN
    /\ In(w, "save")
    /\ info' = [info EXCEPT ![m].text = turn[w].ver]
    /\ Step(w, "judge")
    /\ UNCHANGED <<warningVars, chatVars, pending, seen, claims, judged, loose,
                   acted>>

-----------------------------------------------------------------------------
(* Judging                                                                 *)

\* The stored text of a message that trips the filter is replaced.
Blanked(i, v) ==
    IF v.blank /\ i.text # Missing THEN [i EXCEPT !.text = Removed] ELSE i

\* A new message that passes may get a creative reply, from the goroutine of
\* the features.
Features(w, m) ==
    /\ turn[w].upd.kind = "new"
    /\ StartCreativeReply(w, m)

\* The models answer.  Without a matched rule nothing is done.
ModerateMessage(w) ==
    LET m == turn[w].msg IN
    /\ In(w, "judge")
    /\ \E v \in Receipts :
          /\ info' = [info EXCEPT ![m] = Blanked(@, v)]
          /\ IF v.plan = <<>>
             THEN /\ EndTurn(w)
                  /\ Features(w, m) \/ UNCHANGED <<job, upset>>
             ELSE /\ turn' = [turn EXCEPT ![w].step = "claim",
                                          ![w].plan = v.plan]
                  /\ UNCHANGED <<pending, job, upset>>
    /\ judged' = [judged EXCEPT ![m] = @ \cup {turn[w].ver}]
    /\ UNCHANGED <<rows, serial, replies, stored, last, cards, calls, faults,
                   chatVars, seen, claims, loose, acted>>

\* A complaint, or "moderate again" in the web UI: the text on record is read
\* and the claim is given up before the models are asked.
Remoderate(w, m) ==
    /\ Free(w) /\ Recorded(m) /\ Call
    /\ GiveUpClaim(m)
    /\ turn' = [turn EXCEPT ![w] = [NoTurn EXCEPT !.step = "rejudge", !.msg = m,
                                                  !.ver = info[m].text]]
    /\ UNCHANGED <<rows, serial, replies, stored, last, cards, job, faults,
                   upset, chatVars, pending, seen, info, judged, acted>>

\* A flag of any model is acted on, even without a rule; a complaint that no
\* model shares goes to the admins.
RemoderateAcrossModels(w) ==
    LET m == turn[w].msg IN
    /\ In(w, "rejudge")
    /\ \E v \in Rejudgements :
          /\ info' = [info EXCEPT ![m] = Blanked(@, v)]
          /\ IF v.plan = <<>> /\ ~v.filter
             THEN /\ EndTurn(w)
                  /\ SendModerationCard(m) \/ UNCHANGED cards
             ELSE /\ turn' = [turn EXCEPT ![w].step = "claim",
                                          ![w].plan = PlanOf(v)]
                  /\ UNCHANGED <<pending, cards>>
    /\ judged' = [judged EXCEPT ![m] = @ \cup ({turn[w].ver} \ {Removed})]
    /\ UNCHANGED <<rows, serial, replies, stored, last, job, calls, faults,
                   upset, chatVars, seen, claims, loose, acted>>

-----------------------------------------------------------------------------
(* Acting                                                                  *)

\* Mutation: an edit makes a message new to the claims.
ClaimedUnlessEdited(w) == turn[w].msg \in claims /\ turn[w].upd.kind # "edit"

\* The message was acted on in the last ten minutes.
Claimed(w) == turn[w].msg \in claims

\* A verdict on a message that is claimed is dropped.  The model's explanation,
\* if it gave one, is stored with a message that is on record.
HandleBadWordDetected(w) ==
    LET m == turn[w].msg IN
    /\ In(w, "claim")
    /\ IF Claimed(w)
       THEN EndTurn(w) /\ UNCHANGED <<claims, info, acted>>
       ELSE /\ claims' = claims \cup {m}
            /\ acted' = [acted EXCEPT ![m] = FALSE]
            /\ info' \in {info, [info EXCEPT ![m].reason = @ \/ Recorded(m)]}
            /\ Step(w, "dispatch")
            /\ UNCHANGED pending
    /\ UNCHANGED <<warningVars, chatVars, seen, judged, loose>>

Acts(w, action) == In(w, "dispatch") /\ turn[w].plan # <<>>
                                     /\ Head(turn[w].plan) = action

\* The rest of the plan; the turn ends with its last action.
NextAction(w) ==
    IF Len(turn[w].plan) = 1 THEN EndTurn(w)
    ELSE /\ turn' = [turn EXCEPT ![w].plan = Tail(@)]
         /\ UNCHANGED pending

Effect(m) == acted' = [acted EXCEPT ![m] = TRUE]

\* The admins get a card, unless it cannot be sent.
AutoModerateReport(w) ==
    LET m == turn[w].msg IN
    /\ Acts(w, "report")
    /\ \/ SendModerationCard(m) /\ Effect(m) /\ UNCHANGED <<faults, upset>>
       \/ Fault /\ Upset(m, {"lost"}) /\ UNCHANGED <<cards, acted>>
    /\ NextAction(w)
    /\ UNCHANGED <<rows, serial, replies, stored, last, job, calls, chatVars,
                   seen, info, claims, judged, loose>>

AutoModerateDelete(w) ==
    LET m == turn[w].msg IN
    /\ Acts(w, "delete")
    /\ alive' = [alive EXCEPT ![m] = FALSE]
    /\ Effect(m)
    /\ NextAction(w)
    /\ UNCHANGED <<warningVars, shown, seen, info, claims, judged, loose>>

AutoModerateMute(w) ==
    /\ Acts(w, "mute")
    /\ Effect(turn[w].msg)
    /\ NextAction(w)
    /\ UNCHANGED <<warningVars, chatVars, seen, info, claims, judged, loose>>

\* Mutation: nothing takes the place of what was refused.
NoFallback(plan) == Tail(plan)

\* What Telegram refuses to delete or to mute is reported.
Fallback(plan) == <<"report">> \o Tail(plan)

AutoModerateRefused(w) ==
    /\ Acts(w, "delete") \/ Acts(w, "mute")
    /\ Fault
    /\ turn' = [turn EXCEPT ![w].plan = Fallback(@)]
    /\ UNCHANGED <<rows, serial, replies, stored, last, cards, job, calls,
                   upset, chatVars, pending, seen, info, claims, judged, loose,
                   acted>>

\* The plan goes on when the warning has been delivered.
AutoModerateWarn(w) ==
    LET m == turn[w].msg IN
    /\ Acts(w, "warn")
    /\ Effect(m)
    /\ IF HasWarningForMessage(m) THEN NextAction(w) /\ UNCHANGED <<job, upset>>
       ELSE /\ StartWarning(w, m, "rule")
            /\ turn' = [turn EXCEPT ![w].plan = Tail(@)]
            /\ UNCHANGED pending
    /\ UNCHANGED <<rows, serial, replies, stored, last, cards, calls, faults,
                   chatVars, seen, info, claims, judged, loose>>

WarningWasLast(w) ==
    /\ In(w, "dispatch") /\ turn[w].plan = <<>>
    /\ EndTurn(w)
    /\ UNCHANGED <<warningVars, chatVars, seen, info, claims, judged, loose,
                   acted>>

-----------------------------------------------------------------------------
(* Admins and the web UI                                                   *)

\* An admin sends the bot a link to a message that is on record.
HandleMessageLink(m) ==
    /\ Recorded(m) /\ Call
    /\ SendModerationCard(m)
    /\ UNCHANGED <<rows, serial, replies, stored, last, job, faults, upset,
                   moderationVars>>

HandleWarningAction(w, m) ==
    /\ Free(w) /\ m \in cards /\ Call
    /\ StartWarning(w, m, "admin")
    /\ UNCHANGED <<rows, serial, replies, stored, last, cards, faults,
                   moderationVars>>

WebWarnUser(w, m) ==
    /\ Free(w) /\ Recorded(m) /\ Call
    /\ StartWarning(w, m, "web")
    /\ UNCHANGED <<rows, serial, replies, stored, last, cards, faults,
                   moderationVars>>

\* "Delete warning" and "not a violation" do the same to the warnings.
CancelWarning(w, m) ==
    /\ Free(w) /\ m \in cards /\ Call
    /\ StartCancelling(w, m)
    /\ UNCHANGED <<rows, serial, replies, stored, last, cards, faults,
                   moderationVars>>

-----------------------------------------------------------------------------
(* Time and crashes                                                        *)

\* Ten minutes pass.
ClaimExpires(m) ==
    /\ m \in claims
    /\ GiveUpClaim(m)
    /\ UNCHANGED <<warningVars, chatVars, pending, seen, info, turn, judged,
                   acted>>

\* A version that is on record and that no model will see: an edit is not judged
\* when it is delivered again, and any update may be lost.
CutShort(m, lost) ==
    \E w \in Workers :
        /\ turn[w].msg = m
        /\ turn[w].ver = info[m].text
        /\ \/ turn[w].step = "judge" /\ turn[w].upd.kind # "new"
           \/ turn[w].step \in {"record", "judge"} /\ turn[w].upd \in lost

\* The process dies and starts again.  Updates that were not answered are
\* delivered again, or have been confirmed and are lost.
Crash ==
    /\ Fault
    /\ \E lost \in SUBSET {turn[w].upd : w \in Workers} :
          /\ pending' = pending \ lost
          /\ upset' = [m \in Messages |->
                          upset[m] \cup (IF Quiet(m) THEN {} ELSE {"crash"})
                             \cup (IF CutShort(m, lost) THEN {"cut"} ELSE {})]
    /\ seen' = {}
    /\ claims' = {}
    /\ turn' = [w \in Workers |-> NoTurn]
    /\ job' = [w \in Workers |-> NoJob]
    /\ UNCHANGED <<rows, serial, replies, stored, last, cards, calls, chatVars,
                   info, judged, loose, acted>>

-----------------------------------------------------------------------------
(* The system                                                              *)

Init ==
    /\ WarningsInit
    /\ shown = [m \in Messages |-> Missing]
    /\ alive = [m \in Messages |-> TRUE]
    /\ pending = {}
    /\ seen = {}
    /\ info = [m \in Messages |-> [text |-> Missing, reason |-> FALSE]]
    /\ claims = {}
    /\ turn = [w \in Workers |-> NoTurn]
    /\ judged = [m \in Messages |-> {}]
    /\ loose = {}
    /\ acted = [m \in Messages |-> TRUE]

TurnStep(w) ==
    \/ StageSilence(w) \/ StageFlagged(w)
    \/ RecordNewMessage(w) \/ RecordEditedMessage(w) \/ UpdateMessageInfo(w)
    \/ ModerateMessage(w) \/ RemoderateAcrossModels(w)
    \/ HandleBadWordDetected(w)
    \/ AutoModerateReport(w) \/ AutoModerateDelete(w) \/ AutoModerateMute(w)
    \/ AutoModerateRefused(w) \/ AutoModerateWarn(w) \/ WarningWasLast(w)

Next ==
    \/ \E w \in Workers :
          \/ TurnStep(w)
          \/ WarningStep(w) /\ UNCHANGED moderationVars
          \/ \E u \in pending : ProcessUpdate(w, u)
          \/ \E m \in Messages :
                \/ Remoderate(w, m)
                \/ HandleWarningAction(w, m)
                \/ WebWarnUser(w, m)
                \/ CancelWarning(w, m)
    \/ \E m \in Messages :
          \/ Post(m) \/ Edit(m)
          \/ HandleMessageLink(m)
          \/ ClaimExpires(m)
    \/ Crash

Spec == Init /\ [][Next]_vars

-----------------------------------------------------------------------------
(* Properties                                                              *)

\* Every variable keeps its type, and a goroutine works on one thing.
TypeOK ==
    /\ WarningsTypeOK
    /\ shown \in [Messages -> 0..MaxVersion]
    /\ alive \in [Messages -> BOOLEAN]
    /\ pending \subseteq Update
    /\ seen \subseteq Update
    /\ info \in [Messages -> Info]
    /\ claims \subseteq Messages
    /\ turn \in [Workers -> Turn]
    /\ judged \in [Messages -> SUBSET Nat]
    /\ loose \subseteq Messages
    /\ acted \in [Messages -> BOOLEAN]

\* However admins, the web UI, rules, redelivered updates and re-moderations
\* follow one another, a message is warned about once, unless two goroutines
\* were at its warnings at the same time or an INSERT was repeated.
WarnedOnce ==
    \A m \in Messages :
        upset[m] \cap {"overlap", "resent"} = {} =>
            Cardinality({r \in rows : r.chat = m.chat /\ r.num = m.num}) <= 1

\* Two goroutines never carry out verdicts on one message together, and one
\* that does holds the claim, until the claim is given up under its hands: ten
\* minutes have passed or somebody has asked for a re-moderation.  Overlapping
\* edits, redeliveries and complaints are no reason.
OneDispatchPerClaim ==
    \A m \in Messages \ loose : \A v, w \in Workers :
        Dispatching(v, m) => /\ m \in claims
                             /\ Dispatching(w, m) => v = w

\* The reason for a verdict stays with the message: neither an edit nor a
\* redelivered update, recorded after the verdict, wipes it.
ReasonKept ==
    [][\A m \in Messages : info[m].reason => info'[m].reason]_vars

\* The text on record has been before a model, whichever of the overlapping
\* updates stored it, or is about to be, when Telegram delivers it again; only
\* a crash between the two lets a version slip.  (A message may also be deleted
\* unseen, when its author is silenced by the time it is delivered again.)
StoredIsJudged ==
    \A m \in Messages :
        (/\ Quiet(m)
         /\ alive[m] /\ info[m].text \notin {Missing, Removed}
         /\ "cut" \notin upset[m])
        => \/ info[m].text \in judged[m]
           \/ \E u \in pending \ seen : /\ u.msg = m /\ u.kind = "new"
                                        /\ u.ver = info[m].text

\* A warning that is cancelled leaves no reply in the chat: a reply of the
\* bot that warns about a message stands for a row.  Excused are goroutines
\* that overlapped, a reply that Telegram would not delete, a crash, a
\* warning of the web UI when the bot has said something else to the message,
\* and messages of two chats that have one number, which the table takes for
\* one.
NoOrphanReply ==
    \A r \in replies : \A m \in Messages :
        (/\ r.kind = "warning" /\ r.chat = m.chat /\ r.to = m.num
         /\ Quiet(m)
         /\ \A n \in Messages : n.num = m.num => n = m
         /\ upset[m] \cap {"overlap", "refused", "crash"} = {}
         /\ \/ "untracked" \notin upset[m]
            \/ ~\E s \in stored : s.kind = "creative" /\ s.to = m.num)
        => HasWarningForMessage(m)

\* A verdict that was carried out has shown: the message is gone, its author
\* is muted or warned, or the admins hold a card.  What Telegram refuses is
\* reported instead; only a card that cannot be sent, or a crash, is silent.
ActedOrReported ==
    \A m \in Messages :
        (/\ Quiet(m)
         /\ upset[m] \cap {"lost", "crash"} = {}) => acted[m]

\* Cancelling a warning deletes the warning, and no other reply of the bot.
OtherRepliesKept == \A s \in stored : s.kind = "creative" => s \in replies

=============================================================================
