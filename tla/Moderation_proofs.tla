--------------------------- MODULE Moderation_proofs ---------------------------
(***************************************************************************)
(* Verdicts and the messages they are about, for any number of messages,   *)
(* goroutines, versions and plans.  A claim has one plan in progress, by   *)
(* an invariant that is inductive once the types are known.  The types     *)
(* need that a goroutine at work is at work on a message (Aimed).  The     *)
(* other parts are about what comes of it: a message gets one warning, a   *)
(* verdict shows, a text is judged, and a warning in the chat has a row.   *)
(***************************************************************************)
EXTENDS Moderation, FiniteSetTheorems, WellFoundedInduction, TLAPS

-----------------------------------------------------------------------------
(* The inductive invariant                                                 *)

\* A goroutine in a warning or a cancellation is at some message's.
JobsAimed == \A w \in Workers : job[w].step # "idle" => job[w].msg \in Messages

\* A turn is about a message; until the models have been asked on receipt, the
\* version is one that was posted.
TurnsAimed ==
    \A w \in Workers :
        /\ turn[w].step # "idle" => turn[w].msg \in Messages
        /\ turn[w].step \in {"record", "save", "judge"} => turn[w].ver \in Nat

WarningsSound == WarningsTypeOK /\ JobsAimed

\* The types of what Moderation adds to Warnings.
TurnsTypeOK ==
    /\ shown \in [Messages -> 0..MaxVersion]
    /\ alive \in [Messages -> BOOLEAN]
    /\ pending \subseteq Update
    /\ seen \subseteq Update
    /\ info \in [Messages -> Info]
    /\ claims \subseteq Messages
    /\ turn \in [Workers -> Turn]
    /\ judged \in [Messages -> SUBSET Nat]
    /\ loose \subseteq Messages
    /\ acted \in [Messages -> BOOLEAN]

TurnsSound == TurnsTypeOK /\ TurnsAimed

MInv == WarningsSound /\ TurnsSound /\ OneDispatchPerClaim

-----------------------------------------------------------------------------
(* Values                                                                  *)

\* A nonempty set of rows whose ids are bounded has one with the greatest id.
LEMMA LatestRow ==
    ASSUME NEW S, S # {}, NEW n \in Nat, \A r \in S : r.id \in Nat /\ r.id <= n
    PROVE  \E r \in S : \A q \in S : q.id <= r.id
<1> DEFINE R == {ss \in Nat \X Nat : ss[1] < ss[2]}
           T == {n - r.id : r \in S}
<1>1. T \subseteq Nat /\ T # {}
    OBVIOUS
<1>2. IsWellFoundedOn(R, Nat)
    BY NatLessThanWellFounded DEF OpToRel
<1> HIDE DEF R, T
<1>3. PICK x \in T : \A y \in T : <<y, x>> \notin R
    BY <1>1, <1>2, WFMin, Zenon
<1>4. ASSUME NEW y \in T PROVE x <= y
  <2>1. y \in Nat /\ x \in Nat
      BY <1>1
  <2>2. ~ (<<y, x>>[1] < <<y, x>>[2])
      BY <2>1, <1>3, Zenon DEF R
  <2> QED
      BY <2>1, <2>2
<1>5. PICK r \in S : x = n - r.id
    BY DEF T
<1>6. \A q \in S : n - r.id <= n - q.id
    BY <1>4, <1>5 DEF T
<1> QED
    BY <1>5, <1>6

\* The id of a reply on record is a number.
LEMMA ReplyNumber ==
    ASSUME WarningsTypeOK, NEW m \in Messages
    PROVE  GetWarningMessageID(m) \in Nat
<1>1. CASE RowsFor(m) = {}
    BY <1>1 DEF GetWarningMessageID
<1>2. CASE RowsFor(m) # {}
  <2>1. \A r \in RowsFor(m) : r.id \in Nat /\ r.id <= serial /\ r.reply \in Nat
      BY DEF RowsFor, WarningsTypeOK, Row
  <2>2. \E r \in RowsFor(m) : \A q \in RowsFor(m) : q.id <= r.id
      BY <1>2, <2>1, LatestRow DEF WarningsTypeOK
  <2>3. (CHOOSE r \in RowsFor(m) : \A q \in RowsFor(m) : q.id <= r.id)
            \in RowsFor(m)
      BY <2>2
  <2> QED
      BY <1>2, <2>1, <2>3 DEF GetWarningMessageID
<1> QED
    BY <1>1, <1>2

\* A message has a chat and a number.
LEMMA MessageParts ==
    \A m \in Messages : m.chat \in Chats /\ m.num \in Nat
BY MessagesAssumption DEF Chats

LEMMA Idle ==
    /\ NoJob \in Job /\ NoJob.step = "idle"
    /\ NoTurn \in Turn /\ NoTurn.step = "idle"
BY DEF NoJob, Job, NoTurn, Turn, NoUpdate

\* The plans that the models' answers lead to are plans.
LEMMA AnswerPlans ==
    \A a \in Answers : a.plan \in Seq(Actions)
<1>1. ASSUME NEW kind \in {"clean", "filter", "failed"}
      PROVE  Answer(kind, <<>>).plan \in Seq(Actions)
    BY DEF Answer
<1>2. ASSUME NEW p \in Plans
      PROVE  Answer("rules", p).plan \in Seq(Actions)
    BY PlansAssumption DEF Answer
<1> HIDE DEF Answer
<1> QED
    BY <1>1, <1>2 DEF Answers

LEMMA ReceiptPlans ==
    \A v \in Receipts : v.plan \in Seq(Actions)
<1>1. ASSUME NEW light \in Answers, NEW full \in Answers,
             NEW newcomer \in BOOLEAN
      PROVE  OnReceipt(light, full, newcomer).plan \in Seq(Actions)
  <2>1. DecideConfirmed(light, full).plan \in Seq(Actions)
      BY AnswerPlans, PlansAssumption
         DEF DecideConfirmed, ContentSecurity, Verdict, Cleared
  <2>2. DecideDoubleCheck(full).plan \in Seq(Actions)
      BY AnswerPlans, PlansAssumption
         DEF DecideDoubleCheck, ContentSecurity, Verdict, Cleared
  <2> QED
      BY <2>1, <2>2 DEF OnReceipt, Cleared, Verdict
<1> QED
    BY <1>1 DEF Receipts

LEMMA RejudgementPlans ==
    \A v \in Rejudgements : PlanOf(v) \in Seq(Actions)
<1>1. ASSUME NEW answers \in Answers \X Answers
      PROVE  AcrossModels(answers).plan \in Seq(Actions)
  <2> DEFINE hits == {i \in DOMAIN answers : Flagged(answers[i])}
             hit == CHOOSE i \in hits : \A j \in hits : i <= j
  <2>1. CASE hits = {}
      BY <2>1 DEF AcrossModels, Cleared, Verdict
  <2>2. CASE hits # {}
    <3>1. hits \subseteq 1..2
        OBVIOUS
    <3>2. \E i \in hits : \A j \in hits : i <= j
      <4>1. CASE 1 \in hits
          BY <3>1, <4>1
      <4>2. CASE 1 \notin hits
          BY <2>2, <3>1, <4>2
      <4> QED
          BY <4>1, <4>2
    <3>3. hit = 1 \/ hit = 2
        BY <3>1, <3>2
    <3> HIDE DEF hits, hit
    <3>4. answers[hit] \in Answers
        BY <3>3
    <3>5. AcrossModels(answers) \in
            {ContentSecurity, Verdict(answers[hit].plan, FALSE, FALSE)}
        BY <2>2 DEF AcrossModels, hits, hit
    <3> QED
        BY <3>4, <3>5, AnswerPlans, PlansAssumption DEF ContentSecurity, Verdict
  <2> QED
      BY <2>1, <2>2
<1>2. <<"report">> \in Seq(Actions)
    BY DEF Actions
<1>3. \A v \in Rejudgements : v.plan \in Seq(Actions)
    BY <1>1, Zenon DEF Rejudgements
<1> QED
    BY <1>2, <1>3 DEF PlanOf

-----------------------------------------------------------------------------
(* Types of the warnings                                                   *)

\* What is known of the goroutines' jobs.
JobsSound ==
    /\ job \in [Workers -> Job]
    /\ \A w \in Workers : job[w].step = "idle" <=> job[w] = NoJob
    /\ JobsAimed

\* What is known of the rest.
TablesSound ==
    /\ rows \subseteq Row
    /\ serial \in Nat
    /\ \A r \in rows : r.id <= serial
    /\ replies \subseteq Reply
    /\ stored \subseteq Reply
    /\ last \in [Chats -> Nat]
    /\ cards \subseteq Messages
    /\ calls \in 0..MaxCalls
    /\ faults \in 0..MaxFaults
    /\ upset \in [Messages -> SUBSET Reasons]

LEMMA WarningsParts ==
    /\ WarningsSound <=> JobsSound /\ TablesSound
    /\ WarningsSound' <=> JobsSound' /\ TablesSound'
BY DEF JobsAimed, WarningsSound, WarningsTypeOK, JobsSound, TablesSound

LEMMA WarningsFrame ==
    ASSUME WarningsSound, UNCHANGED warningVars
    PROVE  WarningsSound'
BY DEF WarningsSound, WarningsTypeOK, JobsAimed, warningVars

\* One goroutine's job is replaced by a job on a message, or by none.
LEMMA JobReplaced ==
    ASSUME JobsSound, NEW w \in Workers, NEW j \in Job,
           \/ j = NoJob
           \/ j.step # "idle" /\ j.msg \in Messages,
           job' = [job EXCEPT ![w] = j]
    PROVE  JobsSound'
<1>1. job' \in [Workers -> Job]
    BY DEF JobsSound
<1>2. job'[w] = j /\ \A v \in Workers \ {w} : job'[v] = job[v]
    BY DEF JobsSound
<1>3. j.step = "idle" <=> j = NoJob
    BY DEF NoJob
<1> QED
    BY <1>1, <1>2, <1>3 DEF JobsSound, JobsAimed

LEMMA JobMoved ==
    ASSUME JobsSound, NEW w \in Workers, job[w].step # "idle"
    PROVE  /\ Done(w) => JobsSound'
           /\ \A s \in {"send", "record", "unsend"} : Goto(w, s) => JobsSound'
<1>1. job[w] \in Job /\ job[w].msg \in Messages
    BY DEF JobsSound, JobsAimed
<1>2. ASSUME Done(w) PROVE JobsSound'
    BY <1>2, JobReplaced, Idle DEF Done
<1>3. ASSUME NEW s \in {"send", "record", "unsend"}, Goto(w, s)
      PROVE  JobsSound'
  <2> DEFINE j == [job[w] EXCEPT !.step = s]
  <2>1. j \in Job /\ j.step # "idle" /\ j.msg \in Messages
      BY <1>1 DEF Job
  <2>2. job' = [job EXCEPT ![w] = j]
      BY <1>3 DEF Goto
  <2> HIDE DEF j
  <2> QED
      BY <2>1, <2>2, JobReplaced
<1> QED
    BY <1>2, <1>3

\* A job that begins on a message.
LEMMA BeginSound ==
    ASSUME WarningsSound, NEW w \in Workers, NEW m \in Messages, NEW j \in Job,
           j.step # "idle", j.msg \in Messages, Begin(w, m, j)
    PROVE  JobsSound' /\ upset' \in [Messages -> SUBSET Reasons]
<1>1. JobsSound'
    BY JobReplaced, WarningsParts DEF Begin
<1>2. upset' \in [Messages -> SUBSET Reasons]
    BY DEF Begin, WarningsSound, WarningsTypeOK, Reasons
<1> QED
    BY <1>1, <1>2

LEMMA StartsSound ==
    ASSUME WarningsSound, NEW w \in Workers, NEW m \in Messages,
           \/ \E by \in Writers : StartWarning(w, m, by)
           \/ StartCancelling(w, m)
           \/ StartCreativeReply(w, m)
    PROVE  JobsSound' /\ upset' \in [Messages -> SUBSET Reasons]
<1>1. ASSUME NEW by \in Writers, StartWarning(w, m, by)
      PROVE  JobsSound' /\ upset' \in [Messages -> SUBSET Reasons]
  <2> DEFINE j == [NoJob EXCEPT !.by = by, !.step = "insert", !.msg = m]
  <2>1. j \in Job /\ j.step # "idle" /\ j.msg \in Messages
      BY DEF NoJob, Job
  <2>2. Begin(w, m, j)
      BY <1>1 DEF StartWarning
  <2> HIDE DEF j
  <2> QED
      BY <2>1, <2>2, BeginSound
<1>2. ASSUME StartCancelling(w, m)
      PROVE  JobsSound' /\ upset' \in [Messages -> SUBSET Reasons]
  <2> DEFINE j == [NoJob EXCEPT !.by = "cancel", !.step = "remove", !.msg = m,
                                !.reply = GetWarningMessageID(m)]
  <2>1. GetWarningMessageID(m) \in Nat
      BY ReplyNumber DEF WarningsSound
  <2>2. j \in Job /\ j.step # "idle" /\ j.msg \in Messages
      BY <2>1 DEF NoJob, Job
  <2>3. Begin(w, m, j)
      BY <1>2 DEF StartCancelling
  <2> HIDE DEF j
  <2> QED
      BY <2>2, <2>3, BeginSound
<1>3. ASSUME StartCreativeReply(w, m)
      PROVE  JobsSound' /\ upset' \in [Messages -> SUBSET Reasons]
  <2> DEFINE j == [NoJob EXCEPT !.by = "creative", !.step = "send", !.msg = m]
  <2>1. j \in Job /\ j.step # "idle" /\ j.msg \in Messages
      BY DEF NoJob, Job
  <2>2. Begin(w, m, j)
      BY <1>3 DEF StartCreativeReply
  <2> HIDE DEF j
  <2> QED
      BY <2>1, <2>2, BeginSound
<1> QED
    BY <1>1, <1>2, <1>3

LEMMA Counted ==
    ASSUME TablesSound
    PROVE  /\ Fault => faults' \in 0..MaxFaults
           /\ Call => calls' \in 0..MaxCalls
           /\ \A m \in Messages : \A why \in SUBSET Reasons :
                 Upset(m, why) => upset' \in [Messages -> SUBSET Reasons]
BY CallBoundsAssumption DEF TablesSound, Fault, Call, Upset

LEMMA AddWarningSound ==
    ASSUME WarningsSound, NEW w \in Workers, AddWarning(w)
    PROVE  WarningsSound'
<1> DEFINE m == job[w].msg
<1>1. JobsSound /\ TablesSound
    BY WarningsParts
<1>2. job[w].step # "idle" /\ m \in Messages
    BY <1>1 DEF AddWarning, At, JobsSound, JobsAimed
<1>3. \A n \in Nat : NewRow(n, m) \in Row /\ NewRow(n, m).id = n
    BY <1>2, MessageParts DEF NewRow, Row
<1>4. JobsSound'
    BY <1>1, <1>2, JobMoved DEF AddWarning
<1>5. serial \in Nat /\ \A r \in rows : r \in Row /\ r.id \in Nat /\ r.id <= serial
    BY <1>1 DEF TablesSound, Row
<1>6. rows' \subseteq Row /\ serial' \in Nat /\ \A r \in rows' : r.id <= serial'
  <2> HIDE DEF m
  <2>1. CASE rows' = rows \cup {NewRow(serial + 1, m)} /\ serial' = serial + 1
      BY <1>3, <1>5, <2>1
  <2>2. CASE /\ rows' = rows \cup {NewRow(serial + 1, m), NewRow(serial + 2, m)}
             /\ serial' = serial + 2
      BY <1>3, <1>5, <2>2
  <2>3. CASE UNCHANGED <<rows, serial>>
      BY <1>5, <2>3
  <2> QED
      BY <2>1, <2>2, <2>3 DEF AddWarning, m
<1>7. faults' \in 0..MaxFaults /\ upset' \in [Messages -> SUBSET Reasons]
  <2>1. {"resent"} \in SUBSET Reasons /\ {"lost"} \in SUBSET Reasons
      BY DEF Reasons
  <2>2. faults \in 0..MaxFaults /\ upset \in [Messages -> SUBSET Reasons]
      BY <1>1 DEF TablesSound
  <2> QED
      BY <1>1, <1>2, <2>1, <2>2, Counted DEF AddWarning
<1>8. TablesSound'
    BY <1>1, <1>6, <1>7 DEF TablesSound, AddWarning
<1> QED
    BY <1>4, <1>8, WarningsParts

LEMMA SendReplySound ==
    ASSUME WarningsSound, NEW w \in Workers, SendReply(w)
    PROVE  WarningsSound'
<1> DEFINE m == job[w].msg
<1>1. JobsSound /\ TablesSound
    BY WarningsParts
<1>2. job[w] \in Job /\ job[w].step # "idle" /\ m \in Messages /\ m.chat \in Chats
    BY <1>1, MessageParts DEF SendReply, At, JobsSound, JobsAimed
<1>3. last[m.chat] \in Nat /\ NewReply(w) \in Reply /\ NewReply(w).num \in Nat
    BY <1>1, <1>2, MessageParts DEF TablesSound, NewReply, Reply
<1>4. CASE Delivered(w) /\ replies' = replies \cup {NewReply(w)}
           /\ stored' = stored \cup {NewReply(w)}
           /\ last' = [last EXCEPT ![m.chat] = @ + 1] /\ UNCHANGED faults
           /\ (Upset(m, {"untracked"}) \/ UNCHANGED upset)
  <2>1. JobsSound'
    <3>1. CASE job' = [job EXCEPT ![w].step = "record",
                                  ![w].reply = NewReply(w).num]
      <4> DEFINE j == [job[w] EXCEPT !.step = "record", !.reply = NewReply(w).num]
      <4>1. j \in Job /\ j.step # "idle" /\ j.msg \in Messages
          BY <1>2, <1>3 DEF Job
      <4>2. job' = [job EXCEPT ![w] = j]
          BY <3>1, <1>1 DEF JobsSound
      <4> HIDE DEF j
      <4> QED
          BY <4>1, <4>2, <1>1, JobReplaced
    <3>2. CASE Done(w)
        BY <3>2, <1>1, <1>2, JobMoved
    <3> QED
        BY <3>1, <3>2, <1>4 DEF Delivered
  <2>2. upset' \in [Messages -> SUBSET Reasons]
    <3>1. {"untracked"} \in SUBSET Reasons
        BY DEF Reasons
    <3>2. upset \in [Messages -> SUBSET Reasons]
        BY <1>1 DEF TablesSound
    <3> QED
        BY <3>1, <3>2, <1>1, <1>2, <1>4, Counted
  <2>3. last' \in [Chats -> Nat]
      BY <1>1, <1>2, <1>3, <1>4 DEF TablesSound
  <2>4. replies' \subseteq Reply /\ stored' \subseteq Reply
      BY <1>1, <1>3, <1>4 DEF TablesSound
  <2>5. TablesSound'
      BY <1>1, <1>4, <2>2, <2>3, <2>4 DEF TablesSound, SendReply
  <2> QED
      BY <2>1, <2>5, WarningsParts
<1>5. CASE Fault /\ Done(w) /\ UNCHANGED <<replies, stored, last, upset>>
  <2>1. JobsSound'
      BY <1>1, <1>2, <1>5, JobMoved
  <2>2. TablesSound'
      BY <1>1, <1>5, Counted DEF TablesSound, SendReply
  <2> QED
      BY <2>1, <2>2, WarningsParts
<1> QED
    BY <1>4, <1>5 DEF SendReply

LEMMA OtherStepsSound ==
    ASSUME WarningsSound, NEW w \in Workers,
           \/ UpdateWarningMessageID(w)
           \/ RemoveWarningForMessage(w)
           \/ DeleteBotWarningReply(w)
    PROVE  WarningsSound'
<1>1. JobsSound /\ TablesSound
    BY WarningsParts
<1>2. job[w] \in Job /\ job[w].step # "idle" /\ job[w].msg \in Messages
    BY <1>1 DEF JobsSound, JobsAimed, At, UpdateWarningMessageID,
                RemoveWarningForMessage, DeleteBotWarningReply
<1>3. JobsSound'
    BY <1>1, <1>2, JobMoved DEF UpdateWarningMessageID,
        RemoveWarningForMessage, DeleteBotWarningReply
<1>4. CASE UpdateWarningMessageID(w)
  <2>1. \A r \in rows : /\ [r EXCEPT !.reply = job[w].reply] \in Row
                        /\ [r EXCEPT !.reply = job[w].reply].id = r.id
      BY <1>1, <1>2 DEF TablesSound, Row, Job
  <2>2. rows' \subseteq Row /\ \A r \in rows' : r.id <= serial
      BY <1>1, <1>4, <2>1 DEF UpdateWarningMessageID, TablesSound
  <2>3. TablesSound'
      BY <1>1, <1>4, <2>2 DEF UpdateWarningMessageID, TablesSound
  <2> QED
      BY <1>3, <2>3, WarningsParts
<1>5. CASE RemoveWarningForMessage(w)
  <2>1. TablesSound'
      BY <1>1, <1>5 DEF RemoveWarningForMessage, TablesSound
  <2> QED
      BY <1>3, <2>1, WarningsParts
<1>6. CASE DeleteBotWarningReply(w)
  <2>1. faults' \in 0..MaxFaults /\ upset' \in [Messages -> SUBSET Reasons]
    <3>1. {"refused"} \in SUBSET Reasons
        BY DEF Reasons
    <3>2. /\ faults \in 0..MaxFaults
          /\ upset \in [Messages -> SUBSET Reasons]
        BY <1>1 DEF TablesSound
    <3> QED
        BY <1>1, <1>2, <1>6, <3>1, <3>2, Counted DEF DeleteBotWarningReply
  <2>2. replies' \subseteq Reply
      BY <1>1, <1>6 DEF DeleteBotWarningReply, TablesSound
  <2>3. TablesSound'
      BY <1>1, <1>6, <2>1, <2>2 DEF DeleteBotWarningReply, TablesSound
  <2> QED
      BY <1>3, <2>3, WarningsParts
<1> QED
    BY <1>4, <1>5, <1>6

LEMMA WarningStepSound ==
    ASSUME WarningsSound, NEW w \in Workers, WarningStep(w)
    PROVE  WarningsSound'
BY AddWarningSound, SendReplySound, OtherStepsSound DEF WarningStep

-----------------------------------------------------------------------------
(* Turns                                                                   *)

\* No goroutine takes up a plan.
NoNewDispatch ==
    \A m \in Messages, w \in Workers : Dispatching(w, m)' => Dispatching(w, m)

\* The turns keep their types, and no plan is taken up.
Moved == turn' \in [Workers -> Turn] /\ TurnsAimed' /\ NoNewDispatch

\* A claim is given up only while no plan is carried out, or the message
\* becomes loose.
ClaimsHeld ==
    /\ loose \subseteq loose'
    /\ \A m \in claims : (\E w \in Workers : Dispatching(w, m))
                            => m \in claims' \cup loose'

\* What no plan is taken up in, and no claim silently given up, keeps the claims
\* exclusive.
LEMMA HeldExclusive ==
    ASSUME OneDispatchPerClaim, NoNewDispatch, ClaimsHeld
    PROVE  OneDispatchPerClaim'
BY DEF OneDispatchPerClaim, NoNewDispatch, ClaimsHeld

LEMMA ClaimsUnchanged ==
    ASSUME UNCHANGED <<claims, loose>>
    PROVE  ClaimsHeld
BY DEF ClaimsHeld

LEMMA GivenUp ==
    ASSUME TurnsSound, NEW m \in Messages, GiveUpClaim(m)
    PROVE  /\ claims' \subseteq Messages
           /\ loose' \subseteq Messages
           /\ ClaimsHeld
BY DEF TurnsSound, TurnsTypeOK, GiveUpClaim, ClaimsHeld

\* A turn is replaced by one that is about a message, or by none.
LEMMA TurnReplaced ==
    ASSUME TurnsSound, NEW w \in Workers, NEW t \in Turn,
           t.step # "idle" => t.msg \in Messages,
           t.step \in {"record", "save", "judge"} => t.ver \in Nat,
           turn' = [turn EXCEPT ![w] = t]
    PROVE  /\ turn' \in [Workers -> Turn] /\ TurnsAimed'
           /\ (t.step = "dispatch" => /\ turn[w].step = "dispatch"
                                      /\ t.msg = turn[w].msg) => NoNewDispatch
<1>1. turn \in [Workers -> Turn] /\ TurnsAimed
    BY DEF TurnsSound, TurnsTypeOK
<1>2. turn'[w] = t /\ \A v \in Workers \ {w} : turn'[v] = turn[v]
    BY <1>1
<1>3. turn' \in [Workers -> Turn]
    BY <1>1
<1>4. TurnsAimed'
    BY <1>1, <1>2 DEF TurnsAimed
<1>5. ASSUME t.step = "dispatch" => /\ turn[w].step = "dispatch"
                                    /\ t.msg = turn[w].msg
      PROVE  NoNewDispatch
    BY <1>2, <1>5 DEF NoNewDispatch, Dispatching
<1> QED
    BY <1>3, <1>4, <1>5

\* The ways in which a turn goes on.
LEMMA TurnEnds ==
    ASSUME TurnsSound, NEW w \in Workers, EndTurn(w)
    PROVE  Moved /\ pending' \subseteq Update
<1>1. Moved
    BY TurnReplaced, Idle DEF EndTurn, Moved
<1>2. pending' \subseteq Update
    BY DEF EndTurn, TurnsSound, TurnsTypeOK
<1> QED
    BY <1>1, <1>2

LEMMA TurnSteps ==
    ASSUME TurnsSound, NEW w \in Workers, turn[w].step # "idle",
           NEW s \in {"save", "judge"}, turn[w].ver \in Nat, Step(w, s)
    PROVE  Moved
<1> DEFINE t == [turn[w] EXCEPT !.step = s]
<1>1. turn[w] \in Turn /\ turn[w].msg \in Messages
    BY DEF TurnsSound, TurnsTypeOK, TurnsAimed
<1>2. t \in Turn /\ t.step = s /\ t.msg = turn[w].msg /\ t.ver = turn[w].ver
    BY <1>1 DEF Turn
<1>3. turn' = [turn EXCEPT ![w] = t]
    BY DEF Step
<1> HIDE DEF t
<1> QED
    BY <1>1, <1>2, <1>3, TurnReplaced DEF Moved

LEMMA TurnClaims ==
    ASSUME TurnsSound, NEW w \in Workers, turn[w].step # "idle",
           NEW p \in Seq(Actions),
           turn' = [turn EXCEPT ![w].step = "claim", ![w].plan = p]
    PROVE  Moved
<1> DEFINE t == [turn[w] EXCEPT !.step = "claim", !.plan = p]
<1>1. turn[w] \in Turn /\ turn[w].msg \in Messages
    BY DEF TurnsSound, TurnsTypeOK, TurnsAimed
<1>2. t \in Turn /\ t.step = "claim" /\ t.msg = turn[w].msg
    BY <1>1 DEF Turn
<1>3. turn' = [turn EXCEPT ![w] = t]
    BY DEF TurnsSound, TurnsTypeOK
<1> HIDE DEF t
<1> QED
    BY <1>1, <1>2, <1>3, TurnReplaced DEF Moved

LEMMA TurnPlans ==
    ASSUME TurnsSound, NEW w \in Workers, turn[w].step = "dispatch",
           NEW p \in Seq(Actions), turn' = [turn EXCEPT ![w].plan = p]
    PROVE  Moved
<1> DEFINE t == [turn[w] EXCEPT !.plan = p]
<1>1. turn[w] \in Turn /\ turn[w].msg \in Messages
    BY DEF TurnsSound, TurnsTypeOK, TurnsAimed
<1>2. t \in Turn /\ t.step = "dispatch" /\ t.msg = turn[w].msg
    BY <1>1 DEF Turn
<1>3. turn' = [turn EXCEPT ![w] = t]
    OBVIOUS
<1> HIDE DEF t
<1> QED
    BY <1>1, <1>2, <1>3, TurnReplaced DEF Moved

\* The rest of a plan is a plan.
LEMMA RestOfPlan ==
    ASSUME TurnsSound, NEW w \in Workers, turn[w].step = "dispatch",
           turn[w].plan # <<>>
    PROVE  /\ NextAction(w) => Moved /\ pending' \subseteq Update
           /\ Tail(turn[w].plan) \in Seq(Actions)
<1>1. turn[w].plan \in Seq(Actions)
    BY DEF TurnsSound, TurnsTypeOK, Turn
<1>2. Tail(turn[w].plan) \in Seq(Actions)
    BY <1>1
<1>3. ASSUME NextAction(w) PROVE Moved /\ pending' \subseteq Update
  <2>1. CASE EndTurn(w)
      BY <2>1, TurnEnds
  <2>2. CASE /\ turn' = [turn EXCEPT ![w].plan = Tail(turn[w].plan)]
             /\ UNCHANGED pending
      BY <1>2, <2>2, TurnPlans DEF TurnsSound, TurnsTypeOK
  <2> QED
      BY <1>3, <2>1, <2>2 DEF NextAction
<1> QED
    BY <1>2, <1>3

-----------------------------------------------------------------------------
(* Steps                                                                   *)

\* The types of all that is neither a turn nor a job.
DataTypeOK ==
    /\ shown \in [Messages -> 0..MaxVersion]
    /\ alive \in [Messages -> BOOLEAN]
    /\ pending \subseteq Update
    /\ seen \subseteq Update
    /\ info \in [Messages -> Info]
    /\ claims \subseteq Messages
    /\ judged \in [Messages -> SUBSET Nat]
    /\ loose \subseteq Messages
    /\ acted \in [Messages -> BOOLEAN]

LEMMA DataParts == TurnsTypeOK => DataTypeOK
BY DEF TurnsTypeOK, DataTypeOK

\* What a step has to show.
LEMMA StepKeeps ==
    ASSUME MInv, WarningsSound', Moved, ClaimsHeld, DataTypeOK'
    PROVE  MInv'
<1>1. TurnsSound'
    BY DEF Moved, DataTypeOK, TurnsSound, TurnsTypeOK
<1>2. OneDispatchPerClaim'
    BY HeldExclusive DEF MInv, Moved
<1> QED
    BY <1>1, <1>2 DEF MInv

LEMMA StillMoved ==
    ASSUME TurnsSound, UNCHANGED turn
    PROVE  Moved
BY DEF TurnsSound, TurnsTypeOK, Moved, TurnsAimed, NoNewDispatch, Dispatching

\* Warnings changes nothing of Moderation's.
LEMMA ModerationFrame ==
    ASSUME MInv, WarningsSound', UNCHANGED moderationVars
    PROVE  MInv'
<1>1. Moved /\ ClaimsHeld
    BY StillMoved, ClaimsUnchanged DEF MInv, moderationVars
<1>2. DataTypeOK'
    BY DataParts DEF MInv, TurnsSound, DataTypeOK, moderationVars, chatVars
<1> QED
    BY <1>1, <1>2, StepKeeps

\* A user posts or edits.
LEMMA ChatKeeps ==
    ASSUME MInv, NEW m \in Messages, Post(m) \/ Edit(m)
    PROVE  MInv'
<1>1. WarningsSound'
    BY WarningsFrame DEF MInv, Post, Edit
<1>2. Moved /\ ClaimsHeld
    BY StillMoved, ClaimsUnchanged DEF MInv, Post, Edit
<1>3. DataTypeOK
    BY DataParts DEF MInv, TurnsSound
<1>4. CASE Post(m)
  <2>1. [msg |-> m, ver |-> 1, kind |-> "new"] \in Update
      BY DEF Update
  <2>2. shown' \in [Messages -> 0..MaxVersion] /\ pending' \subseteq Update
      BY <1>3, <1>4, <2>1, VersionsAssumption DEF Post, DataTypeOK
  <2>3. DataTypeOK'
      BY <1>3, <1>4, <2>2 DEF Post, DataTypeOK
  <2> QED
      BY <1>1, <1>2, <2>3, StepKeeps
<1>5. CASE Edit(m)
  <2>1. shown[m] \in 1..(MaxVersion - 1) /\ MaxVersion \in Nat
      BY <1>5, VersionsAssumption DEF Edit
  <2>2. [msg |-> m, ver |-> shown[m] + 1, kind |-> "edit"] \in Update
      BY <2>1 DEF Update
  <2>3. pending' \subseteq Update
      BY <1>3, <1>5, <2>2 DEF Edit, DataTypeOK
  <2>4. shown' \in [Messages -> 0..MaxVersion]
      BY <1>3, <1>5, <2>1 DEF Edit, DataTypeOK
  <2>5. DataTypeOK'
      BY <1>3, <1>5, <2>3, <2>4 DEF Edit, DataTypeOK
  <2> QED
      BY <1>1, <1>2, <2>5, StepKeeps
<1> QED
    BY <1>4, <1>5

\* An update is claimed.
LEMMA ProcessUpdateKeeps ==
    ASSUME MInv, NEW w \in Workers, NEW u \in pending, ProcessUpdate(w, u)
    PROVE  MInv'
<1> DEFINE t == [NoTurn EXCEPT !.step = "record", !.upd = u,
                               !.msg = u.msg, !.ver = u.ver]
<1>1. WarningsSound'
    BY WarningsFrame DEF MInv, ProcessUpdate
<1>2. DataTypeOK /\ u \in Update
    BY DataParts DEF MInv, TurnsSound, DataTypeOK
<1>3. u.msg \in Messages /\ u.ver \in Nat
    BY <1>2 DEF Update
<1>4. t \in Turn /\ t.step = "record" /\ t.msg \in Messages /\ t.ver \in Nat
    BY <1>2, <1>3, Idle DEF Turn, NoTurn
<1>5. turn' = [turn EXCEPT ![w] = t]
    BY DEF ProcessUpdate
<1> HIDE DEF t
<1>6. Moved
    BY <1>4, <1>5, TurnReplaced DEF MInv, Moved
<1>7. ClaimsHeld
    BY ClaimsUnchanged DEF ProcessUpdate
<1>8. DataTypeOK'
    BY <1>2 DEF ProcessUpdate, DataTypeOK, chatVars
<1> QED
    BY <1>1, <1>6, <1>7, <1>8, StepKeeps

\* What a goroutine in a turn is about.
LEMMA TurnAbout ==
    ASSUME MInv, NEW w \in Workers, turn[w].step # "idle"
    PROVE  /\ turn[w] \in Turn
           /\ turn[w].msg \in Messages
           /\ turn[w].step \in {"record", "save", "judge"} => turn[w].ver \in Nat
BY DEF MInv, TurnsSound, TurnsTypeOK, TurnsAimed

\* The stages before the text.
LEMMA StagesKeep ==
    ASSUME MInv, NEW w \in Workers, StageSilence(w) \/ StageFlagged(w)
    PROVE  MInv'
<1> DEFINE m == turn[w].msg
<1>1. turn[w].step = "record"
    BY DEF StageSilence, StageFlagged, In
<1>2. m \in Messages /\ turn[w].ver \in Nat
    BY <1>1, TurnAbout
<1>3. DataTypeOK /\ TurnsSound /\ WarningsSound /\ JobsSound /\ TablesSound
    BY DataParts, WarningsParts DEF MInv, TurnsSound
<1>4. ClaimsHeld
    BY ClaimsUnchanged DEF StageSilence, StageFlagged
<1>5. CASE StageSilence(w)
  <2>1. Moved /\ pending' \subseteq Update
      BY <1>3, <1>5, TurnEnds DEF StageSilence
  <2>2. {"cut"} \in SUBSET Reasons
      BY DEF Reasons
  <2>3. faults' \in 0..MaxFaults /\ upset' \in [Messages -> SUBSET Reasons]
    <3>1. faults \in 0..MaxFaults /\ upset \in [Messages -> SUBSET Reasons]
        BY <1>3 DEF TablesSound
    <3> QED
        BY <1>2, <1>3, <1>5, <2>2, <3>1, Counted DEF StageSilence
  <2>4. WarningsSound'
    <3>1. JobsSound' /\ TablesSound'
        BY <1>3, <1>5, <2>3
           DEF StageSilence, JobsSound, JobsAimed, TablesSound
    <3> QED
        BY <3>1, WarningsParts
  <2>5. alive' \in [Messages -> BOOLEAN]
      BY <1>2, <1>3, <1>5 DEF StageSilence, DataTypeOK
  <2>6. DataTypeOK'
      BY <1>3, <1>5, <2>1, <2>5 DEF StageSilence, DataTypeOK
  <2> QED
      BY <1>4, <2>1, <2>4, <2>6, StepKeeps
<1>6. CASE StageFlagged(w)
  <2>1. WarningsSound'
      BY <1>3, <1>6, WarningsFrame DEF StageFlagged
  <2>2. Moved /\ pending' \subseteq Update
    <3>1. CASE EndTurn(w)
        BY <1>3, <3>1, TurnEnds
    <3>2. CASE /\ turn' = [turn EXCEPT ![w].step = "claim", ![w].plan = CSPlan]
               /\ UNCHANGED pending
        BY <1>1, <1>3, <3>2, TurnClaims, PlansAssumption DEF DataTypeOK
    <3> QED
        BY <1>6, <3>1, <3>2 DEF StageFlagged
  <2>3. judged' \in [Messages -> SUBSET Nat]
      BY <1>2, <1>3, <1>6 DEF StageFlagged, DataTypeOK
  <2>4. DataTypeOK'
      BY <1>3, <1>6, <2>2, <2>3 DEF StageFlagged, DataTypeOK, chatVars
  <2> QED
      BY <1>4, <2>1, <2>2, <2>4, StepKeeps
<1> QED
    BY <1>5, <1>6

\* The text is stored.
LEMMA RecordingKeeps ==
    ASSUME MInv, NEW w \in Workers,
           \/ RecordNewMessage(w) \/ RecordEditedMessage(w)
           \/ UpdateMessageInfo(w)
    PROVE  MInv'
<1> DEFINE m == turn[w].msg
<1>1. turn[w].step \in {"record", "save"}
    BY DEF RecordNewMessage, RecordEditedMessage, UpdateMessageInfo, In
<1>2. m \in Messages /\ turn[w].ver \in Nat
    BY <1>1, TurnAbout
<1>3. DataTypeOK /\ TurnsSound /\ WarningsSound
    BY DataParts DEF MInv, TurnsSound
<1>4. WarningsSound'
    BY <1>3, WarningsFrame
       DEF RecordNewMessage, RecordEditedMessage, UpdateMessageInfo
<1>5. ClaimsHeld
    BY ClaimsUnchanged
       DEF RecordNewMessage, RecordEditedMessage, UpdateMessageInfo
<1>6. Moved /\ pending' \subseteq Update
  <2>1. CASE EndTurn(w)
      BY <1>3, <2>1, TurnEnds
  <2>2. CASE (Step(w, "save") \/ Step(w, "judge")) /\ UNCHANGED pending
      BY <1>1, <1>2, <1>3, <2>2, TurnSteps DEF DataTypeOK
  <2> QED
      BY <2>1, <2>2
         DEF RecordNewMessage, RecordEditedMessage, UpdateMessageInfo
<1>7. info' \in [Messages -> Info]
  <2>1. info[m] \in Info
      BY <1>2, <1>3 DEF DataTypeOK
  <2>2. [info[m] EXCEPT !.text = turn[w].ver] \in Info
      BY <1>2, <2>1 DEF Info
  <2>3. CASE UNCHANGED info
      BY <1>3, <2>3 DEF DataTypeOK
  <2>4. CASE info' = [info EXCEPT ![m] = [info[m] EXCEPT !.text = turn[w].ver]]
      BY <1>2, <1>3, <2>2, <2>4 DEF DataTypeOK
  <2> QED
      BY <2>3, <2>4 DEF RecordNewMessage, RecordEditedMessage,
                        UpdateMessageInfo, Upserted
<1>8. DataTypeOK'
    BY <1>3, <1>6, <1>7 DEF RecordNewMessage, RecordEditedMessage,
                             UpdateMessageInfo, DataTypeOK, chatVars
<1> QED
    BY <1>4, <1>5, <1>6, <1>8, StepKeeps

\* A row whose text may give way to the placeholder is a row.
LEMMA BlankedType ==
    ASSUME NEW i \in Info, NEW v
    PROVE  Blanked(i, v) \in Info
BY DEF Blanked, Info, Removed

\* The models answer on receipt.
LEMMA ModerateMessageKeeps ==
    ASSUME MInv, NEW w \in Workers, ModerateMessage(w)
    PROVE  MInv'
<1> DEFINE m == turn[w].msg
<1>1. turn[w].step = "judge"
    BY DEF ModerateMessage, In
<1>2. m \in Messages /\ turn[w].ver \in Nat
    BY <1>1, TurnAbout
<1>3. DataTypeOK /\ TurnsSound /\ WarningsSound /\ JobsSound /\ TablesSound
    BY DataParts, WarningsParts DEF MInv, TurnsSound
<1>4. PICK v \in Receipts :
        /\ info' = [info EXCEPT ![m] = Blanked(info[m], v)]
        /\ IF v.plan = <<>>
           THEN /\ EndTurn(w)
                /\ Features(w, m) \/ UNCHANGED <<job, upset>>
           ELSE /\ turn' = [turn EXCEPT ![w].step = "claim",
                                        ![w].plan = v.plan]
                /\ UNCHANGED <<pending, job, upset>>
    BY DEF ModerateMessage
<1>5. ClaimsHeld
    BY ClaimsUnchanged DEF ModerateMessage
<1>6. Moved /\ pending' \subseteq Update
  <2>1. CASE EndTurn(w)
      BY <1>3, <2>1, TurnEnds
  <2>2. CASE /\ turn' = [turn EXCEPT ![w].step = "claim", ![w].plan = v.plan]
             /\ UNCHANGED pending
      BY <1>1, <1>3, <2>2, TurnClaims, ReceiptPlans DEF DataTypeOK
  <2> QED
      BY <1>4, <2>1, <2>2
<1>7. JobsSound' /\ upset' \in [Messages -> SUBSET Reasons]
  <2>1. CASE StartCreativeReply(w, m)
      BY <1>2, <1>3, <2>1, StartsSound
  <2>2. CASE UNCHANGED <<job, upset>>
      BY <1>3, <2>2 DEF JobsSound, JobsAimed, TablesSound
  <2> QED
      BY <1>4, <2>1, <2>2 DEF Features
<1>8. TablesSound'
    BY <1>3, <1>7 DEF ModerateMessage, TablesSound
<1>9. info' \in [Messages -> Info] /\ judged' \in [Messages -> SUBSET Nat]
  <2>1. Blanked(info[m], v) \in Info
      BY <1>2, <1>3, BlankedType DEF DataTypeOK
  <2>2. info' \in [Messages -> Info]
      BY <1>3, <1>4, <2>1 DEF DataTypeOK
  <2>3. judged' \in [Messages -> SUBSET Nat]
      BY <1>2, <1>3 DEF ModerateMessage, DataTypeOK
  <2> QED
      BY <2>2, <2>3
<1>10. DataTypeOK'
    BY <1>3, <1>6, <1>9 DEF ModerateMessage, DataTypeOK, chatVars
<1> QED
    BY <1>5, <1>6, <1>7, <1>8, <1>10, StepKeeps, WarningsParts

\* A message is to be judged again, and its claim is given up.
LEMMA RemoderateKeeps ==
    ASSUME MInv, NEW w \in Workers, NEW m \in Messages, Remoderate(w, m)
    PROVE  MInv'
<1> DEFINE t == [NoTurn EXCEPT !.step = "rejudge", !.msg = m,
                               !.ver = info[m].text]
<1>1. DataTypeOK /\ TurnsSound /\ WarningsSound /\ JobsSound /\ TablesSound
    BY DataParts, WarningsParts DEF MInv, TurnsSound
<1>2. info[m].text \in {Removed} \cup Nat
    BY <1>1 DEF DataTypeOK, Info
<1>3. t \in Turn /\ t.step = "rejudge" /\ t.msg \in Messages
    BY <1>2, Idle DEF Turn, NoTurn
<1>4. turn' = [turn EXCEPT ![w] = t]
    BY DEF Remoderate
<1> HIDE DEF t
<1>5. Moved
    BY <1>1, <1>3, <1>4, TurnReplaced DEF Moved
<1>6. claims' \subseteq Messages /\ loose' \subseteq Messages /\ ClaimsHeld
    BY <1>1, GivenUp DEF Remoderate
<1>7. WarningsSound'
  <2>1. calls' \in 0..MaxCalls
      BY <1>1, Counted DEF Remoderate
  <2>2. JobsSound' /\ TablesSound'
      BY <1>1, <2>1 DEF Remoderate, JobsSound, JobsAimed, TablesSound
  <2> QED
      BY <2>2, WarningsParts
<1>8. DataTypeOK'
    BY <1>1, <1>6 DEF Remoderate, DataTypeOK, chatVars
<1> QED
    BY <1>5, <1>6, <1>7, <1>8, StepKeeps

\* The models answer again.
LEMMA RemoderateAcrossModelsKeeps ==
    ASSUME MInv, NEW w \in Workers, RemoderateAcrossModels(w)
    PROVE  MInv'
<1> DEFINE m == turn[w].msg
<1>1. turn[w].step = "rejudge"
    BY DEF RemoderateAcrossModels, In
<1>2. turn[w] \in Turn /\ m \in Messages
    BY <1>1, TurnAbout
<1>3. DataTypeOK /\ TurnsSound /\ WarningsSound /\ JobsSound /\ TablesSound
    BY DataParts, WarningsParts DEF MInv, TurnsSound
<1>4. PICK v \in Rejudgements :
        /\ info' = [info EXCEPT ![m] = Blanked(info[m], v)]
        /\ IF v.plan = <<>> /\ ~v.filter
           THEN /\ EndTurn(w)
                /\ SendModerationCard(m) \/ UNCHANGED cards
           ELSE /\ turn' = [turn EXCEPT ![w].step = "claim",
                                        ![w].plan = PlanOf(v)]
                /\ UNCHANGED <<pending, cards>>
    BY DEF RemoderateAcrossModels
<1>5. ClaimsHeld
    BY ClaimsUnchanged DEF RemoderateAcrossModels
<1>6. Moved /\ pending' \subseteq Update
  <2>1. CASE EndTurn(w)
      BY <1>3, <2>1, TurnEnds
  <2>2. CASE /\ turn' = [turn EXCEPT ![w].step = "claim",
                                     ![w].plan = PlanOf(v)]
             /\ UNCHANGED pending
      BY <1>1, <1>3, <2>2, TurnClaims, RejudgementPlans DEF DataTypeOK
  <2> QED
      BY <1>4, <2>1, <2>2
<1>7. WarningsSound'
  <2>1. cards' \subseteq Messages
      BY <1>2, <1>3, <1>4 DEF SendModerationCard, TablesSound
  <2>2. JobsSound' /\ TablesSound'
      BY <1>3, <2>1
         DEF RemoderateAcrossModels, JobsSound, JobsAimed, TablesSound
  <2> QED
      BY <2>2, WarningsParts
<1>8. info' \in [Messages -> Info] /\ judged' \in [Messages -> SUBSET Nat]
  <2>1. Blanked(info[m], v) \in Info
      BY <1>2, <1>3, BlankedType DEF DataTypeOK
  <2>2. info' \in [Messages -> Info]
      BY <1>3, <1>4, <2>1 DEF DataTypeOK
  <2>3. {turn[w].ver} \ {Removed} \subseteq Nat
      BY <1>2 DEF Turn
  <2>4. judged' \in [Messages -> SUBSET Nat]
      BY <1>2, <1>3, <2>3 DEF RemoderateAcrossModels, DataTypeOK
  <2> QED
      BY <2>2, <2>4
<1>9. DataTypeOK'
    BY <1>3, <1>6, <1>8 DEF RemoderateAcrossModels, DataTypeOK, chatVars
<1> QED
    BY <1>5, <1>6, <1>7, <1>9, StepKeeps

\* A verdict claims the message: nobody else carries a plan out on it, because
\* whoever does holds the claim.
LEMMA HandleBadWordDetectedKeeps ==
    ASSUME MInv, NEW w \in Workers, HandleBadWordDetected(w)
    PROVE  MInv'
<1> DEFINE m == turn[w].msg
<1>1. turn[w].step = "claim"
    BY DEF HandleBadWordDetected, In
<1>2. turn[w] \in Turn /\ m \in Messages
    BY <1>1, TurnAbout
<1>3. DataTypeOK /\ TurnsSound /\ WarningsSound
    BY DataParts DEF MInv, TurnsSound
<1>4. WarningsSound'
    BY <1>3, WarningsFrame DEF HandleBadWordDetected
<1>5. CASE m \in claims
  <2>1. EndTurn(w) /\ UNCHANGED <<claims, info, acted>>
      BY <1>5 DEF HandleBadWordDetected, Claimed
  <2>2. Moved /\ pending' \subseteq Update /\ ClaimsHeld
      BY <1>3, <2>1, TurnEnds, ClaimsUnchanged DEF HandleBadWordDetected
  <2>3. DataTypeOK'
      BY <1>3, <2>1, <2>2 DEF HandleBadWordDetected, DataTypeOK, chatVars
  <2> QED
      BY <1>4, <2>2, <2>3, StepKeeps
<1>6. CASE m \notin claims
  <2>1. /\ claims' = claims \cup {m}
        /\ acted' = [acted EXCEPT ![m] = FALSE]
        /\ info' \in {info, [info EXCEPT ![m].reason = @ \/ Recorded(m)]}
        /\ Step(w, "dispatch")
        /\ UNCHANGED <<pending, chatVars, seen, judged, loose>>
      BY <1>6 DEF HandleBadWordDetected, Claimed
  <2> DEFINE t == [turn[w] EXCEPT !.step = "dispatch"]
  <2>2. t \in Turn /\ t.step = "dispatch" /\ t.msg = m
      BY <1>2 DEF Turn
  <2>3. turn' = [turn EXCEPT ![w] = t]
      BY <2>1 DEF Step
  <2> HIDE DEF t
  <2>4. turn' \in [Workers -> Turn] /\ TurnsAimed'
      BY <1>2, <1>3, <2>2, <2>3, TurnReplaced
  <2>5. \A v \in Workers : \A n \in Messages :
            Dispatching(v, n)' => \/ Dispatching(v, n)
                                  \/ v = w /\ n = m
      BY <1>3, <2>2, <2>3 DEF Dispatching, TurnsSound, TurnsTypeOK
  <2>6. OneDispatchPerClaim'
      BY <1>6, <2>1, <2>5 DEF MInv, OneDispatchPerClaim
  <2>7. info' \in [Messages -> Info]
    <3>1. info[m] \in Info /\ Recorded(m) \in BOOLEAN
        BY <1>2, <1>3 DEF DataTypeOK, Recorded
    <3>2. info[m].reason \in BOOLEAN
        BY <3>1 DEF Info
    <3>3. ASSUME NEW b \in BOOLEAN PROVE [info[m] EXCEPT !.reason = b] \in Info
        BY <3>1 DEF Info
    <3>4. [info[m] EXCEPT !.reason = @ \/ Recorded(m)] \in Info
        BY <3>1, <3>2, <3>3, Zenon
    <3>5. CASE info' = [info EXCEPT ![m] = [info[m] EXCEPT !.reason =
                                               @ \/ Recorded(m)]]
        BY <1>3, <3>4, <3>5 DEF DataTypeOK
    <3>6. CASE info' = info
        BY <1>3, <3>6 DEF DataTypeOK
    <3> QED
        BY <2>1, <3>5, <3>6
  <2>8. TurnsSound'
      BY <1>2, <1>3, <2>1, <2>4, <2>7
         DEF TurnsSound, TurnsTypeOK, DataTypeOK, chatVars
  <2> QED
      BY <1>4, <2>6, <2>8 DEF MInv
<1> QED
    BY <1>5, <1>6

\* The plan is carried out, one action at a time.
LEMMA ActingKeeps ==
    ASSUME MInv, NEW w \in Workers,
           \/ AutoModerateReport(w) \/ AutoModerateDelete(w)
           \/ AutoModerateMute(w) \/ AutoModerateRefused(w)
           \/ AutoModerateWarn(w) \/ WarningWasLast(w)
    PROVE  MInv'
<1> DEFINE m == turn[w].msg
<1> USE DEF Acts
<1>1. turn[w].step = "dispatch"
    BY DEF AutoModerateReport, AutoModerateDelete, AutoModerateMute,
           AutoModerateRefused, AutoModerateWarn, WarningWasLast, In
<1>2. turn[w] \in Turn /\ m \in Messages
    BY <1>1, TurnAbout
<1>3. DataTypeOK /\ TurnsSound /\ WarningsSound /\ JobsSound /\ TablesSound
    BY DataParts, WarningsParts DEF MInv, TurnsSound
<1>4. ClaimsHeld
    BY ClaimsUnchanged
       DEF AutoModerateReport, AutoModerateDelete, AutoModerateMute,
           AutoModerateRefused, AutoModerateWarn, WarningWasLast
<1>5. /\ faults \in 0..MaxFaults
      /\ upset \in [Messages -> SUBSET Reasons]
      /\ cards \subseteq Messages
    BY <1>3 DEF TablesSound
<1>6. Effect(m) \/ UNCHANGED acted => acted' \in [Messages -> BOOLEAN]
    BY <1>2, <1>3 DEF Effect, DataTypeOK
<1>7. CASE AutoModerateReport(w)
  <2>1. Moved /\ pending' \subseteq Update
      BY <1>1, <1>3, <1>7, RestOfPlan DEF AutoModerateReport
  <2>2. {"lost"} \in SUBSET Reasons
      BY DEF Reasons
  <2>3. /\ faults' \in 0..MaxFaults
        /\ upset' \in [Messages -> SUBSET Reasons]
        /\ cards' \subseteq Messages
      BY <1>2, <1>3, <1>5, <1>7, <2>2, Counted
         DEF AutoModerateReport, SendModerationCard
  <2>4. JobsSound' /\ TablesSound'
      BY <1>3, <1>7, <2>3
         DEF AutoModerateReport, JobsSound, JobsAimed, TablesSound
  <2>5. DataTypeOK'
      BY <1>3, <1>6, <1>7, <2>1 DEF AutoModerateReport, DataTypeOK, chatVars
  <2> QED
      BY <1>4, <2>1, <2>4, <2>5, StepKeeps, WarningsParts
<1>8. CASE AutoModerateDelete(w)
  <2>1. Moved /\ pending' \subseteq Update
      BY <1>1, <1>3, <1>8, RestOfPlan DEF AutoModerateDelete
  <2>2. WarningsSound'
      BY <1>3, <1>8, WarningsFrame DEF AutoModerateDelete
  <2>3. alive' \in [Messages -> BOOLEAN]
      BY <1>2, <1>3, <1>8 DEF AutoModerateDelete, DataTypeOK
  <2>4. DataTypeOK'
      BY <1>3, <1>6, <1>8, <2>1, <2>3 DEF AutoModerateDelete, DataTypeOK
  <2> QED
      BY <1>4, <2>1, <2>2, <2>4, StepKeeps
<1>9. CASE AutoModerateMute(w)
  <2>1. Moved /\ pending' \subseteq Update
      BY <1>1, <1>3, <1>9, RestOfPlan DEF AutoModerateMute
  <2>2. WarningsSound'
      BY <1>3, <1>9, WarningsFrame DEF AutoModerateMute
  <2>3. DataTypeOK'
      BY <1>3, <1>6, <1>9, <2>1 DEF AutoModerateMute, DataTypeOK, chatVars
  <2> QED
      BY <1>4, <2>1, <2>2, <2>3, StepKeeps
<1>10. CASE AutoModerateRefused(w)
  <2>1. turn[w].plan \in Seq(Actions) /\ turn[w].plan # <<>>
      BY <1>2, <1>10 DEF AutoModerateRefused, Turn
  <2>2. Fallback(turn[w].plan) \in Seq(Actions)
      BY <2>1 DEF Fallback, Actions
  <2>3. turn' = [turn EXCEPT ![w].plan = Fallback(turn[w].plan)]
      BY <1>10 DEF AutoModerateRefused
  <2>4. Moved
      BY <1>1, <1>3, <2>2, <2>3, TurnPlans
  <2>5. faults' \in 0..MaxFaults
      BY <1>3, <1>10, Counted DEF AutoModerateRefused
  <2>6. JobsSound' /\ TablesSound'
      BY <1>3, <1>10, <2>5
         DEF AutoModerateRefused, JobsSound, JobsAimed, TablesSound
  <2>7. DataTypeOK'
      BY <1>3, <1>10 DEF AutoModerateRefused, DataTypeOK, chatVars
  <2> QED
      BY <1>4, <2>4, <2>6, <2>7, StepKeeps, WarningsParts
<1>11. CASE AutoModerateWarn(w)
  <2>1. Moved /\ pending' \subseteq Update
    <3>1. CASE NextAction(w)
        BY <1>1, <1>3, <1>11, <3>1, RestOfPlan DEF AutoModerateWarn
    <3>2. CASE /\ turn' = [turn EXCEPT ![w].plan = Tail(turn[w].plan)]
               /\ UNCHANGED pending
        BY <1>1, <1>3, <1>11, <3>2, RestOfPlan, TurnPlans
           DEF AutoModerateWarn, DataTypeOK
    <3> QED
        BY <1>11, <3>1, <3>2 DEF AutoModerateWarn
  <2>2. JobsSound' /\ upset' \in [Messages -> SUBSET Reasons]
    <3>1. CASE StartWarning(w, m, "rule")
        BY <1>2, <1>3, <3>1, StartsSound DEF Writers
    <3>2. CASE UNCHANGED <<job, upset>>
        BY <1>3, <1>5, <3>2 DEF JobsSound, JobsAimed
    <3> QED
        BY <1>11, <3>1, <3>2 DEF AutoModerateWarn
  <2>3. TablesSound'
      BY <1>3, <1>11, <2>2 DEF AutoModerateWarn, TablesSound
  <2>4. DataTypeOK'
      BY <1>3, <1>6, <1>11, <2>1 DEF AutoModerateWarn, DataTypeOK, chatVars
  <2> QED
      BY <1>4, <2>1, <2>2, <2>3, <2>4, StepKeeps, WarningsParts
<1>12. CASE WarningWasLast(w)
  <2>1. Moved /\ pending' \subseteq Update
      BY <1>3, <1>12, TurnEnds DEF WarningWasLast
  <2>2. WarningsSound'
      BY <1>3, <1>12, WarningsFrame DEF WarningWasLast
  <2>3. DataTypeOK'
      BY <1>3, <1>12, <2>1 DEF WarningWasLast, DataTypeOK, chatVars
  <2> QED
      BY <1>4, <2>1, <2>2, <2>3, StepKeeps
<1> QED
    BY <1>7, <1>8, <1>9, <1>10, <1>11, <1>12

\* Admins and the web UI.
LEMMA AdminsKeep ==
    ASSUME MInv, NEW w \in Workers, NEW m \in Messages,
           \/ HandleWarningAction(w, m)
           \/ WebWarnUser(w, m)
           \/ CancelWarning(w, m)
    PROVE  MInv'
<1>1. WarningsSound /\ JobsSound /\ TablesSound
    BY WarningsParts DEF MInv
<1>2. calls' \in 0..MaxCalls
    BY <1>1, Counted DEF HandleWarningAction, WebWarnUser, CancelWarning
<1>3. ASSUME JobsSound', upset' \in [Messages -> SUBSET Reasons],
             UNCHANGED <<rows, serial, replies, stored, last, cards, faults,
                         moderationVars>>
      PROVE  MInv'
  <2>1. TablesSound'
      BY <1>1, <1>2, <1>3 DEF TablesSound
  <2> QED
      BY <1>3, <2>1, WarningsParts, ModerationFrame
<1>4. CASE HandleWarningAction(w, m)
    BY <1>1, <1>3, <1>4, StartsSound DEF HandleWarningAction, Writers
<1>5. CASE WebWarnUser(w, m)
    BY <1>1, <1>3, <1>5, StartsSound DEF WebWarnUser, Writers
<1>6. CASE CancelWarning(w, m)
    BY <1>1, <1>3, <1>6, StartsSound DEF CancelWarning
<1> QED
    BY <1>4, <1>5, <1>6

LEMMA LinkKeeps ==
    ASSUME MInv, NEW m \in Messages, HandleMessageLink(m)
    PROVE  MInv'
<1>1. WarningsSound /\ JobsSound /\ TablesSound
    BY WarningsParts DEF MInv
<1>2. cards' \subseteq Messages /\ calls' \in 0..MaxCalls
    BY <1>1, Counted DEF HandleMessageLink, SendModerationCard, TablesSound
<1>3. JobsSound' /\ TablesSound'
    BY <1>1, <1>2 DEF HandleMessageLink, JobsSound, JobsAimed, TablesSound
<1> QED
    BY <1>3, WarningsParts, ModerationFrame DEF HandleMessageLink

\* Ten minutes pass.
LEMMA ClaimExpiresKeeps ==
    ASSUME MInv, NEW m \in Messages, ClaimExpires(m)
    PROVE  MInv'
<1>1. DataTypeOK /\ TurnsSound /\ WarningsSound
    BY DataParts DEF MInv, TurnsSound
<1>2. WarningsSound'
    BY <1>1, WarningsFrame DEF ClaimExpires
<1>3. Moved
    BY <1>1, StillMoved DEF ClaimExpires
<1>4. claims' \subseteq Messages /\ loose' \subseteq Messages /\ ClaimsHeld
    BY <1>1, GivenUp DEF ClaimExpires
<1>5. DataTypeOK'
    BY <1>1, <1>4 DEF ClaimExpires, DataTypeOK, chatVars
<1> QED
    BY <1>2, <1>3, <1>4, <1>5, StepKeeps

\* A crash forgets the claims, and whoever held them.
LEMMA CrashKeeps ==
    ASSUME MInv, Crash
    PROVE  MInv'
<1>1. DataTypeOK /\ TurnsSound /\ WarningsSound /\ JobsSound /\ TablesSound
    BY DataParts, WarningsParts DEF MInv, TurnsSound
<1>2. faults' \in 0..MaxFaults
    BY <1>1, Counted DEF Crash
<1>3. /\ pending' \subseteq Update
      /\ upset' \in [Messages -> SUBSET Reasons]
  <2>1. PICK lost \in SUBSET {turn[w].upd : w \in Workers} :
          /\ pending' = pending \ lost
          /\ upset' = [m \in Messages |->
                          upset[m] \cup (IF Quiet(m) THEN {} ELSE {"crash"})
                             \cup (IF CutShort(m, lost) THEN {"cut"} ELSE {})]
      BY DEF Crash
  <2>2. pending' \subseteq Update
      BY <1>1, <2>1 DEF DataTypeOK
  <2>3. \A m \in Messages :
            upset[m] \cup (IF Quiet(m) THEN {} ELSE {"crash"})
               \cup (IF CutShort(m, lost) THEN {"cut"} ELSE {})
            \in SUBSET Reasons
      BY <1>1 DEF TablesSound, Reasons
  <2> QED
      BY <2>1, <2>2, <2>3
<1>4. JobsSound'
    BY Idle DEF Crash, JobsSound, JobsAimed
<1>5. TablesSound'
    BY <1>1, <1>2, <1>3 DEF Crash, TablesSound
<1>6. turn' \in [Workers -> Turn] /\ TurnsAimed'
      /\ \A m \in Messages, w \in Workers : ~Dispatching(w, m)'
    BY Idle DEF Crash, TurnsAimed, Dispatching
<1>7. OneDispatchPerClaim'
    BY <1>6 DEF OneDispatchPerClaim
<1>8. TurnsSound'
    BY <1>1, <1>3, <1>6
       DEF Crash, TurnsSound, TurnsTypeOK, DataTypeOK, chatVars
<1> QED
    BY <1>4, <1>5, <1>7, <1>8, WarningsParts DEF MInv

-----------------------------------------------------------------------------
(* The invariant                                                           *)

LEMMA InitHolds ==
    Init => MInv
<1> SUFFICES ASSUME Init PROVE MInv
    OBVIOUS
<1>1. JobsSound
    BY Idle DEF Init, WarningsInit, JobsSound, JobsAimed
<1>2. TablesSound
    BY MessagesAssumption, CallBoundsAssumption
       DEF Init, WarningsInit, TablesSound, Reasons
<1>3. TurnsSound
    BY Idle, VersionsAssumption
       DEF Init, TurnsSound, TurnsTypeOK, TurnsAimed, Info, Missing
<1>4. OneDispatchPerClaim
    BY Idle DEF Init, OneDispatchPerClaim, Dispatching
<1> QED
    BY <1>1, <1>2, <1>3, <1>4, WarningsParts DEF MInv

LEMMA StepHolds ==
    MInv /\ [Next]_vars => MInv'
<1> SUFFICES ASSUME MInv, [Next]_vars PROVE MInv'
    OBVIOUS
<1>1. ASSUME NEW w \in Workers, TurnStep(w) PROVE MInv'
    BY <1>1, StagesKeep, RecordingKeeps, ModerateMessageKeeps,
       RemoderateAcrossModelsKeeps, HandleBadWordDetectedKeeps, ActingKeeps
       DEF TurnStep
<1>2. ASSUME NEW w \in Workers, WarningStep(w), UNCHANGED moderationVars
      PROVE  MInv'
    BY <1>2, WarningStepSound, ModerationFrame DEF MInv
<1>3. ASSUME NEW w \in Workers, NEW u \in pending, ProcessUpdate(w, u)
      PROVE  MInv'
    BY <1>3, ProcessUpdateKeeps
<1>4. ASSUME NEW w \in Workers, NEW m \in Messages,
             \/ Remoderate(w, m) \/ HandleWarningAction(w, m)
             \/ WebWarnUser(w, m) \/ CancelWarning(w, m)
      PROVE  MInv'
    BY <1>4, RemoderateKeeps, AdminsKeep
<1>5. ASSUME NEW m \in Messages,
             \/ Post(m) \/ Edit(m)
             \/ HandleMessageLink(m) \/ ClaimExpires(m)
      PROVE  MInv'
    BY <1>5, ChatKeeps, LinkKeeps, ClaimExpiresKeeps
<1>6. CASE UNCHANGED vars
  <2>1. WarningsSound'
      BY <1>6, WarningsFrame DEF MInv, vars
  <2> QED
      BY <1>6, <2>1, ModerationFrame DEF vars
<1> QED
    BY <1>1, <1>2, <1>3, <1>4, <1>5, <1>6, CrashKeeps DEF Next

LEMMA Invariance == Spec => []MInv
BY InitHolds, StepHolds, PTL DEF Spec

-----------------------------------------------------------------------------
(* Theorems                                                                *)

\* Every variable of the pipeline and of the warnings keeps its type, for all
\* plans that rules can have (bot/pipeline.go, filters.go, auto_moderation.go).
THEOREM TypeCorrect == Spec => []TypeOK
<1>1. MInv => TypeOK
    BY DEF MInv, WarningsSound, TurnsSound, TurnsTypeOK, TypeOK
<1> QED
    BY <1>1, Invariance, PTL

\* However updates, redeliveries, edits, complaints and crashes overlap, two
\* goroutines never carry out verdicts on one message together, unless its claim
\* was given up meanwhile (handleBadWordDetected, filters.go).
THEOREM OneDispatch == Spec => []OneDispatchPerClaim
<1>1. MInv => OneDispatchPerClaim
    BY DEF MInv
<1> QED
    BY <1>1, Invariance, PTL

\* A reason stays with its message through every step of a turn.
LEMMA TurnKeepsReason ==
    ASSUME MInv, NEW w \in Workers, TurnStep(w), NEW n \in Messages,
           info[n].reason
    PROVE  info'[n].reason
<1> DEFINE m == turn[w].msg
<1>1. info \in [Messages -> Info]
    BY DEF MInv, TurnsSound, TurnsTypeOK
<1>2. info[n] \in Info
    BY <1>1
<1>3. CASE UNCHANGED info
    BY <1>3
<1>4. CASE info' = [info EXCEPT ![m].text = turn[w].ver]
    BY <1>1, <1>2, <1>4 DEF Info
<1>5. ASSUME NEW v, info' = [info EXCEPT ![m] = Blanked(info[m], v)]
      PROVE  info'[n].reason
  <2>1. Blanked(info[n], v).reason = info[n].reason
      BY <1>2 DEF Blanked, Info
  <2> QED
      BY <1>1, <1>5, <2>1
<1>6. CASE info' = [info EXCEPT ![m].reason = @ \/ Recorded(m)]
  <2>1. CASE n = m
    <3>1. info'[n] = [info[n] EXCEPT !.reason = info[n].reason \/ Recorded(m)]
        BY <1>1, <1>6, <2>1
    <3>2. (info[n].reason \/ Recorded(m)) = TRUE
        OBVIOUS
    <3>3. info'[n] = [info[n] EXCEPT !.reason = TRUE]
        BY <3>1, <3>2
    <3> QED
        BY <1>2, <3>3 DEF Info
  <2>2. CASE n # m
      BY <1>1, <1>6, <2>2
  <2> QED
      BY <2>1, <2>2
<1>7. CASE \/ StageSilence(w) \/ StageFlagged(w)
           \/ AutoModerateReport(w) \/ AutoModerateDelete(w)
           \/ AutoModerateMute(w) \/ AutoModerateRefused(w)
           \/ AutoModerateWarn(w) \/ WarningWasLast(w)
           \/ RecordEditedMessage(w)
    BY <1>3, <1>7
       DEF StageSilence, StageFlagged, AutoModerateReport, AutoModerateDelete,
           AutoModerateMute, AutoModerateRefused, AutoModerateWarn,
           WarningWasLast, RecordEditedMessage
<1>8. CASE RecordNewMessage(w)
  <2>1. info' = [info EXCEPT ![m] = [info[m] EXCEPT !.text = turn[w].ver]]
      BY <1>8 DEF RecordNewMessage, Upserted
  <2> QED
      BY <1>1, <1>2, <2>1 DEF Info
<1>9. CASE UpdateMessageInfo(w)
    BY <1>4, <1>9 DEF UpdateMessageInfo
<1>10. CASE ModerateMessage(w) \/ RemoderateAcrossModels(w)
  <2>1. PICK v : info' = [info EXCEPT ![m] = Blanked(info[m], v)]
      BY <1>10 DEF ModerateMessage, RemoderateAcrossModels
  <2> QED
      BY <1>5, <2>1
<1>11. CASE HandleBadWordDetected(w)
    BY <1>3, <1>6, <1>11 DEF HandleBadWordDetected
<1> QED
    BY <1>7, <1>8, <1>9, <1>10, <1>11 DEF TurnStep

\* The reason for a verdict stays with the message; no edit, redelivered update
\* or re-moderation wipes it (RecordIncomingMessage, UpdateMessageInfo).
THEOREM KeepsReason == Spec => ReasonKept
<1>1. ASSUME MInv, [Next]_vars, NEW n \in Messages, info[n].reason
      PROVE  info'[n].reason
  <2>1. CASE \E w \in Workers : TurnStep(w)
      BY <1>1, <2>1, TurnKeepsReason
  <2>2. CASE UNCHANGED info
      BY <1>1, <2>2
  <2>3. CASE \/ \E w \in Workers :
                   \/ WarningStep(w) /\ UNCHANGED moderationVars
                   \/ \E u \in pending : ProcessUpdate(w, u)
                   \/ \E m \in Messages :
                         \/ Remoderate(w, m) \/ HandleWarningAction(w, m)
                         \/ WebWarnUser(w, m) \/ CancelWarning(w, m)
             \/ \E m \in Messages : \/ Post(m) \/ Edit(m)
                                    \/ HandleMessageLink(m) \/ ClaimExpires(m)
             \/ Crash
             \/ UNCHANGED vars
      BY <2>2, <2>3
         DEF moderationVars, vars, ProcessUpdate, Remoderate,
             HandleWarningAction, WebWarnUser, CancelWarning, Post, Edit,
             HandleMessageLink, ClaimExpires, Crash
  <2> QED
      BY <1>1, <2>1, <2>3 DEF Next
<1>2. MInv /\ [Next]_vars =>
          [\A m \in Messages : info[m].reason => info'[m].reason]_vars
    BY <1>1
<1> QED
    BY <1>2, Invariance, PTL DEF Spec, ReasonKept

-----------------------------------------------------------------------------
(***************************************************************************)
(* A message is warned about once, for any number of messages, goroutines  *)
(* and chats.  A goroutine that is about to insert a warning has seen that *)
(* the number has none; nobody else is at the warnings of that number, or  *)
(* the overlap is on record.                                               *)
(***************************************************************************)

\* Goroutine w is at the warnings of the number of m.
Working(w, m) ==
    /\ job[w].step # "idle"
    /\ job[w].by # "creative"
    /\ job[w].msg.num = m.num

Alone(m) == \A v, w \in Workers : Working(v, m) /\ Working(w, m) => v = w

Unwarned(m) ==
    \A w \in Workers : job[w].step = "insert" /\ job[w].msg.num = m.num
                           => RowsFor(m) = {}

Is(r, m) == r.chat = m.chat /\ r.num = m.num

Single(m) == \A r, q \in rows : Is(r, m) /\ Is(q, m) => r = q

InsertsWarn == \A w \in Workers : job[w].step = "insert" => job[w].by # "creative"

WInv ==
    /\ InsertsWarn
    /\ \A m \in Messages : "overlap" \notin upset[m] =>
          /\ Alone(m)
          /\ Unwarned(m)
          /\ "resent" \notin upset[m] => Single(m)

-----------------------------------------------------------------------------
(* What keeps the invariant                                                *)

Remembers == \A m \in Messages : upset[m] \subseteq upset'[m]

\* A goroutine goes on with its job, but not to an insertion, or has none any more.
GoesOn(w) ==
    \/ job'[w] = job[w]
    \/ job'[w].step = "idle"
    \/ /\ job[w].step # "idle" /\ job'[w].step # "insert"
       /\ job'[w].msg = job[w].msg /\ job'[w].by = job[w].by

\* Rows go, or change in place.
RowsStay ==
    /\ \A m \in Messages : RowsFor(m) = {} => RowsFor(m)' = {}
    /\ \A m \in Messages : Single(m) => Single(m)'

LEMMA SameRows ==
    ASSUME rows' = rows
    PROVE  RowsStay
BY DEF RowsStay, RowsFor, Single, Is

LEMMA Continues ==
    ASSUME WInv, Remembers, RowsStay, \A w \in Workers : GoesOn(w)
    PROVE  WInv'
<1>1. ASSUME NEW w \in Workers, job'[w].step = "insert" PROVE job'[w] = job[w]
    BY <1>1 DEF GoesOn
<1>2. \A w \in Workers, m \in Messages : Working(w, m)' => Working(w, m)
    BY DEF GoesOn, Working
<1>3. InsertsWarn'
    BY <1>1 DEF WInv, InsertsWarn
<1>4. ASSUME NEW m \in Messages, "overlap" \notin upset'[m]
      PROVE  /\ Alone(m)'
             /\ Unwarned(m)'
             /\ "resent" \notin upset'[m] => Single(m)'
  <2>1. /\ "overlap" \notin upset[m]
        /\ "resent" \notin upset'[m] => "resent" \notin upset[m]
      BY <1>4 DEF Remembers
  <2>2. Alone(m) /\ Unwarned(m) /\ ("resent" \notin upset[m] => Single(m))
      BY <2>1 DEF WInv
  <2>3. Alone(m)'
      BY <1>2, <2>2 DEF Alone
  <2>4. Unwarned(m)'
    <3> SUFFICES ASSUME NEW w \in Workers, job'[w].step = "insert",
                        job'[w].msg.num = m.num
                 PROVE  RowsFor(m)' = {}
        BY DEF Unwarned
    <3>1. RowsFor(m) = {}
        BY <1>1, <2>2 DEF Unwarned
    <3> QED
        BY <3>1 DEF RowsStay
  <2> QED
      BY <2>1, <2>2, <2>3, <2>4 DEF RowsStay
<1> QED
    BY <1>3, <1>4 DEF WInv

\* Nothing happens to warnings.
LEMMA Beside ==
    ASSUME WInv, rows' = rows, job' = job, Remembers
    PROVE  WInv'
BY Continues, SameRows DEF GoesOn

LEMMA UpsetRemembers ==
    ASSUME WarningsSound, NEW m \in Messages, NEW why, Upset(m, why)
    PROVE  Remembers
BY DEF WarningsSound, WarningsTypeOK, Upset, Remembers

\* One goroutine goes on, or is done.
LEMMA OneGoesOn ==
    ASSUME WarningsSound, NEW w \in Workers, job[w].step # "idle",
           \/ Done(w)
           \/ \E s \in {"send", "record", "remove", "unsend"} : Goto(w, s)
           \/ \E n : job' = [job EXCEPT ![w].step = "record", ![w].reply = n]
    PROVE  \A v \in Workers : GoesOn(v)
<1>1. job \in [Workers -> Job] /\ NoJob.step = "idle"
    BY Idle DEF WarningsSound, WarningsTypeOK
<1>2. CASE Done(w)
    BY <1>1, <1>2 DEF Done, GoesOn
<1>3. ASSUME NEW s \in {"send", "record", "remove", "unsend"}, Goto(w, s)
      PROVE  \A v \in Workers : GoesOn(v)
  <2>1. \A v \in Workers \ {w} : job'[v] = job[v]
      BY <1>1, <1>3 DEF Goto
  <2>2. job'[w] = [job[w] EXCEPT !.step = s]
      BY <1>1, <1>3 DEF Goto
  <2>3. job'[w].step = s /\ job'[w].msg = job[w].msg /\ job'[w].by = job[w].by
      BY <1>1, <2>2 DEF Job
  <2> QED
      BY <1>3, <2>1, <2>3 DEF GoesOn
<1>4. ASSUME NEW n, job' = [job EXCEPT ![w].step = "record", ![w].reply = n]
      PROVE  \A v \in Workers : GoesOn(v)
  <2>1. \A v \in Workers \ {w} : job'[v] = job[v]
      BY <1>1, <1>4
  <2>2. job'[w] = [job[w] EXCEPT !.step = "record", !.reply = n]
      BY <1>1, <1>4
  <2>3. /\ job'[w].step = "record"
        /\ job'[w].msg = job[w].msg /\ job'[w].by = job[w].by
      BY <1>1, <2>2 DEF Job
  <2> QED
      BY <2>1, <2>3 DEF GoesOn
<1> QED
    BY <1>2, <1>3, <1>4

\* A goroutine begins: whoever is at the same warnings is on record, with it.
LEMMA Begins ==
    ASSUME WarningsSound, WInv, NEW w \in Workers, NEW m \in Messages, NEW j \in Job,
           job[w].step = "idle", Begin(w, m, j), rows' = rows,
           j.step # "idle", j.msg = m,
           j.step = "insert" => j.by # "creative" /\ RowsFor(m) = {}
    PROVE  WInv'
<1> DEFINE others == {v \in Workers \ {w} : /\ job[v].msg # NoMessage
                                            /\ job[v].by # "creative"
                                            /\ job[v].msg.num = m.num}
<1>1. /\ job'[w] = j /\ \A v \in Workers \ {w} : job'[v] = job[v]
      /\ \A n \in Messages :
            upset'[n] = IF others # {} /\ n.num = m.num /\ j.by # "creative"
                        THEN upset[n] \cup {"overlap"} ELSE upset[n]
    BY DEF WarningsSound, WarningsTypeOK, Begin
<1>2. \A n \in Messages : RowsFor(n)' = RowsFor(n) /\ (Single(n)' <=> Single(n))
    BY DEF RowsFor, Single, Is
<1>3. \A v \in Workers : job[v].step # "idle" => job[v].msg # NoMessage
    BY MessagesAssumption DEF WarningsSound, JobsAimed
<1>4. ASSUME NEW n \in Messages, n.num = m.num, NEW v \in Workers \ {w},
             others = {}
      PROVE  ~Working(v, n)
    BY <1>3, <1>4 DEF Working
<1> HIDE DEF others
<1>5. InsertsWarn'
    BY <1>1 DEF WInv, InsertsWarn
<1>6. ASSUME NEW n \in Messages, "overlap" \notin upset'[n]
      PROVE  /\ Alone(n)' /\ Unwarned(n)'
             /\ "resent" \notin upset'[n] => Single(n)'
  <2>1. /\ "overlap" \notin upset[n]
        /\ "resent" \notin upset'[n] => "resent" \notin upset[n]
        /\ n.num = m.num /\ j.by # "creative" => others = {}
      BY <1>1, <1>6
  <2>2. Alone(n) /\ Unwarned(n) /\ ("resent" \notin upset[n] => Single(n))
      BY <2>1 DEF WInv
  <2>3. \A v \in Workers \ {w} : Working(v, n)' <=> Working(v, n)
      BY <1>1 DEF Working
  <2>4. CASE n.num = m.num /\ j.by # "creative"
    <3>1. \A v \in Workers \ {w} : ~Working(v, n) /\ ~Working(v, n)'
        BY <1>4, <2>1, <2>3, <2>4
    <3>2. Alone(n)'
        BY <3>1 DEF Alone
    <3>3. Unwarned(n)'
      <4>1. RowsFor(n) = RowsFor(m)
          BY <2>4 DEF RowsFor
      <4>2. ASSUME NEW v \in Workers \ {w}, job'[v].step = "insert",
                   job'[v].msg.num = n.num
            PROVE  FALSE
          BY <1>5, <3>1, <4>2 DEF InsertsWarn, Working
      <4> QED
          BY <1>1, <1>2, <4>1, <4>2 DEF Unwarned
    <3> QED
        BY <1>2, <2>1, <2>2, <3>2, <3>3
  <2>5. CASE ~(n.num = m.num /\ j.by # "creative")
    <3>1. ~Working(w, n)'
        BY <1>1, <2>5 DEF Working
    <3>2. Alone(n)'
        BY <2>2, <2>3, <3>1 DEF Alone
    <3>3. ~(job'[w].step = "insert" /\ job'[w].msg.num = n.num)
        BY <1>1, <2>5
    <3>4. Unwarned(n)'
        BY <1>1, <1>2, <2>2, <3>3 DEF Unwarned
    <3> QED
        BY <1>2, <2>1, <2>2, <3>2, <3>4
  <2> QED
      BY <2>4, <2>5
<1> QED
    BY <1>5, <1>6 DEF WInv

LEMMA Starts ==
    ASSUME WarningsSound, WInv, NEW w \in Workers, NEW m \in Messages, job[w] = NoJob,
           rows' = rows,
           \/ \E by \in Writers : StartWarning(w, m, by)
           \/ StartCancelling(w, m)
           \/ StartCreativeReply(w, m)
    PROVE  WInv'
<1>0. job[w].step = "idle"
    BY Idle
<1>1. ASSUME NEW by \in Writers, StartWarning(w, m, by)
      PROVE  WInv'
  <2> DEFINE j == [NoJob EXCEPT !.by = by, !.step = "insert", !.msg = m]
  <2>1. j \in Job /\ j.step = "insert" /\ j.msg = m /\ j.by = by /\ by # "creative"
      BY DEF NoJob, Job, Writers
  <2>2. Begin(w, m, j) /\ RowsFor(m) = {}
      BY <1>1 DEF StartWarning, HasWarningForMessage
  <2> HIDE DEF j
  <2> QED
      BY <1>0, <2>1, <2>2, Begins
<1>2. ASSUME StartCancelling(w, m)
      PROVE  WInv'
  <2> DEFINE j == [NoJob EXCEPT !.by = "cancel", !.step = "remove", !.msg = m,
                                !.reply = GetWarningMessageID(m)]
  <2>1. GetWarningMessageID(m) \in Nat
      BY ReplyNumber DEF WarningsSound
  <2>2. j \in Job /\ j.step = "remove" /\ j.msg = m
      BY <2>1 DEF NoJob, Job
  <2>3. Begin(w, m, j)
      BY <1>2 DEF StartCancelling
  <2> HIDE DEF j
  <2> QED
      BY <1>0, <2>2, <2>3, Begins
<1>3. ASSUME StartCreativeReply(w, m)
      PROVE  WInv'
  <2> DEFINE j == [NoJob EXCEPT !.by = "creative", !.step = "send", !.msg = m]
  <2>1. j \in Job /\ j.step = "send" /\ j.msg = m
      BY DEF NoJob, Job
  <2>2. Begin(w, m, j)
      BY <1>3 DEF StartCreativeReply
  <2> HIDE DEF j
  <2> QED
      BY <1>0, <2>1, <2>2, Begins
<1> QED
    BY <1>1, <1>2, <1>3

-----------------------------------------------------------------------------
(* The steps of a warning                                                  *)

\* A message is its chat and its number.
LEMMA WholeMessage ==
    ASSUME NEW m \in Messages
    PROVE  m = [chat |-> m.chat, num |-> m.num]
BY MessagesAssumption

\* A row is inserted where there was none, or two are and it is on record.
LEMMA AddWarningOnce ==
    ASSUME WarningsSound, WInv, NEW w \in Workers, AddWarning(w)
    PROVE  WInv'
<1> DEFINE m == job[w].msg
<1>1. /\ job \in [Workers -> Job] /\ upset \in [Messages -> SUBSET Reasons]
      /\ job[w].step = "insert" /\ m \in Messages /\ NoJob.step = "idle"
      /\ rows \subseteq Row
    BY Idle DEF WarningsSound, WarningsTypeOK, JobsAimed, AddWarning, At
<1>2. Remembers /\ \A v \in Workers : GoesOn(v)
  <2>1. Goto(w, "send") \/ Done(w)
      BY DEF AddWarning
  <2>2. \A v \in Workers : GoesOn(v)
      BY <1>1, <2>1, OneGoesOn
  <2>3. upset' = upset \/ \E why : Upset(m, why)
      BY DEF AddWarning
  <2> QED
      BY <1>1, <2>2, <2>3, UpsetRemembers DEF Remembers
<1>3. CASE rows' = rows
    BY <1>2, <1>3, SameRows, Continues
<1>4. ASSUME NEW S, job'[w].step # "insert",
             /\ rows' = rows \cup S
             /\ \A r \in S : r.chat = m.chat /\ r.num = m.num
             /\ "resent" \notin upset'[m] => \A r, q \in S : r = q
      PROVE  WInv'
  <2>1. /\ rows' = rows \cup S
        /\ \A r \in S : r.chat = m.chat /\ r.num = m.num
        /\ "resent" \notin upset'[m] => \A r, q \in S : r = q
      BY <1>4
  <2>2. \A v \in Workers : job'[v].step = "insert" => job'[v] = job[v] /\ v # w
      BY <1>2, <1>4 DEF GoesOn
  <2>3. InsertsWarn'
      BY <2>2 DEF WInv, InsertsWarn
  <2>4. ASSUME NEW n \in Messages, "overlap" \notin upset'[n]
        PROVE  /\ Alone(n)' /\ Unwarned(n)'
               /\ "resent" \notin upset'[n] => Single(n)'
    <3>1. /\ "overlap" \notin upset[n]
          /\ "resent" \notin upset'[n] => "resent" \notin upset[n]
        BY <1>2, <2>4 DEF Remembers
    <3>2. Alone(n) /\ Unwarned(n) /\ ("resent" \notin upset[n] => Single(n))
        BY <3>1 DEF WInv
    <3>3. Alone(n)'
      <4>1. \A v \in Workers : Working(v, n)' => Working(v, n)
          BY <1>2 DEF GoesOn, Working
      <4> QED
          BY <3>2, <4>1 DEF Alone
    <3>4. Unwarned(n)'
      <4> SUFFICES ASSUME NEW v \in Workers, job'[v].step = "insert",
                          job'[v].msg.num = n.num
                   PROVE  RowsFor(n)' = {}
          BY DEF Unwarned
      <4>1. job[v].step = "insert" /\ job[v].msg.num = n.num /\ v # w
          BY <2>2
      <4>2. n.num # m.num
          BY <1>1, <3>2, <4>1 DEF Alone, Working, WInv, InsertsWarn
      <4>3. RowsFor(n) = {}
          BY <3>2, <4>1 DEF Unwarned
      <4> QED
          BY <2>1, <4>2, <4>3 DEF RowsFor
    <3>5. ASSUME "resent" \notin upset'[n] PROVE Single(n)'
      <4>1. CASE n = m
        <5>1. RowsFor(m) = {}
            BY <1>1, <3>2, <4>1 DEF Unwarned
        <5>2. \A r \in rows : r.num # m.num
            BY <5>1 DEF RowsFor
        <5> QED
            BY <2>1, <3>5, <4>1, <5>2 DEF Single, Is
      <4>2. CASE n # m
        <5>1. n.chat # m.chat \/ n.num # m.num
          <6>1. n = [chat |-> n.chat, num |-> n.num] /\ m = [chat |-> m.chat, num |-> m.num]
              BY <1>1, WholeMessage
          <6> QED
              BY <4>2, <6>1
        <5>2. \A r \in S : ~Is(r, n)
            BY <2>1, <5>1 DEF Is
        <5> QED
            BY <2>1, <3>1, <3>2, <3>5, <5>2 DEF Single, Is
      <4> QED
          BY <4>1, <4>2
    <3> QED
        BY <3>3, <3>4, <3>5
  <2> QED
      BY <2>3, <2>4 DEF WInv
<1>5. \A n : NewRow(n, m).chat = m.chat /\ NewRow(n, m).num = m.num
    BY DEF NewRow
<1>6. Goto(w, "send") => job'[w].step # "insert"
    BY <1>1 DEF Goto
<1>7. CASE rows' = rows \cup {NewRow(serial + 1, m)} /\ Goto(w, "send")
  <2> DEFINE S == {NewRow(serial + 1, m)}
  <2>1. /\ \A r \in S : r.chat = m.chat /\ r.num = m.num
        /\ \A r, q \in S : r = q
        /\ rows' = rows \cup S
      BY <1>5, <1>7
  <2>2. job'[w].step # "insert"
      BY <1>6, <1>7
  <2> HIDE DEF S
  <2> QED
      BY <1>4, <2>1, <2>2
<1>8. CASE /\ rows' = rows \cup {NewRow(serial + 1, m), NewRow(serial + 2, m)}
           /\ Goto(w, "send") /\ Upset(m, {"resent"})
  <2> DEFINE S == {NewRow(serial + 1, m), NewRow(serial + 2, m)}
  <2>1. "resent" \in upset'[m]
      BY <1>1, <1>8 DEF Upset
  <2>2. /\ \A r \in S : r.chat = m.chat /\ r.num = m.num
        /\ rows' = rows \cup S
      BY <1>5, <1>8
  <2>3. job'[w].step # "insert"
      BY <1>6, <1>8
  <2> HIDE DEF S
  <2> QED
      BY <1>4, <2>1, <2>2, <2>3
<1> QED
    BY <1>3, <1>7, <1>8 DEF AddWarning

LEMMA WarningStepOnce ==
    ASSUME WarningsSound, WInv, NEW w \in Workers, WarningStep(w)
    PROVE  WInv'
<1> DEFINE m == job[w].msg
<1>1. CASE AddWarning(w)
    BY <1>1, AddWarningOnce
<1>2. job[w].step # "idle" => m \in Messages
    BY DEF WarningsSound, JobsAimed
<1>3. ASSUME upset' = upset \/ \E why : Upset(m, why), job[w].step # "idle"
      PROVE  Remembers
    BY <1>2, <1>3, UpsetRemembers DEF Remembers
<1>4. CASE SendReply(w)
  <2>1. /\ rows' = rows /\ job[w].step # "idle"
        /\ upset' = upset \/ \E why : Upset(m, why)
      BY <1>4 DEF SendReply, At
  <2>2. Done(w) \/ \E n : job' = [job EXCEPT ![w].step = "record", ![w].reply = n]
      BY <1>4 DEF SendReply, Delivered
  <2> QED
      BY <1>3, <2>1, <2>2, SameRows, OneGoesOn, Continues
<1>5. CASE UpdateWarningMessageID(w)
  <2>1. job[w].step # "idle" /\ Done(w) /\ upset' = upset
      BY <1>5 DEF UpdateWarningMessageID, At
  <2> DEFINE new(r) == IF r.num = m.num THEN [r EXCEPT !.reply = job[w].reply] ELSE r
  <2>2. rows' = {new(r) : r \in rows}
      BY <1>5 DEF UpdateWarningMessageID
  <2>3. \A r \in rows : new(r).num = r.num /\ new(r).chat = r.chat
      BY DEF WarningsSound, WarningsTypeOK, Row
  <2> HIDE DEF new
  <2>4. \A n \in Messages : RowsFor(n) = {} => RowsFor(n)' = {}
      BY <2>2, <2>3 DEF RowsFor
  <2>5. \A n \in Messages : Single(n) => Single(n)'
      BY <2>2, <2>3 DEF Single, Is
  <2> QED
      BY <1>3, <2>1, <2>4, <2>5, OneGoesOn, Continues DEF RowsStay
<1>6. CASE RemoveWarningForMessage(w)
  <2>1. job[w].step # "idle" /\ Goto(w, "unsend") /\ upset' = upset /\ rows' \subseteq rows
      BY <1>6 DEF RemoveWarningForMessage, At
  <2>2. RowsStay
      BY <2>1 DEF RowsStay, RowsFor, Single, Is
  <2> QED
      BY <1>3, <2>1, <2>2, OneGoesOn, Continues
<1>7. CASE DeleteBotWarningReply(w)
  <2>1. /\ job[w].step # "idle" /\ Done(w) /\ rows' = rows
        /\ upset' = upset \/ \E why : Upset(m, why)
      BY <1>7 DEF DeleteBotWarningReply, At
  <2> QED
      BY <1>3, <2>1, SameRows, OneGoesOn, Continues
<1> QED
    BY <1>1, <1>4, <1>5, <1>6, <1>7 DEF WarningStep

-----------------------------------------------------------------------------
(* The other steps                                                         *)

LEMMA TurnOnce ==
    ASSUME MInv, WInv, NEW w \in Workers, TurnStep(w)
    PROVE  WInv'
<1>1. WarningsSound /\ WarningsSound
    BY DEF MInv
<1>2. turn[w].step # "idle" /\ turn[w].msg \in Messages
    BY DEF MInv, TurnsSound, TurnsAimed, TurnStep, StageSilence, StageFlagged,
           RecordNewMessage, RecordEditedMessage, UpdateMessageInfo, ModerateMessage,
           RemoderateAcrossModels, HandleBadWordDetected, AutoModerateReport,
           AutoModerateDelete, AutoModerateMute, AutoModerateRefused,
           AutoModerateWarn, WarningWasLast, In, Acts
<1>3. ASSUME rows' = rows, job' = job,
             upset' = upset \/ \E why : Upset(turn[w].msg, why)
      PROVE  WInv'
    BY <1>1, <1>2, <1>3, Beside, UpsetRemembers DEF Remembers
<1>4. CASE \/ StageFlagged(w) \/ RecordNewMessage(w) \/ RecordEditedMessage(w)
           \/ UpdateMessageInfo(w) \/ RemoderateAcrossModels(w)
           \/ HandleBadWordDetected(w) \/ AutoModerateDelete(w) \/ AutoModerateMute(w)
           \/ AutoModerateRefused(w) \/ WarningWasLast(w)
  <2>1. rows' = rows /\ job' = job /\ upset' = upset
      BY <1>4 DEF warningVars, StageFlagged, RecordNewMessage, RecordEditedMessage,
                  UpdateMessageInfo, RemoderateAcrossModels, HandleBadWordDetected,
                  AutoModerateDelete, AutoModerateMute, AutoModerateRefused,
                  WarningWasLast
  <2> QED
      BY <1>3, <2>1
<1>5. CASE StageSilence(w) \/ AutoModerateReport(w)
    BY <1>3, <1>5 DEF StageSilence, AutoModerateReport
<1>6. CASE ModerateMessage(w)
  <2>1. /\ rows' = rows /\ job[w] = NoJob
        /\ StartCreativeReply(w, turn[w].msg) \/ UNCHANGED <<job, upset>>
      BY <1>6 DEF ModerateMessage, Features, In
  <2> QED
      BY <1>1, <1>2, <1>3, <2>1, Starts
<1>7. CASE AutoModerateWarn(w)
  <2>1. /\ rows' = rows /\ job[w] = NoJob
        /\ StartWarning(w, turn[w].msg, "rule") \/ UNCHANGED <<job, upset>>
      BY <1>7 DEF AutoModerateWarn, Acts, In
  <2>2. "rule" \in Writers
      BY DEF Writers
  <2> QED
      BY <1>1, <1>2, <1>3, <2>1, <2>2, Starts
<1> QED
    BY <1>4, <1>5, <1>6, <1>7 DEF TurnStep

LEMMA AdminsOnce ==
    ASSUME MInv, WInv, NEW w \in Workers, NEW m \in Messages,
           HandleWarningAction(w, m) \/ WebWarnUser(w, m) \/ CancelWarning(w, m)
    PROVE  WInv'
<1>1. /\ rows' = rows /\ job[w] = NoJob
      /\ \/ StartWarning(w, m, "admin") \/ StartWarning(w, m, "web")
         \/ StartCancelling(w, m)
    BY DEF HandleWarningAction, WebWarnUser, CancelWarning, Free
<1>2. "admin" \in Writers /\ "web" \in Writers
    BY DEF Writers
<1> QED
    BY <1>1, <1>2, Starts DEF MInv

LEMMA CrashOnce ==
    ASSUME MInv, WInv, Crash
    PROVE  WInv'
<1>1. rows' = rows /\ \A w \in Workers : job'[w].step = "idle"
    BY Idle DEF Crash
<1>2. Remembers
    BY DEF Crash, Remembers
<1> QED
    BY <1>1, <1>2, SameRows, Continues DEF GoesOn

LEMMA InitOnce == Init => WInv
BY Idle DEF Init, WarningsInit, WInv, InsertsWarn, Alone, Working, Unwarned, Single

LEMMA NextOnce == MInv /\ WInv /\ [Next]_vars => WInv'
<1> SUFFICES ASSUME MInv, WInv, [Next]_vars PROVE WInv'
    OBVIOUS
<1>1. ASSUME rows' = rows, job' = job, upset' = upset PROVE WInv'
    BY <1>1, Beside DEF Remembers
<1>2. CASE \/ \E w \in Workers : \E u \in pending : ProcessUpdate(w, u)
           \/ \E w \in Workers, m \in Messages : Remoderate(w, m)
           \/ \E m \in Messages : \/ Post(m) \/ Edit(m)
                                  \/ HandleMessageLink(m) \/ ClaimExpires(m)
           \/ UNCHANGED vars
    BY <1>1, <1>2 DEF ProcessUpdate, Remoderate, Post, Edit, HandleMessageLink,
                      ClaimExpires, vars, warningVars
<1>3. ASSUME NEW w \in Workers, WarningStep(w) PROVE WInv'
    BY <1>3, WarningStepOnce DEF MInv
<1> QED
    BY <1>2, <1>3, TurnOnce, AdminsOnce, CrashOnce DEF Next

\* For any number of messages, chats and goroutines, whatever admins, the web UI, rules,
\* redelivered updates and re-moderations do: a message is warned about once, unless two
\* goroutines were at the warnings of its number at once or an INSERT was repeated.
\* (HasWarningForMessage, AddWarning)
THEOREM WarnsOnce == Spec => []WarnedOnce
<1>1. ASSUME WInv PROVE WarnedOnce
  <2> SUFFICES ASSUME NEW m \in Messages, upset[m] \cap {"overlap", "resent"} = {}
               PROVE  Cardinality({r \in rows : r.chat = m.chat /\ r.num = m.num}) <= 1
      BY DEF WarnedOnce
  <2> DEFINE R == {r \in rows : r.chat = m.chat /\ r.num = m.num}
  <2>1. \A r, q \in R : r = q
      BY <1>1 DEF WInv, Single, Is
  <2>2. CASE R = {}
      BY <2>2, FS_EmptySet
  <2>3. CASE R # {}
    <3>1. PICK r : R = {r}
        BY <2>1, <2>3
    <3>2. Cardinality({r}) = 1
        BY FS_Singleton
    <3> QED
        BY <3>1, <3>2
  <2> QED
      BY <2>2, <2>3
<1>2. Init => WInv
    BY InitOnce
<1>3. MInv /\ WInv /\ [Next]_vars => WInv'
    BY NextOnce
<1> QED
    BY <1>1, <1>2, <1>3, Invariance, PTL DEF Spec

-----------------------------------------------------------------------------
(***************************************************************************)
(* A verdict that was carried out has shown.  Until then a goroutine has   *)
(* something left of its plan, and what takes the last of it shows.        *)
(***************************************************************************)

HasPlan == \A w \in Workers : turn[w].step = "claim" => turn[w].plan # <<>>

\* A goroutine carries out a verdict on m and has not come to its end.
Owed(m) == \E w \in Workers : Dispatching(w, m) /\ turn[w].plan # <<>>

EffectOrOwed(m) ==
    \/ upset[m] \cap {"lost", "crash"} # {}
    \/ acted[m]
    \/ Owed(m)

EffectsOwed == \A m \in Messages : EffectOrOwed(m)

VInv == HasPlan /\ EffectsOwed

\* The turns of other goroutines stay as they are.
OnlyTurn(w) == \A v \in Workers \ {w} : turn'[v] = turn[v]

LEMMA TurnsOfOthers ==
    ASSUME MInv, NEW w \in Workers,
           TurnStep(w) \/ (\E u \in pending : ProcessUpdate(w, u))
              \/ \E m \in Messages : Remoderate(w, m)
    PROVE  OnlyTurn(w)
<1>1. turn \in [Workers -> Turn]
    BY DEF MInv, TurnsSound, TurnsTypeOK
<1>2. EndTurn(w) => OnlyTurn(w)
    BY <1>1 DEF EndTurn, OnlyTurn
<1>3. \A s : Step(w, s) => OnlyTurn(w)
    BY <1>1 DEF Step, OnlyTurn
<1>4. \A p : turn' = [turn EXCEPT ![w].step = "claim", ![w].plan = p] => OnlyTurn(w)
    BY <1>1 DEF OnlyTurn
<1>5. \A p : turn' = [turn EXCEPT ![w].plan = p] => OnlyTurn(w)
    BY <1>1 DEF OnlyTurn
<1>6. \A t : turn' = [turn EXCEPT ![w] = t] => OnlyTurn(w)
    BY <1>1 DEF OnlyTurn
<1>7. NextAction(w) => OnlyTurn(w)
    BY <1>2, <1>5 DEF NextAction
<1>8. ASSUME TurnStep(w) PROVE OnlyTurn(w)
  <2>1. CASE StageSilence(w) \/ StageFlagged(w)
      BY <1>2, <1>4, <2>1 DEF StageSilence, StageFlagged
  <2>2. CASE RecordNewMessage(w) \/ RecordEditedMessage(w) \/ UpdateMessageInfo(w)
      BY <1>2, <1>3, <2>2 DEF RecordNewMessage, RecordEditedMessage, UpdateMessageInfo
  <2>3. CASE ModerateMessage(w) \/ RemoderateAcrossModels(w)
      BY <1>2, <1>4, <2>3 DEF ModerateMessage, RemoderateAcrossModels
  <2>4. CASE HandleBadWordDetected(w)
      BY <1>2, <1>3, <2>4 DEF HandleBadWordDetected
  <2>5. CASE \/ AutoModerateReport(w) \/ AutoModerateDelete(w) \/ AutoModerateMute(w)
             \/ WarningWasLast(w)
      BY <1>2, <1>7, <2>5
         DEF AutoModerateReport, AutoModerateDelete, AutoModerateMute, WarningWasLast
  <2>6. CASE AutoModerateRefused(w) \/ AutoModerateWarn(w)
      BY <1>5, <1>7, <2>6 DEF AutoModerateRefused, AutoModerateWarn
  <2> QED
      BY <1>8, <2>1, <2>2, <2>3, <2>4, <2>5, <2>6 DEF TurnStep
<1> QED
    BY <1>6, <1>8 DEF ProcessUpdate, Remoderate

\* What has disturbed a message is not forgotten.
LEMMA NextRemembers == MInv /\ [Next]_vars => Remembers
<1> SUFFICES ASSUME MInv, [Next]_vars PROVE Remembers
    OBVIOUS
<1>1. /\ upset \in [Messages -> SUBSET Reasons]
      /\ \A m \in Messages : \A why : Upset(m, why) => Remembers
    BY UpsetRemembers DEF MInv, WarningsSound, WarningsTypeOK
<1>2. upset' = upset => Remembers
    BY DEF Remembers
<1>3. \A w, m, j : Begin(w, m, j) => Remembers
    BY DEF Begin, Remembers
<1>4. \A w, m, by : StartWarning(w, m, by) => Remembers
    BY <1>3 DEF StartWarning
<1>5. \A w, m : StartCancelling(w, m) \/ StartCreativeReply(w, m) => Remembers
    BY <1>3 DEF StartCancelling, StartCreativeReply
<1>6. ASSUME NEW w \in Workers, TurnStep(w) PROVE Remembers
  <2>1. CASE StageSilence(w) \/ AutoModerateReport(w)
    <3>1. turn[w].step # "idle"
        BY <2>1 DEF StageSilence, AutoModerateReport, Acts, In
    <3>2. turn[w].msg \in Messages
        BY <3>1, TurnAbout
    <3> QED
        BY <1>1, <1>2, <2>1, <3>2 DEF StageSilence, AutoModerateReport
  <2>2. CASE ModerateMessage(w) \/ AutoModerateWarn(w)
      BY <1>2, <1>4, <1>5, <2>2 DEF ModerateMessage, Features, AutoModerateWarn
  <2>3. CASE \/ StageFlagged(w) \/ RecordNewMessage(w) \/ RecordEditedMessage(w)
             \/ UpdateMessageInfo(w) \/ RemoderateAcrossModels(w)
             \/ HandleBadWordDetected(w) \/ AutoModerateDelete(w)
             \/ AutoModerateMute(w) \/ AutoModerateRefused(w) \/ WarningWasLast(w)
      BY <1>2, <2>3
         DEF warningVars, StageFlagged, RecordNewMessage, RecordEditedMessage,
             UpdateMessageInfo, RemoderateAcrossModels, HandleBadWordDetected,
             AutoModerateDelete, AutoModerateMute, AutoModerateRefused, WarningWasLast
  <2> QED
      BY <1>6, <2>1, <2>2, <2>3 DEF TurnStep
<1>7. ASSUME NEW w \in Workers, WarningStep(w) PROVE Remembers
  <2>1. CASE AddWarning(w) \/ SendReply(w) \/ DeleteBotWarningReply(w)
    <3>1. job[w].step # "idle"
        BY <2>1 DEF AddWarning, SendReply, DeleteBotWarningReply, At
    <3>2. job[w].msg \in Messages
        BY <3>1 DEF MInv, WarningsSound, JobsAimed
    <3> QED
        BY <1>1, <1>2, <2>1, <3>2 DEF AddWarning, SendReply, DeleteBotWarningReply
  <2> QED
      BY <1>2, <1>7, <2>1
         DEF WarningStep, UpdateWarningMessageID, RemoveWarningForMessage
<1>8. ASSUME NEW w \in Workers, NEW m \in Messages,
             \/ Remoderate(w, m) \/ HandleWarningAction(w, m) \/ WebWarnUser(w, m)
             \/ CancelWarning(w, m)
      PROVE  Remembers
    BY <1>2, <1>4, <1>5, <1>8
       DEF Remoderate, HandleWarningAction, WebWarnUser, CancelWarning
<1>9. CASE \/ \E w \in Workers : \E u \in pending : ProcessUpdate(w, u)
           \/ \E m \in Messages : \/ Post(m) \/ Edit(m)
                                  \/ HandleMessageLink(m) \/ ClaimExpires(m)
           \/ UNCHANGED vars
    BY <1>2, <1>9 DEF ProcessUpdate, Post, Edit, HandleMessageLink, ClaimExpires, vars,
                      warningVars
<1>10. CASE Crash
    BY <1>10 DEF Crash, Remembers
<1> QED
    BY <1>6, <1>7, <1>8, <1>9, <1>10 DEF Next

-----------------------------------------------------------------------------
(* The steps of a verdict                                                  *)

\* A goroutine that has nothing to show goes on, and others stay where they are.
LEMMA OthersOwe ==
    ASSUME EffectsOwed, Remembers, acted' = acted, NEW w \in Workers, OnlyTurn(w),
           turn[w].step # "dispatch" \/ turn[w].plan = <<>>
    PROVE  EffectsOwed'
BY DEF EffectsOwed, EffectOrOwed, Owed, Remembers, Dispatching, OnlyTurn

\* What a goroutine carries out shows, or the message is upset.
LEMMA Shows ==
    ASSUME EffectsOwed, Remembers, NEW w \in Workers, OnlyTurn(w),
           TurnsTypeOK, turn[w].msg \in Messages,
           \/ Effect(turn[w].msg)
           \/ acted' = acted /\ upset'[turn[w].msg] \cap {"lost", "crash"} # {}
    PROVE  EffectsOwed'
<1> DEFINE m == turn[w].msg
<1>1. \A n \in Messages : acted[n] => acted'[n]
    BY DEF Effect, TurnsTypeOK
<1>2. acted'[m] \/ upset'[m] \cap {"lost", "crash"} # {}
    BY DEF Effect, TurnsTypeOK
<1>3. ASSUME NEW n \in Messages, n # m, Owed(n) PROVE Owed(n)'
    BY <1>3 DEF Owed, Dispatching, OnlyTurn
<1> QED
    BY <1>1, <1>2, <1>3 DEF EffectsOwed, EffectOrOwed, Remembers

\* Nothing happens to turns.
LEMMA StillOwed ==
    ASSUME VInv, Remembers, turn' = turn, acted' = acted
    PROVE  VInv'
BY DEF VInv, HasPlan, EffectsOwed, EffectOrOwed, Owed, Remembers, Dispatching

\* A goroutine that comes to a claim has a plan.
LEMMA PlanAtClaim ==
    ASSUME HasPlan, NEW w \in Workers, OnlyTurn(w),
           turn'[w].step = "claim" => turn'[w].plan # <<>>
    PROVE  HasPlan'
BY DEF HasPlan, OnlyTurn

\* The turn of w after each way of going on.
LEMMA TurnAfter ==
    ASSUME MInv, NEW w \in Workers
    PROVE  /\ EndTurn(w) => turn'[w] = NoTurn
           /\ \A s : Step(w, s) =>
                 /\ turn'[w].step = s /\ turn'[w].plan = turn[w].plan
                 /\ turn'[w].msg = turn[w].msg /\ turn'[w].ver = turn[w].ver
                 /\ turn'[w].upd = turn[w].upd
           /\ \A p : turn' = [turn EXCEPT ![w].step = "claim", ![w].plan = p] =>
                 /\ turn'[w].step = "claim" /\ turn'[w].plan = p
                 /\ turn'[w].msg = turn[w].msg /\ turn'[w].ver = turn[w].ver
                 /\ turn'[w].upd = turn[w].upd
           /\ \A p : turn' = [turn EXCEPT ![w].plan = p] =>
                 /\ turn'[w].step = turn[w].step /\ turn'[w].plan = p
                 /\ turn'[w].msg = turn[w].msg /\ turn'[w].ver = turn[w].ver
                 /\ turn'[w].upd = turn[w].upd
<1>1. turn \in [Workers -> Turn] /\ turn[w] \in Turn
    BY DEF MInv, TurnsSound, TurnsTypeOK
<1>2. EndTurn(w) => turn'[w] = NoTurn
    BY <1>1 DEF EndTurn
<1>3. ASSUME NEW s, Step(w, s)
      PROVE  /\ turn'[w].step = s /\ turn'[w].plan = turn[w].plan
             /\ turn'[w].msg = turn[w].msg /\ turn'[w].ver = turn[w].ver
             /\ turn'[w].upd = turn[w].upd
  <2>1. turn'[w] = [turn[w] EXCEPT !.step = s]
      BY <1>1, <1>3 DEF Step
  <2> QED
      BY <1>1, <2>1 DEF Turn
<1>4. ASSUME NEW p, turn' = [turn EXCEPT ![w].step = "claim", ![w].plan = p]
      PROVE  /\ turn'[w].step = "claim" /\ turn'[w].plan = p
             /\ turn'[w].msg = turn[w].msg /\ turn'[w].ver = turn[w].ver
             /\ turn'[w].upd = turn[w].upd
  <2>1. turn'[w] = [turn[w] EXCEPT !.step = "claim", !.plan = p]
      BY <1>1, <1>4
  <2> QED
      BY <1>1, <2>1 DEF Turn
<1>5. ASSUME NEW p, turn' = [turn EXCEPT ![w].plan = p]
      PROVE  /\ turn'[w].step = turn[w].step /\ turn'[w].plan = p
             /\ turn'[w].msg = turn[w].msg /\ turn'[w].ver = turn[w].ver
             /\ turn'[w].upd = turn[w].upd
  <2>1. turn'[w] = [turn[w] EXCEPT !.plan = p]
      BY <1>1, <1>5
  <2> QED
      BY <1>1, <2>1 DEF Turn
<1> QED
    BY <1>2, <1>3, <1>4, <1>5

LEMMA NoTurnParts ==
    /\ NoTurn.step = "idle" /\ NoTurn.plan = <<>>
    /\ NoTurn.upd = NoUpdate /\ NoTurn.msg = NoMessage /\ NoTurn.ver = 0
BY DEF NoTurn

\* Before the verdict is carried out.
LEMMA ArrivalOwes ==
    ASSUME MInv, VInv, Remembers, NEW w \in Workers,
           \/ StageSilence(w) \/ StageFlagged(w)
           \/ RecordNewMessage(w) \/ RecordEditedMessage(w) \/ UpdateMessageInfo(w)
           \/ ModerateMessage(w) \/ RemoderateAcrossModels(w)
    PROVE  VInv'
<1>1. OnlyTurn(w)
    BY TurnsOfOthers DEF TurnStep
<1>2. turn[w].step # "dispatch" /\ acted' = acted
    BY DEF StageSilence, StageFlagged, RecordNewMessage, RecordEditedMessage,
           UpdateMessageInfo, ModerateMessage, RemoderateAcrossModels, In
<1>3. EffectsOwed'
    BY <1>1, <1>2, OthersOwe DEF VInv
<1>4. turn'[w].step = "claim" => turn'[w].plan # <<>>
  <2>1. CASE StageSilence(w)
      BY <2>1, TurnAfter, NoTurnParts DEF StageSilence
  <2>2. CASE StageFlagged(w)
      BY <2>2, TurnAfter, NoTurnParts DEF StageFlagged
  <2>3. CASE \/ RecordNewMessage(w) \/ RecordEditedMessage(w)
             \/ UpdateMessageInfo(w)
    <3>1. EndTurn(w) \/ Step(w, "save") \/ Step(w, "judge")
        BY <2>3 DEF RecordNewMessage, RecordEditedMessage, UpdateMessageInfo
    <3>2. \A s \in {"save", "judge"} : Step(w, s) => turn'[w].step = s
        BY TurnAfter
    <3> QED
        BY <3>1, <3>2, TurnAfter, NoTurnParts
  <2>4. ASSUME NEW p, turn' = [turn EXCEPT ![w].step = "claim", ![w].plan = p],
               p # <<>>
        PROVE  turn'[w].plan # <<>>
      BY <2>4, TurnAfter
  <2>5. CASE ModerateMessage(w)
    <3>1. \/ EndTurn(w)
          \/ \E v \in Receipts :
                /\ v.plan # <<>>
                /\ turn' = [turn EXCEPT ![w].step = "claim", ![w].plan = v.plan]
        BY <2>5 DEF ModerateMessage
    <3> QED
        BY <2>4, <3>1, TurnAfter, NoTurnParts
  <2>6. CASE RemoderateAcrossModels(w)
    <3>1. \A v : PlanOf(v) # <<>>
        BY DEF PlanOf
    <3>2. \/ EndTurn(w)
          \/ \E v \in Rejudgements :
                turn' = [turn EXCEPT ![w].step = "claim", ![w].plan = PlanOf(v)]
        BY <2>6 DEF RemoderateAcrossModels
    <3> QED
        BY <2>4, <3>1, <3>2, TurnAfter, NoTurnParts
  <2> QED
      BY <2>1, <2>2, <2>3, <2>5, <2>6
<1> QED
    BY <1>1, <1>3, <1>4, PlanAtClaim DEF VInv

\* The claim succeeds: from here to its first effect the verdict is owed.
LEMMA ClaimOwes ==
    ASSUME MInv, VInv, Remembers, NEW w \in Workers, HandleBadWordDetected(w)
    PROVE  VInv'
<1>0. turn[w].msg \in Messages
    BY TurnAbout DEF HandleBadWordDetected, In
<1> PICK m \in Messages : m = turn[w].msg
    BY <1>0
<1>1. OnlyTurn(w)
    BY TurnsOfOthers DEF TurnStep
<1>2. turn[w].step = "claim" /\ turn[w].plan # <<>>
    BY DEF HandleBadWordDetected, In, VInv, HasPlan
<1>3. CASE EndTurn(w) /\ acted' = acted
  <2>1. EffectsOwed'
      BY <1>1, <1>2, <1>3, OthersOwe DEF VInv
  <2> QED
      BY <1>1, <1>3, <2>1, TurnAfter, NoTurnParts, PlanAtClaim DEF VInv
<1>4. CASE Step(w, "dispatch") /\ acted' = [acted EXCEPT ![m] = FALSE]
  <2>1. turn'[w].step = "dispatch" /\ turn'[w].msg = m /\ turn'[w].plan # <<>>
      BY <1>2, <1>4, TurnAfter
  <2>2. HasPlan'
      BY <1>1, <2>1, PlanAtClaim DEF VInv
  <2>3. Owed(m)'
      BY <2>1 DEF Owed, Dispatching
  <2>4. \A n \in Messages : n # m => acted'[n] = acted[n]
      BY <1>4 DEF MInv, TurnsSound, TurnsTypeOK
  <2>5. \A n \in Messages : Owed(n) => Owed(n)'
      BY <1>1, <1>2 DEF Owed, Dispatching, OnlyTurn
  <2>6. ASSUME NEW n \in Messages PROVE EffectOrOwed(n)'
    <3>1. EffectOrOwed(n) /\ upset[n] \subseteq upset'[n]
        BY DEF VInv, EffectsOwed, Remembers
    <3>2. CASE n = m
        BY <2>3, <3>2 DEF EffectOrOwed
    <3>3. CASE n # m
        BY <2>4, <2>5, <3>1, <3>3 DEF EffectOrOwed
    <3> QED
        BY <3>2, <3>3
  <2>7. EffectsOwed'
      BY <2>6 DEF EffectsOwed
  <2> QED
      BY <2>2, <2>7 DEF VInv
<1> QED
    BY <1>3, <1>4 DEF HandleBadWordDetected

\* Each action shows, is reported in the place of one that was refused, or is lost.
LEMMA ActingShows ==
    ASSUME MInv, VInv, Remembers, NEW w \in Workers,
           \/ AutoModerateReport(w) \/ AutoModerateDelete(w)
           \/ AutoModerateMute(w) \/ AutoModerateRefused(w)
           \/ AutoModerateWarn(w) \/ WarningWasLast(w)
    PROVE  VInv'
<1> DEFINE m == turn[w].msg
<1> USE DEF Acts
<1>1. OnlyTurn(w)
    BY TurnsOfOthers DEF TurnStep
<1>2. turn[w].step = "dispatch"
    BY DEF AutoModerateReport, AutoModerateDelete, AutoModerateMute,
           AutoModerateRefused, AutoModerateWarn, WarningWasLast, In
<1>3. TurnsTypeOK /\ m \in Messages /\ upset \in [Messages -> SUBSET Reasons]
    BY <1>2, TurnAbout DEF MInv, TurnsSound, WarningsSound, WarningsTypeOK
<1>4. HasPlan'
  <2>1. turn'[w].step # "claim"
    <3>1. EndTurn(w) \/ \E p : turn' = [turn EXCEPT ![w].plan = p]
        BY DEF AutoModerateReport, AutoModerateDelete, AutoModerateMute, NextAction,
               AutoModerateRefused, AutoModerateWarn, WarningWasLast
    <3> QED
        BY <1>2, <3>1, TurnAfter, NoTurnParts
  <2> QED
      BY <1>1, <2>1, PlanAtClaim DEF VInv
<1>5. CASE Effect(m)
  <2>1. EffectsOwed'
      BY <1>1, <1>3, <1>5, Shows DEF VInv
  <2> QED
      BY <1>4, <2>1 DEF VInv
<1>6. CASE acted' = acted /\ Upset(m, {"lost"})
  <2>1. upset'[m] \cap {"lost", "crash"} # {}
      BY <1>3, <1>6 DEF Upset
  <2>2. EffectsOwed'
      BY <1>1, <1>3, <1>6, <2>1, Shows DEF VInv
  <2> QED
      BY <1>4, <2>2 DEF VInv
<1>7. CASE AutoModerateRefused(w)
  <2> DEFINE p == Fallback(turn[w].plan)
  <2>1. turn' = [turn EXCEPT ![w].plan = p] /\ acted' = acted /\ turn[w].plan # <<>>
      BY <1>7 DEF AutoModerateRefused
  <2>2. p # <<>>
    <3>1. turn[w].plan \in Seq(Actions)
        BY <1>3 DEF TurnsTypeOK, Turn
    <3>2. Tail(turn[w].plan) \in Seq(Actions)
        BY <2>1, <3>1
    <3> QED
        BY <3>2 DEF Fallback, Actions
  <2> HIDE DEF p
  <2>3. turn'[w].step = "dispatch" /\ turn'[w].msg = m /\ turn'[w].plan # <<>>
      BY <1>2, <2>1, <2>2, TurnAfter
  <2>4. \A n \in Messages : Owed(n) => Owed(n)'
      BY <1>1, <2>3 DEF Owed, Dispatching, OnlyTurn
  <2>5. EffectsOwed'
      BY <2>1, <2>4 DEF VInv, EffectsOwed, EffectOrOwed, Remembers
  <2> QED
      BY <1>4, <2>5 DEF VInv
<1>8. CASE WarningWasLast(w)
  <2>1. EffectsOwed'
      BY <1>1, <1>8, OthersOwe DEF WarningWasLast, VInv
  <2> QED
      BY <1>4, <2>1 DEF VInv
<1> QED
    BY <1>5, <1>6, <1>7, <1>8
       DEF AutoModerateReport, AutoModerateDelete, AutoModerateMute, AutoModerateWarn

\* A crash forgets the plans, and is on record with every message that had one.
LEMMA CrashOwes ==
    ASSUME MInv, VInv, Crash
    PROVE  VInv'
<1>1. HasPlan'
    BY NoTurnParts DEF Crash, HasPlan
<1>2. ASSUME NEW m \in Messages, Owed(m) PROVE "crash" \in upset'[m]
  <2>1. ~Quiet(m)
      BY <1>2 DEF Owed, Dispatching, Quiet
  <2> QED
      BY <2>1 DEF Crash
<1>3. \A m \in Messages : upset[m] \subseteq upset'[m]
    BY DEF Crash
<1>4. EffectsOwed'
    BY <1>2, <1>3 DEF Crash, VInv, EffectsOwed, EffectOrOwed
<1> QED
    BY <1>1, <1>4 DEF VInv

LEMMA InitOwes == Init => VInv
BY NoTurnParts DEF Init, VInv, HasPlan, EffectsOwed, EffectOrOwed

LEMMA NextOwes == MInv /\ VInv /\ [Next]_vars => VInv'
<1> SUFFICES ASSUME MInv, VInv, [Next]_vars PROVE VInv'
    OBVIOUS
<1>1. Remembers
    BY NextRemembers
<1>2. ASSUME NEW w \in Workers, TurnStep(w) PROVE VInv'
    BY <1>1, <1>2, ArrivalOwes, ClaimOwes, ActingShows DEF TurnStep
<1>3. ASSUME NEW w \in Workers,
             \/ \E u \in pending : ProcessUpdate(w, u)
             \/ \E m \in Messages : Remoderate(w, m)
      PROVE  VInv'
  <2>1. OnlyTurn(w) /\ turn[w] = NoTurn /\ acted' = acted
      BY <1>3, TurnsOfOthers DEF ProcessUpdate, Remoderate, Free
  <2>2. EffectsOwed'
      BY <1>1, <2>1, OthersOwe, NoTurnParts DEF VInv
  <2>3. turn'[w].step \in {"record", "rejudge"}
    <3>1. turn \in [Workers -> Turn]
        BY DEF MInv, TurnsSound, TurnsTypeOK
    <3>2. CASE \E u \in pending : ProcessUpdate(w, u)
        BY <3>1, <3>2 DEF ProcessUpdate, NoTurn
    <3>3. CASE \E m \in Messages : Remoderate(w, m)
        BY <3>1, <3>3 DEF Remoderate, NoTurn
    <3> QED
        BY <1>3, <3>2, <3>3
  <2> QED
      BY <2>1, <2>2, <2>3, PlanAtClaim DEF VInv
<1>4. CASE turn' = turn /\ acted' = acted
    BY <1>1, <1>4, StillOwed
<1>5. CASE \/ \E w \in Workers :
                \/ WarningStep(w) /\ UNCHANGED moderationVars
                \/ \E m \in Messages : \/ HandleWarningAction(w, m)
                                       \/ WebWarnUser(w, m) \/ CancelWarning(w, m)
           \/ \E m \in Messages : \/ Post(m) \/ Edit(m)
                                  \/ HandleMessageLink(m) \/ ClaimExpires(m)
           \/ UNCHANGED vars
    BY <1>4, <1>5
       DEF HandleWarningAction, WebWarnUser, CancelWarning, Post, Edit,
           HandleMessageLink, ClaimExpires, vars, moderationVars
<1> QED
    BY <1>2, <1>3, <1>5, CrashOwes DEF Next

\* For any rules, plans, updates and faults: when nobody is at a message, the last
\* verdict on it has shown, or a card for the admins was lost or the process died.  What
\* Telegram refuses is reported instead (autoModerateDelete, autoModerateMute).
THEOREM VerdictsShow == Spec => []ActedOrReported
<1>1. ASSUME VInv PROVE ActedOrReported
  <2>1. \A m \in Messages : Quiet(m) => ~Owed(m)
      BY DEF Quiet, Owed, Dispatching
  <2> QED
      BY <1>1, <2>1 DEF VInv, EffectsOwed, EffectOrOwed, ActedOrReported
<1>2. Init => VInv
    BY InitOwes
<1>3. MInv /\ VInv /\ [Next]_vars => VInv'
    BY NextOwes
<1> QED
    BY <1>1, <1>2, <1>3, Invariance, PTL DEF Spec

-----------------------------------------------------------------------------
(***************************************************************************)
(* The text on record has been before a model.  Until then a goroutine is  *)
(* about to ask one, or Telegram delivers the update again.                *)
(***************************************************************************)

\* An update at work is claimed and still to be answered, and is one goroutine's.
Taken ==
    \A w \in Workers : turn[w].upd # NoUpdate =>
        /\ turn[w].upd \in pending /\ turn[w].upd \in seen
        /\ turn[w].upd.msg = turn[w].msg /\ turn[w].upd.ver = turn[w].ver
        /\ \A v \in Workers : turn[v].upd = turn[w].upd => v = w

\* The update that posted what is on record is delivered again.
Redelivered(m) ==
    \E u \in pending : /\ u \notin seen
                       /\ u.msg = m /\ u.kind = "new" /\ u.ver = info[m].text

\* Goroutine w has what is on record before it, and asks the models.
Reads(w, m) ==
    /\ turn[w].msg = m /\ turn[w].ver = info[m].text
    /\ \/ turn[w].step = "judge"
       \/ turn[w].step = "record" /\ turn[w].upd.kind = "new"

OnItsWay(m) == Redelivered(m) \/ \E w \in Workers : Reads(w, m)

\* No model has been asked of the text on record.
Unread(m) ==
    /\ alive[m] /\ info[m].text \notin {Missing, Removed}
    /\ "cut" \notin upset[m]
    /\ info[m].text \notin judged[m]

JInv == Taken /\ \A m \in Messages : Unread(m) => OnItsWay(m)

-----------------------------------------------------------------------------
(* What keeps the invariant                                                *)

\* An update that may be delivered again is not lost.
NewsKept ==
    \A u \in pending : u \notin seen /\ u.kind = "new" => u \in pending' /\ u \notin seen'

LEMMA NoUpdateKind == NoUpdate.kind = "none" /\ NoUpdate \notin Update
BY MessagesAssumption DEF NoUpdate, Update

\* A turn goes on with its update, or ends and answers it.
Proceeds(w) ==
    \/ EndTurn(w)
    \/ /\ pending' = pending
       /\ turn'[w].upd = turn[w].upd
       /\ turn'[w].msg = turn[w].msg /\ turn'[w].ver = turn[w].ver

LEMMA TurnProceeds ==
    ASSUME MInv, NEW w \in Workers, TurnStep(w)
    PROVE  Proceeds(w) /\ seen' = seen
<1>1. \A s : Step(w, s) /\ pending' = pending => Proceeds(w)
    BY TurnAfter DEF Proceeds
<1>2. \A p : /\ turn' = [turn EXCEPT ![w].step = "claim", ![w].plan = p]
             /\ pending' = pending
             => Proceeds(w)
    BY TurnAfter DEF Proceeds
<1>3. \A p : turn' = [turn EXCEPT ![w].plan = p] /\ pending' = pending => Proceeds(w)
    BY TurnAfter DEF Proceeds
<1>4. EndTurn(w) => Proceeds(w)
    BY DEF Proceeds
<1>5. NextAction(w) => Proceeds(w)
    BY <1>3, <1>4 DEF NextAction
<1>6. CASE StageSilence(w) \/ StageFlagged(w)
    BY <1>2, <1>4, <1>6 DEF StageSilence, StageFlagged
<1>7. CASE RecordNewMessage(w) \/ RecordEditedMessage(w) \/ UpdateMessageInfo(w)
    BY <1>1, <1>4, <1>7 DEF RecordNewMessage, RecordEditedMessage, UpdateMessageInfo
<1>8. CASE ModerateMessage(w) \/ RemoderateAcrossModels(w)
    BY <1>2, <1>4, <1>8 DEF ModerateMessage, RemoderateAcrossModels
<1>9. CASE HandleBadWordDetected(w)
    BY <1>1, <1>4, <1>9 DEF HandleBadWordDetected
<1>10. CASE \/ AutoModerateReport(w) \/ AutoModerateDelete(w) \/ AutoModerateMute(w)
            \/ WarningWasLast(w)
    BY <1>4, <1>5, <1>10
       DEF AutoModerateReport, AutoModerateDelete, AutoModerateMute, WarningWasLast
<1>11. CASE AutoModerateRefused(w) \/ AutoModerateWarn(w)
    BY <1>3, <1>5, <1>11 DEF AutoModerateRefused, AutoModerateWarn
<1> QED
    BY <1>6, <1>7, <1>8, <1>9, <1>10, <1>11 DEF TurnStep

LEMMA ProceedsTaken ==
    ASSUME MInv, Taken, NEW w \in Workers, OnlyTurn(w), Proceeds(w), seen' = seen
    PROVE  Taken' /\ NewsKept
<1>1. CASE EndTurn(w)
  <2>1. turn'[w].upd = NoUpdate /\ pending' = pending \ {turn[w].upd}
      BY <1>1, TurnAfter, NoTurnParts DEF EndTurn
  <2>2. NewsKept
      BY <2>1, NoUpdateKind DEF Taken, NewsKept
  <2>3. Taken'
      BY <2>1 DEF Taken, OnlyTurn
  <2> QED
      BY <2>2, <2>3
<1>2. CASE ~EndTurn(w)
  <2>1. /\ pending' = pending
        /\ turn'[w].upd = turn[w].upd
        /\ turn'[w].msg = turn[w].msg /\ turn'[w].ver = turn[w].ver
      BY <1>2 DEF Proceeds
  <2>2. \A v \in Workers : /\ turn'[v].upd = turn[v].upd
                           /\ turn'[v].msg = turn[v].msg /\ turn'[v].ver = turn[v].ver
      BY <2>1 DEF OnlyTurn
  <2> QED
      BY <2>1, <2>2 DEF Taken, NewsKept
<1> QED
    BY <1>1, <1>2

\* What is on its way stays so, unless its reader moves on.
LEMMA StillOnItsWay ==
    ASSUME JInv, NewsKept, NEW n \in Messages, Unread(n), info'[n].text = info[n].text,
           \A v \in Workers : Reads(v, n) => turn'[v] = turn[v]
    PROVE  OnItsWay(n)'
<1>1. CASE Redelivered(n)
    BY <1>1 DEF Redelivered, NewsKept, OnItsWay
<1>2. ASSUME NEW v \in Workers, Reads(v, n) PROVE Reads(v, n)'
    BY <1>2 DEF Reads
<1> QED
    BY <1>1, <1>2 DEF JInv, OnItsWay

\* A text that is unread after a step was so before, or has been written.
LEMMA UnreadBefore ==
    ASSUME Remembers, NEW n \in Messages, Unread(n)', info'[n].text = info[n].text,
           alive'[n] => alive[n], judged[n] \subseteq judged'[n]
    PROVE  Unread(n)
BY DEF Unread, Remembers

\* A step that leaves every text and its readers.
LEMMA NothingRead ==
    ASSUME JInv, Remembers, NewsKept, Taken', info' = info,
           \A n \in Messages : alive'[n] => alive[n], judged' = judged,
           \A v \in Workers, n \in Messages : Reads(v, n) => turn'[v] = turn[v]
    PROVE  JInv'
<1>1. ASSUME NEW n \in Messages, Unread(n)' PROVE OnItsWay(n)'
  <2>1. Unread(n)
      BY <1>1, UnreadBefore
  <2> QED
      BY <2>1, StillOnItsWay
<1> QED
    BY <1>1 DEF JInv

-----------------------------------------------------------------------------
(* The steps                                                               *)

\* Of its turn's message a goroutine may read what is on record, or write it.
LEMMA TurnReads ==
    ASSUME MInv, JInv, Remembers, NEW w \in Workers, TurnStep(w),
           NEW m \in Messages, m = turn[w].msg,
           /\ \A n \in Messages \ {m} :
                 info'[n] = info[n] /\ alive'[n] = alive[n] /\ judged'[n] = judged[n]
           /\ Unread(m)' => OnItsWay(m)'
    PROVE  JInv'
<1>1. OnlyTurn(w) /\ Proceeds(w) /\ seen' = seen
    BY TurnsOfOthers, TurnProceeds
<1>2. Taken' /\ NewsKept
    BY <1>1, ProceedsTaken DEF JInv
<1>3. ASSUME NEW n \in Messages, Unread(n)', n # m PROVE OnItsWay(n)'
  <2>1. Unread(n)
      BY <1>3, UnreadBefore
  <2>2. \A v \in Workers : Reads(v, n) => turn'[v] = turn[v]
      BY <1>1, <1>3 DEF Reads, OnlyTurn
  <2> QED
      BY <1>2, <1>3, <2>1, <2>2, StillOnItsWay
<1> QED
    BY <1>2, <1>3 DEF JInv

\* The turn's message, when its goroutine was no reader.
LEMMA NotTheReader ==
    ASSUME MInv, JInv, Remembers, NEW w \in Workers, TurnStep(w),
           NEW m \in Messages, ~Reads(w, m), Unread(m)', info'[m].text = info[m].text,
           alive'[m] => alive[m], judged[m] \subseteq judged'[m]
    PROVE  OnItsWay(m)'
<1>1. OnlyTurn(w) /\ Proceeds(w) /\ seen' = seen
    BY TurnsOfOthers, TurnProceeds
<1>2. Taken' /\ NewsKept
    BY <1>1, ProceedsTaken DEF JInv
<1>3. Unread(m)
    BY UnreadBefore
<1>4. \A v \in Workers : Reads(v, m) => turn'[v] = turn[v]
    BY <1>1 DEF OnlyTurn
<1> QED
    BY <1>2, <1>3, <1>4, StillOnItsWay

LEMMA StagesRead ==
    ASSUME MInv, JInv, Remembers, NEW w \in Workers, StageSilence(w) \/ StageFlagged(w)
    PROVE  JInv'
<1>1. TurnStep(w) /\ turn[w].step # "idle"
    BY DEF TurnStep, StageSilence, StageFlagged, In
<1>2. turn[w].msg \in Messages
    BY <1>1, TurnAbout
<1> PICK m \in Messages : m = turn[w].msg
    BY <1>2
<1>3. /\ alive \in [Messages -> BOOLEAN] /\ judged \in [Messages -> SUBSET Nat]
      /\ upset \in [Messages -> SUBSET Reasons]
    BY DEF MInv, TurnsSound, TurnsTypeOK, WarningsSound, WarningsTypeOK
<1>4. CASE StageSilence(w)
  <2>1. info' = info /\ judged' = judged
      BY <1>4 DEF StageSilence
  <2>2. \A n \in Messages \ {m} : alive'[n] = alive[n]
      BY <1>3, <1>4 DEF StageSilence
  <2>3. ~Unread(m)'
    <3>1. ~alive'[m] \/ "cut" \in upset'[m]
        BY <1>3, <1>4 DEF StageSilence, Upset
    <3> QED
        BY <3>1 DEF Unread
  <2> QED
      BY <1>1, <2>1, <2>2, <2>3, TurnReads
<1>5. CASE StageFlagged(w)
  <2>1. /\ info' = info /\ alive' = alive
        /\ judged' = [judged EXCEPT ![m] = @ \cup {turn[w].ver}]
      BY <1>5 DEF StageFlagged, chatVars
  <2>2. /\ \A n \in Messages \ {m} : judged'[n] = judged[n]
        /\ judged'[m] = judged[m] \cup {turn[w].ver}
      BY <1>3, <2>1
  <2>3. ASSUME Unread(m)' PROVE OnItsWay(m)'
    <3>1. ~Reads(w, m)
        BY <2>1, <2>2, <2>3 DEF Unread, Reads
    <3>2. info'[m].text = info[m].text /\ alive'[m] = alive[m]
        BY <2>1
    <3>3. judged[m] \subseteq judged'[m]
        BY <2>2
    <3> QED
        BY <1>1, <2>3, <3>1, <3>2, <3>3, NotTheReader
  <2> QED
      BY <1>1, <2>1, <2>2, <2>3, TurnReads
<1> QED
    BY <1>4, <1>5

\* What is stored is read next.
LEMMA RecordingReads ==
    ASSUME MInv, JInv, Remembers, NEW w \in Workers,
           \/ RecordNewMessage(w) \/ RecordEditedMessage(w) \/ UpdateMessageInfo(w)
    PROVE  JInv'
<1>1. TurnStep(w) /\ turn[w].step # "idle"
    BY DEF TurnStep, RecordNewMessage, RecordEditedMessage, UpdateMessageInfo, In
<1>2. turn[w].msg \in Messages
    BY <1>1, TurnAbout
<1> PICK m \in Messages : m = turn[w].msg
    BY <1>2
<1>3. info \in [Messages -> Info]
    BY DEF MInv, TurnsSound, TurnsTypeOK
<1>4. alive' = alive /\ judged' = judged
    BY DEF RecordNewMessage, RecordEditedMessage, UpdateMessageInfo, chatVars
<1>5. CASE RecordNewMessage(w) \/ UpdateMessageInfo(w)
  <2>1. Step(w, "judge") /\ info' = [info EXCEPT ![m].text = turn[w].ver]
      BY <1>5 DEF RecordNewMessage, UpdateMessageInfo, Upserted
  <2>2. \A n \in Messages \ {m} : info'[n] = info[n]
      BY <1>3, <2>1
  <2>3. info'[m].text = turn[w].ver
    <3>1. info'[m] = [info[m] EXCEPT !.text = turn[w].ver]
        BY <1>3, <2>1
    <3> QED
        BY <1>3, <3>1 DEF Info
  <2>4. turn'[w].step = "judge" /\ turn'[w].msg = m /\ turn'[w].ver = turn[w].ver
      BY <2>1, TurnAfter
  <2>5. Reads(w, m)'
      BY <2>3, <2>4 DEF Reads
  <2>6. OnItsWay(m)'
      BY <2>5 DEF OnItsWay
  <2> QED
      BY <1>1, <1>4, <2>2, <2>6, TurnReads
<1>6. CASE RecordEditedMessage(w)
  <2>1. info' = info /\ ~Reads(w, m)
      BY <1>6 DEF RecordEditedMessage, In, Reads
  <2>2. Unread(m)' => OnItsWay(m)'
      BY <1>1, <1>4, <2>1, NotTheReader
  <2> QED
      BY <1>1, <1>4, <2>1, <2>2, TurnReads
<1> QED
    BY <1>5, <1>6

\* The models are asked of what the turn has before it.
LEMMA JudgingReads ==
    ASSUME MInv, JInv, Remembers, NEW w \in Workers,
           ModerateMessage(w) \/ RemoderateAcrossModels(w)
    PROVE  JInv'
<1>1. TurnStep(w) /\ turn[w].step \in {"judge", "rejudge"}
    BY DEF TurnStep, ModerateMessage, RemoderateAcrossModels, In
<1>2. turn[w].msg \in Messages
    BY <1>1, TurnAbout
<1> PICK m \in Messages : m = turn[w].msg
    BY <1>2
<1>3. info \in [Messages -> Info] /\ judged \in [Messages -> SUBSET Nat]
    BY DEF MInv, TurnsSound, TurnsTypeOK
<1>4. alive' = alive
    BY DEF ModerateMessage, RemoderateAcrossModels, chatVars
<1>5. PICK v : info' = [info EXCEPT ![m] = Blanked(info[m], v)]
    BY DEF ModerateMessage, RemoderateAcrossModels
<1>6. /\ \A n \in Messages \ {m} : info'[n] = info[n]
      /\ info'[m] = Blanked(info[m], v)
    BY <1>3, <1>5
<1>7. info'[m].text \in {Removed, info[m].text}
    BY <1>3, <1>6 DEF Blanked, Info
<1>8. PICK S : judged' = [judged EXCEPT ![m] = judged[m] \cup S]
    BY DEF ModerateMessage, RemoderateAcrossModels
<1>9. /\ \A n \in Messages \ {m} : judged'[n] = judged[n]
      /\ judged'[m] = judged[m] \cup S
    BY <1>3, <1>8
<1>10. turn[w].step = "judge" => turn[w].ver \in judged'[m]
    BY <1>3 DEF ModerateMessage, RemoderateAcrossModels, In
<1>11. ASSUME Unread(m)' PROVE OnItsWay(m)'
  <2>1. info'[m].text = info[m].text
      BY <1>7, <1>11 DEF Unread
  <2>2. ~Reads(w, m)
      BY <1>1, <1>10, <1>11, <2>1 DEF Reads, Unread
  <2>3. judged[m] \subseteq judged'[m] /\ alive'[m] = alive[m]
      BY <1>4, <1>9
  <2> QED
      BY <1>1, <1>11, <2>1, <2>2, <2>3, NotTheReader
<1> QED
    BY <1>1, <1>4, <1>6, <1>9, <1>11, TurnReads

\* A verdict on a message reads nothing.
LEMMA ActingReads ==
    ASSUME MInv, JInv, Remembers, NEW w \in Workers,
           \/ HandleBadWordDetected(w)
           \/ AutoModerateReport(w) \/ AutoModerateDelete(w)
           \/ AutoModerateMute(w) \/ AutoModerateRefused(w)
           \/ AutoModerateWarn(w) \/ WarningWasLast(w)
    PROVE  JInv'
<1>1. TurnStep(w) /\ turn[w].step \in {"claim", "dispatch"}
    BY DEF TurnStep, HandleBadWordDetected, AutoModerateReport, AutoModerateDelete,
           AutoModerateMute, AutoModerateRefused, AutoModerateWarn, WarningWasLast,
           Acts, In
<1>2. turn[w].msg \in Messages
    BY <1>1, TurnAbout
<1> PICK m \in Messages : m = turn[w].msg
    BY <1>2
<1>3. info \in [Messages -> Info] /\ alive \in [Messages -> BOOLEAN]
    BY DEF MInv, TurnsSound, TurnsTypeOK
<1>4. judged' = judged
    BY DEF HandleBadWordDetected, AutoModerateReport, AutoModerateDelete,
           AutoModerateMute, AutoModerateRefused, AutoModerateWarn, WarningWasLast
<1>5. alive' = alive \/ alive' = [alive EXCEPT ![m] = FALSE]
    BY DEF HandleBadWordDetected, AutoModerateReport, AutoModerateDelete,
           AutoModerateMute, AutoModerateRefused, AutoModerateWarn, WarningWasLast,
           chatVars
<1>6. /\ \A n \in Messages \ {m} : alive'[n] = alive[n]
      /\ alive'[m] => alive[m]
    BY <1>3, <1>5
<1>7. info' = info \/ info' = [info EXCEPT ![m].reason = info[m].reason \/ Recorded(m)]
    BY DEF HandleBadWordDetected, AutoModerateReport, AutoModerateDelete,
           AutoModerateMute, AutoModerateRefused, AutoModerateWarn, WarningWasLast
<1>8. /\ \A n \in Messages \ {m} : info'[n] = info[n]
      /\ info'[m].text = info[m].text
  <2>1. CASE info' = info
      BY <2>1
  <2>2. CASE info' = [info EXCEPT ![m].reason = info[m].reason \/ Recorded(m)]
    <3>1. info'[m] = [info[m] EXCEPT !.reason = info[m].reason \/ Recorded(m)]
        BY <1>3, <2>2
    <3>2. info'[m].text = info[m].text
        BY <1>3, <3>1 DEF Info
    <3>3. \A n \in Messages \ {m} : info'[n] = info[n]
        BY <1>3, <2>2
    <3> QED
        BY <3>2, <3>3
  <2> QED
      BY <1>7, <2>1, <2>2
<1>9. ~Reads(w, m)
    BY <1>1 DEF Reads
<1>10. Unread(m)' => OnItsWay(m)'
    BY <1>1, <1>4, <1>6, <1>8, <1>9, NotTheReader
<1> QED
    BY <1>1, <1>4, <1>6, <1>8, <1>10, TurnReads

\* The update that was to be delivered again is taken up.
LEMMA UptakeReads ==
    ASSUME MInv, JInv, Remembers, NEW w \in Workers, NEW u \in pending,
           ProcessUpdate(w, u)
    PROVE  JInv'
<1>1. OnlyTurn(w) /\ turn[w] = NoTurn /\ u \notin seen /\ seen' = seen \cup {u}
    BY TurnsOfOthers DEF ProcessUpdate, Free
<1>2. u \in Update /\ u # NoUpdate
    BY NoUpdateKind DEF MInv, TurnsSound, TurnsTypeOK
<1>3. pending' = pending /\ info' = info /\ alive' = alive /\ judged' = judged
    BY DEF ProcessUpdate, chatVars
<1>4. /\ turn'[w].step = "record" /\ turn'[w].upd = u
      /\ turn'[w].msg = u.msg /\ turn'[w].ver = u.ver
  <2>1. turn'[w] = [NoTurn EXCEPT !.step = "record", !.upd = u,
                                  !.msg = u.msg, !.ver = u.ver]
      BY DEF ProcessUpdate, MInv, TurnsSound, TurnsTypeOK
  <2> QED
      BY <2>1 DEF NoTurn
<1>5. Taken'
  <2>1. \A v \in Workers \ {w} : turn'[v] = turn[v] /\ turn'[v].upd # u
      BY <1>1, <1>2 DEF OnlyTurn, JInv, Taken
  <2> QED
      BY <1>1, <1>3, <1>4, <2>1 DEF JInv, Taken
<1>6. ASSUME NEW n \in Messages, Unread(n)' PROVE OnItsWay(n)'
  <2>1. Unread(n)
      BY <1>3, <1>6, UnreadBefore
  <2>2. CASE Redelivered(n)
    <3>1. PICK x \in pending : /\ x \notin seen
                               /\ x.msg = n /\ x.kind = "new" /\ x.ver = info[n].text
        BY <2>2 DEF Redelivered
    <3>2. CASE x = u
      <4>1. Reads(w, n)'
          BY <1>3, <1>4, <3>1, <3>2 DEF Reads
      <4> QED
          BY <4>1 DEF OnItsWay
    <3>3. CASE x # u
      <4>1. x \in pending' /\ x \notin seen'
          BY <1>1, <1>3, <3>1, <3>3
      <4>2. Redelivered(n)'
          BY <1>3, <3>1, <4>1 DEF Redelivered
      <4> QED
          BY <4>2 DEF OnItsWay
    <3> QED
        BY <3>2, <3>3
  <2>3. ASSUME NEW v \in Workers, Reads(v, n) PROVE OnItsWay(n)'
    <3>1. v # w
        BY <1>1, <2>3, NoTurnParts DEF Reads
    <3>2. Reads(v, n)'
        BY <1>1, <1>3, <2>3, <3>1 DEF Reads, OnlyTurn
    <3> QED
        BY <3>2 DEF OnItsWay
  <2> QED
      BY <2>1, <2>2, <2>3 DEF JInv, OnItsWay
<1> QED
    BY <1>5, <1>6 DEF JInv

\* A crash returns the updates at work to Telegram; what is lost is on record.
LEMMA CrashReads ==
    ASSUME MInv, JInv, Remembers, Crash
    PROVE  JInv'
<1>1. PICK lost \in SUBSET {turn[w].upd : w \in Workers} :
          /\ pending' = pending \ lost
          /\ \A m \in Messages : CutShort(m, lost) => "cut" \in upset'[m]
    BY DEF Crash
<1>2. /\ seen' = {} /\ info' = info /\ alive' = alive /\ judged' = judged
      /\ \A w \in Workers : turn'[w] = NoTurn
    BY DEF Crash, chatVars
<1>3. Taken'
    BY <1>2, NoTurnParts DEF Taken
<1>4. \A x \in lost : x = NoUpdate \/ x \in seen
    BY <1>1 DEF JInv, Taken
<1>5. ASSUME NEW n \in Messages, Unread(n)' PROVE OnItsWay(n)'
  <2>1. Unread(n) /\ ~CutShort(n, lost)
      BY <1>1, <1>2, <1>5, UnreadBefore DEF Unread
  <2>2. CASE Redelivered(n)
    <3>1. PICK x \in pending : /\ x \notin seen
                               /\ x.msg = n /\ x.kind = "new" /\ x.ver = info[n].text
        BY <2>2 DEF Redelivered
    <3>2. x \in pending' /\ x \notin seen'
        BY <1>1, <1>2, <1>4, <3>1, NoUpdateKind
    <3>3. Redelivered(n)'
        BY <1>2, <3>1, <3>2 DEF Redelivered
    <3> QED
        BY <3>3 DEF OnItsWay
  <2>3. ASSUME NEW w \in Workers, Reads(w, n) PROVE OnItsWay(n)'
    <3>1. turn[w].upd.kind = "new" /\ turn[w].upd \notin lost
        BY <2>1, <2>3 DEF Reads, CutShort
    <3>2. /\ turn[w].upd \in pending /\ turn[w].upd.msg = n
          /\ turn[w].upd.ver = info[n].text
        BY <2>3, <3>1, NoUpdateKind DEF JInv, Taken, Reads
    <3>3. turn[w].upd \in pending' /\ turn[w].upd \notin seen'
        BY <1>1, <1>2, <3>1, <3>2
    <3>4. Redelivered(n)'
        BY <1>2, <3>1, <3>2, <3>3 DEF Redelivered
    <3> QED
        BY <3>4 DEF OnItsWay
  <2> QED
      BY <2>1, <2>2, <2>3 DEF JInv, OnItsWay
<1> QED
    BY <1>3, <1>5 DEF JInv

LEMMA InitReads == Init => JInv
BY NoTurnParts DEF Init, JInv, Taken, Unread, Missing

LEMMA NextReads == MInv /\ JInv /\ [Next]_vars => JInv'
<1> SUFFICES ASSUME MInv, JInv, [Next]_vars PROVE JInv'
    OBVIOUS
<1>1. Remembers
    BY NextRemembers
<1>2. ASSUME NEW w \in Workers, TurnStep(w) PROVE JInv'
    BY <1>1, <1>2, StagesRead, RecordingReads, JudgingReads, ActingReads DEF TurnStep
<1>3. ASSUME NEW w \in Workers, NEW m \in Messages, Remoderate(w, m) PROVE JInv'
  <2>1. OnlyTurn(w) /\ turn[w] = NoTurn
      BY <1>3, TurnsOfOthers DEF Remoderate, Free
  <2>2. /\ pending' = pending /\ seen' = seen
        /\ info' = info /\ alive' = alive /\ judged' = judged
      BY <1>3 DEF Remoderate, chatVars
  <2>3. turn'[w].upd = NoUpdate
      BY <1>3 DEF Remoderate, NoTurn, MInv, TurnsSound, TurnsTypeOK
  <2>4. Taken' /\ NewsKept
      BY <2>1, <2>2, <2>3 DEF JInv, Taken, NewsKept, OnlyTurn
  <2>5. \A v \in Workers, n \in Messages : Reads(v, n) => turn'[v] = turn[v]
      BY <2>1, NoTurnParts DEF Reads, OnlyTurn
  <2> QED
      BY <1>1, <2>2, <2>4, <2>5, NothingRead
<1>4. ASSUME pending \subseteq pending', seen' = seen, turn' = turn, info' = info,
             alive' = alive, judged' = judged
      PROVE  JInv'
  <2>1. Taken' /\ NewsKept
      BY <1>4 DEF JInv, Taken, NewsKept
  <2> QED
      BY <1>1, <1>4, <2>1, NothingRead
<1>5. CASE \/ \E w \in Workers :
                \/ WarningStep(w) /\ UNCHANGED moderationVars
                \/ \E m \in Messages : \/ HandleWarningAction(w, m)
                                       \/ WebWarnUser(w, m) \/ CancelWarning(w, m)
           \/ \E m \in Messages : \/ Post(m) \/ Edit(m)
                                  \/ HandleMessageLink(m) \/ ClaimExpires(m)
           \/ UNCHANGED vars
    BY <1>4, <1>5
       DEF HandleWarningAction, WebWarnUser, CancelWarning, Post, Edit,
           HandleMessageLink, ClaimExpires, vars, moderationVars, chatVars
<1> QED
    BY <1>1, <1>2, <1>3, <1>5, UptakeReads, CrashReads DEF Next

\* For any number of messages, versions and goroutines, whatever overlaps: the text on
\* record has been before a model, or is about to be when Telegram delivers it again,
\* unless a crash came between the two (RecordIncomingMessage, UpdateMessageInfo,
\* moderateMessage).
THEOREM TextsAreJudged == Spec => []StoredIsJudged
<1>1. ASSUME JInv PROVE StoredIsJudged
  <2>1. \A m \in Messages : Quiet(m) => \A w \in Workers : ~Reads(w, m)
      BY DEF Quiet, Reads
  <2> QED
      BY <1>1, <2>1 DEF JInv, OnItsWay, Unread, Redelivered, StoredIsJudged
<1>2. Init => JInv
    BY InitReads
<1>3. MInv /\ JInv /\ [Next]_vars => JInv'
    BY NextReads
<1> QED
    BY <1>1, <1>2, <1>3, Invariance, PTL DEF Spec

-----------------------------------------------------------------------------
(***************************************************************************)
(* A warning in the chat stands for a row.  The rows of a message lead to  *)
(* its reply, by its number or because it is the latest there is, and so   *)
(* does the number that a cancellation has read before it deletes them.    *)
(***************************************************************************)

\* What happens to the replies about m is not the bot's to keep in order.
Excused(m) ==
    \/ upset[m] \cap {"overlap", "refused", "crash"} # {}
    \/ "untracked" \in upset[m] /\ \E s \in stored : s.kind = "creative" /\ s.to = m.num
    \/ \E n \in Messages : n.num = m.num /\ n # m

\* The warnings about m that are in its chat.
Live(m) == {r \in replies : r.kind = "warning" /\ r.chat = m.chat /\ r.to = m.num}

\* A cancellation that goes by number n deletes r.
Leads(n, r, m) ==
    \/ n = r.num
    \/ /\ n = 0 /\ "untracked" \in upset[m]
       /\ \A s \in stored : s.chat = m.chat /\ s.to = m.num => s.num <= r.num

\* Goroutine w is at step s with the warnings of m.
Stands(w, m, s) == job[w].step = s /\ job[w].by # "creative" /\ job[w].msg = m

\* The rows of m lead to r.
Kept(r, m) == RowsFor(m) # {} /\ \A q \in RowsFor(m) : Leads(q.reply, r, m)

Traced(m) ==
    \A r \in Live(m) :
        \/ Kept(r, m)
        \/ RowsFor(m) # {} /\ \E w \in Workers : Stands(w, m, "record")
        \/ \E w \in Workers : Stands(w, m, "unsend")

\* What goroutine w knows of the warnings it is at.
Steady(w, m) ==
    /\ Stands(w, m, "insert") => Live(m) = {}
    /\ Stands(w, m, "send") => /\ Live(m) = {} /\ RowsFor(m) # {}
                               /\ \A q \in RowsFor(m) : q.reply = 0
    /\ Stands(w, m, "record") => /\ RowsFor(m) # {}
                                 /\ \A r \in Live(m) : r.num = job[w].reply
    /\ Stands(w, m, "remove") \/ Stands(w, m, "unsend") =>
          \A r \in Live(m) : Leads(job[w].reply, r, m)

InOrder(m) == Traced(m) /\ \A w \in Workers : Steady(w, m)

\* The bot's messages are on record and numbered in the order of the chat.
Numbered ==
    /\ replies \subseteq stored
    /\ \A s \in stored : s.num > 0 /\ s.num <= last[s.chat]
    /\ \A c \in Chats : last[c] > 0

\* Who does what.
Kinds ==
    \A w \in Workers :
        /\ job[w].step = "insert" => job[w].by \in Writers
        /\ job[w].step = "send" => job[w].by \in Writers \cup {"creative"}
        /\ job[w].by = "creative" => job[w].step = "send"

RInv == Numbered /\ Kinds /\ \A m \in Messages : ~Excused(m) => InOrder(m)

-----------------------------------------------------------------------------
(* What keeps the invariant                                                *)

\* The job of w has nothing to do with the warnings of m.
Aside(w, m) == job[w].msg # m \/ job[w].by = "creative"

OnlyJob(w) == \A v \in Workers \ {w} : job'[v] = job[v]

LEMMA StillExcused ==
    ASSUME Remembers, stored \subseteq stored', NEW m \in Messages, ~Excused(m)'
    PROVE  ~Excused(m)
BY DEF Excused, Remembers

\* What leads to a reply still does, if the bot says nothing more to the message.
LEMMA LeadsStay ==
    ASSUME Remembers, NEW m \in Messages, NEW r, NEW n, Leads(n, r, m),
           "untracked" \in upset[m] => \A s \in stored' \ stored : s.to # m.num
    PROVE  Leads(n, r, m)'
BY DEF Leads, Remembers

\* Nothing happens to the warnings of m.
LEMMA LeftAlone ==
    ASSUME Remembers, NEW m \in Messages, InOrder(m),
           RowsFor(m)' = RowsFor(m), Live(m)' \subseteq Live(m),
           "untracked" \in upset[m] => \A s \in stored' \ stored : s.to # m.num,
           \A v \in Workers : job'[v] = job[v] \/ (Aside(v, m) /\ Aside(v, m)')
    PROVE  InOrder(m)'
<1>1. \A r \in Live(m)' : \A n : Leads(n, r, m) => Leads(n, r, m)'
    BY LeadsStay
<1>2. \A v \in Workers, s \in {"insert", "send", "record", "remove", "unsend"} :
          /\ Stands(v, m, s)' <=> Stands(v, m, s)
          /\ Stands(v, m, s)' => job'[v] = job[v]
    BY DEF Stands, Aside
<1>3. Traced(m)'
  <2> SUFFICES ASSUME NEW r \in Live(m)'
               PROVE  \/ Kept(r, m)'
                      \/ RowsFor(m)' # {} /\ \E w \in Workers : Stands(w, m, "record")'
                      \/ \E w \in Workers : Stands(w, m, "unsend")'
      BY DEF Traced
  <2>1. \/ Kept(r, m)
        \/ RowsFor(m) # {} /\ \E w \in Workers : Stands(w, m, "record")
        \/ \E w \in Workers : Stands(w, m, "unsend")
      BY DEF InOrder, Traced
  <2>2. Kept(r, m) => Kept(r, m)'
      BY <1>1 DEF Kept
  <2> QED
      BY <1>2, <2>1, <2>2
<1>4. ASSUME NEW w \in Workers PROVE Steady(w, m)'
  <2>1. Steady(w, m)
      BY DEF InOrder
  <2>2. Stands(w, m, "insert")' => Live(m)' = {}
      BY <1>2, <2>1 DEF Steady
  <2>3. Stands(w, m, "send")' => /\ Live(m)' = {} /\ RowsFor(m)' # {}
                                 /\ \A q \in RowsFor(m)' : q.reply = 0
      BY <1>2, <2>1 DEF Steady
  <2>4. Stands(w, m, "record")' => /\ RowsFor(m)' # {}
                                   /\ \A r \in Live(m)' : r.num = job'[w].reply
      BY <1>2, <2>1 DEF Steady
  <2>5. ASSUME Stands(w, m, "remove")' \/ Stands(w, m, "unsend")', NEW r \in Live(m)'
        PROVE  Leads(job[w].reply, r, m)'
    <3>1. Leads(job[w].reply, r, m) /\ job'[w] = job[w]
        BY <1>2, <2>1, <2>5 DEF Steady
    <3>2. PICK k : k = job[w].reply
        OBVIOUS
    <3>3. Leads(k, r, m)' /\ job'[w].reply = k
        BY <1>1, <3>1, <3>2
    <3> QED
        BY <3>3 DEF Leads
  <2> QED
      BY <2>2, <2>3, <2>4, <2>5 DEF Steady
<1> QED
    BY <1>3, <1>4 DEF InOrder

\* Who is alone at the warnings of m remains so.
LEMMA NobodyElse ==
    ASSUME NEW w \in Workers, NEW m \in Messages, OnlyJob(w),
           \A v \in Workers \ {w} : ~Working(v, m)
    PROVE  \A v \in Workers \ {w}, s \in {"insert", "send", "record", "remove", "unsend"} :
               ~Stands(v, m, s) /\ ~Stands(v, m, s)'
BY DEF Working, Stands, OnlyJob

\* It suffices to look at the one goroutine.
LEMMA ForOne ==
    ASSUME NEW w \in Workers, NEW m \in Messages, OnlyJob(w),
           \A v \in Workers \ {w} : ~Working(v, m),
           Traced(m)', Steady(w, m)'
    PROVE  InOrder(m)'
<1>1. \A v \in Workers \ {w} : Steady(v, m)'
    BY NobodyElse DEF Steady
<1> QED
    BY <1>1 DEF InOrder

-----------------------------------------------------------------------------
(* The steps of a warning and of a cancellation                            *)

\* The job of w after each way of going on.
LEMMA JobAfter ==
    ASSUME WarningsSound, NEW w \in Workers
    PROVE  /\ Done(w) => OnlyJob(w) /\ job'[w] = NoJob
           /\ \A s : Goto(w, s) =>
                 /\ OnlyJob(w) /\ job'[w].step = s /\ job'[w].by = job[w].by
                 /\ job'[w].msg = job[w].msg /\ job'[w].reply = job[w].reply
           /\ \A n : job' = [job EXCEPT ![w].step = "record", ![w].reply = n] =>
                 /\ OnlyJob(w) /\ job'[w].step = "record" /\ job'[w].by = job[w].by
                 /\ job'[w].msg = job[w].msg /\ job'[w].reply = n
<1>1. job \in [Workers -> Job] /\ job[w] \in Job
    BY DEF WarningsSound, WarningsTypeOK
<1>2. Done(w) => OnlyJob(w) /\ job'[w] = NoJob
    BY <1>1 DEF Done, OnlyJob
<1>3. ASSUME NEW s, Goto(w, s)
      PROVE  /\ OnlyJob(w) /\ job'[w].step = s /\ job'[w].by = job[w].by
             /\ job'[w].msg = job[w].msg /\ job'[w].reply = job[w].reply
  <2>1. OnlyJob(w) /\ job'[w] = [job[w] EXCEPT !.step = s]
      BY <1>1, <1>3 DEF Goto, OnlyJob
  <2> QED
      BY <1>1, <2>1 DEF Job
<1>4. ASSUME NEW n, job' = [job EXCEPT ![w].step = "record", ![w].reply = n]
      PROVE  /\ OnlyJob(w) /\ job'[w].step = "record" /\ job'[w].by = job[w].by
             /\ job'[w].msg = job[w].msg /\ job'[w].reply = n
  <2>1. OnlyJob(w) /\ job'[w] = [job[w] EXCEPT !.step = "record", !.reply = n]
      BY <1>1, <1>4 DEF OnlyJob
  <2> QED
      BY <1>1, <2>1 DEF Job
<1> QED
    BY <1>2, <1>3, <1>4

LEMMA NoJobParts ==
    /\ NoJob.step = "idle" /\ NoJob.by = "none" /\ NoJob.msg = NoMessage
    /\ NoJob.reply = 0 /\ NoMessage \notin Messages
BY MessagesAssumption DEF NoJob

\* Goroutine w is at the warnings of m, alone unless that is on record.
LEMMA AtWork ==
    ASSUME MInv, WInv, RInv, NEW w \in Workers, job[w].step # "idle",
           NEW m \in Messages, job[w].msg = m, ~Excused(m)
    PROVE  /\ InOrder(m)
           /\ job[w].by # "creative" => \A v \in Workers \ {w} : ~Working(v, m)
<1>1. "overlap" \notin upset[m]
    BY DEF Excused
<1>2. Alone(m) /\ InOrder(m)
    BY <1>1 DEF WInv, RInv
<1> QED
    BY <1>2 DEF Alone, Working

\* Whose job has ended is at no warnings.
LEMMA DoneSteady ==
    ASSUME NEW w \in Workers, NEW m \in Messages, job'[w] = NoJob
    PROVE  Steady(w, m)' /\ Aside(w, m)'
BY NoJobParts DEF Steady, Stands, Aside

\* Messages that are not excused have numbers of their own.
LEMMA OtherNumber ==
    ASSUME NEW m \in Messages, NEW n \in Messages, ~Excused(n), n # m
    PROVE  n.num # m.num
BY DEF Excused

LEMMA AddWarningTraced ==
    ASSUME MInv, WInv, RInv, Remembers, NEW w \in Workers, AddWarning(w),
           NEW n \in Messages, ~Excused(n)'
    PROVE  InOrder(n)'
<1>1. /\ job[w].step = "insert" /\ job[w].by # "creative" /\ job[w].msg \in Messages
      /\ WarningsSound
    BY DEF AddWarning, At, RInv, Kinds, Writers, MInv, WarningsSound, JobsAimed
<1> PICK m \in Messages : m = job[w].msg
    BY <1>1
<1>2. replies' = replies /\ stored' = stored
    BY DEF AddWarning
<1>3. ~Excused(n) /\ InOrder(n)
    BY <1>2, StillExcused DEF RInv
<1>4. Live(n)' = Live(n)
    BY <1>2 DEF Live
<1>5. \/ rows' = rows \cup {NewRow(serial + 1, m)} /\ Goto(w, "send")
      \/ /\ rows' = rows \cup {NewRow(serial + 1, m), NewRow(serial + 2, m)}
         /\ Goto(w, "send")
      \/ rows' = rows /\ Done(w)
    BY DEF AddWarning
<1>6. OnlyJob(w)
    BY <1>1, <1>5, JobAfter
<1>7. \A k : NewRow(k, m).num = m.num /\ NewRow(k, m).reply = 0
    BY DEF NewRow
<1>8. CASE n # m
  <2>1. RowsFor(n)' = RowsFor(n)
      BY <1>3, <1>5, <1>7, <1>8, OtherNumber DEF RowsFor
  <2>2. Aside(w, n) /\ Aside(w, n)'
      BY <1>1, <1>5, <1>8, JobAfter, DoneSteady DEF Aside
  <2> QED
      BY <1>2, <1>3, <1>4, <1>6, <2>1, <2>2, LeftAlone DEF OnlyJob
<1>9. CASE n = m
  <2>1. \A v \in Workers \ {w} : ~Working(v, n)
      BY <1>1, <1>3, <1>9, AtWork
  <2>2. Live(n)' = {}
      BY <1>1, <1>3, <1>4, <1>9 DEF InOrder, Steady, Stands
  <2>3. Traced(n)'
      BY <2>2 DEF Traced
  <2>4. RowsFor(n) = {}
      BY <1>1, <1>3, <1>9 DEF WInv, Unwarned, Excused
  <2>5. Steady(w, n)'
    <3>1. CASE Done(w)
        BY <1>1, <3>1, JobAfter, DoneSteady
    <3>2. CASE /\ Goto(w, "send")
               /\ \/ rows' = rows \cup {NewRow(serial + 1, m)}
                  \/ rows' = rows \cup {NewRow(serial + 1, m), NewRow(serial + 2, m)}
      <4>1. job'[w].step = "send"
          BY <1>1, <3>2, JobAfter
      <4>2. RowsFor(n)' # {} /\ \A q \in RowsFor(n)' : q.reply = 0
          BY <1>7, <1>9, <2>4, <3>2 DEF RowsFor
      <4> QED
          BY <2>2, <4>1, <4>2 DEF Steady, Stands
    <3> QED
        BY <1>5, <3>1, <3>2
  <2> QED
      BY <1>6, <2>1, <2>3, <2>5, ForOne
<1> QED
    BY <1>8, <1>9

LEMMA SendReplyTraced ==
    ASSUME MInv, WInv, RInv, Remembers, NEW w \in Workers, SendReply(w),
           NEW n \in Messages, ~Excused(n)'
    PROVE  InOrder(n)'
<1>1. /\ job[w].step = "send" /\ job[w].msg \in Messages /\ WarningsSound
      /\ job[w].by \in Writers \cup {"creative"}
    BY DEF SendReply, At, RInv, Kinds, MInv, WarningsSound, JobsAimed
<1> PICK m \in Messages : m = job[w].msg
    BY <1>1
<1> DEFINE c == m.chat
           r == NewReply(w)
<1>2. rows' = rows /\ RowsFor(n)' = RowsFor(n)
    BY DEF SendReply, RowsFor
<1>3. ~Excused(n) /\ InOrder(n)
  <2>1. stored \subseteq stored'
      BY DEF SendReply
  <2> QED
      BY <2>1, StillExcused DEF RInv
<1>4. CASE Done(w) /\ UNCHANGED <<replies, stored, last>>
  <2>1. OnlyJob(w) /\ Steady(w, n)' /\ Aside(w, n)' /\ Live(n)' = Live(n)
      BY <1>1, <1>4, JobAfter, DoneSteady DEF Live
  <2>2. CASE n # m \/ job[w].by = "creative"
      BY <1>2, <1>3, <1>4, <2>1, <2>2, LeftAlone DEF OnlyJob, Aside
  <2>3. CASE n = m /\ job[w].by # "creative"
    <3>1. \A v \in Workers \ {w} : ~Working(v, n)
        BY <1>1, <1>3, <2>3, AtWork
    <3>2. Live(n)' = {}
        BY <1>1, <1>3, <2>1, <2>3 DEF InOrder, Steady, Stands
    <3> QED
        BY <2>1, <3>1, <3>2, ForOne DEF Traced
  <2> QED
      BY <2>2, <2>3
<1>5. CASE /\ replies' = replies \cup {r} /\ stored' = stored \cup {r}
           /\ Delivered(w)
           /\ IF job[w].by = "web" THEN Upset(m, {"untracked"}) ELSE UNCHANGED upset
  <2>1. /\ r.chat = c /\ r.num = last[c] + 1 /\ r.to = m.num
        /\ r.kind = IF job[w].by = "creative" THEN "creative" ELSE "warning"
      BY DEF NewReply
  <2> HIDE DEF r
  <2>2. /\ OnlyJob(w)
        /\ job[w].by \in {"admin", "rule"} =>
              /\ job'[w].step = "record" /\ job'[w].by = job[w].by
              /\ job'[w].msg = m /\ job'[w].reply = r.num
        /\ job[w].by \notin {"admin", "rule"} => job'[w] = NoJob
      BY <1>1, <1>5, JobAfter DEF Delivered, r
  <2>3. CASE n # m
    <3>1. n.num # m.num
        BY <1>3, <2>3, OtherNumber
    <3>2. Live(n)' = Live(n) /\ \A s \in stored' \ stored : s.to # n.num
        BY <1>5, <2>1, <3>1 DEF Live
    <3>3. Aside(w, n) /\ Aside(w, n)'
        BY <2>2, <2>3, DoneSteady DEF Aside
    <3> QED
        BY <1>2, <1>3, <2>2, <3>2, <3>3, LeftAlone DEF OnlyJob
  <2>4. CASE n = m /\ job[w].by = "creative"
    <3>1. "untracked" \notin upset[n]
      <4>1. r \in stored' /\ r.kind = "creative" /\ r.to = n.num
          BY <1>5, <2>1, <2>4
      <4>2. "untracked" \notin upset'[n]
          BY <4>1 DEF Excused
      <4> QED
          BY <4>2 DEF Remembers
    <3>2. Live(n)' = Live(n)
        BY <1>5, <2>1, <2>4 DEF Live
    <3>3. Aside(w, n) /\ Aside(w, n)'
        BY <2>2, <2>4, DoneSteady DEF Aside
    <3> QED
        BY <1>2, <1>3, <2>2, <3>1, <3>2, <3>3, LeftAlone DEF OnlyJob
  <2>5. CASE n = m /\ job[w].by # "creative"
    <3>1. \A v \in Workers \ {w} : ~Working(v, n)
        BY <1>1, <1>3, <2>5, AtWork
    <3>2. Live(n) = {} /\ RowsFor(n) # {} /\ \A q \in RowsFor(n) : q.reply = 0
        BY <1>1, <1>3, <2>5 DEF InOrder, Steady, Stands
    <3>3. \A x \in Live(n)' : x = r
        BY <1>5, <3>2 DEF Live
    <3>4. CASE job[w].by \in {"admin", "rule"}
      <4>1. Stands(w, n, "record")'
          BY <2>2, <2>5, <3>4 DEF Stands
      <4>2. Traced(n)'
          BY <1>2, <3>2, <4>1 DEF Traced
      <4>3. Steady(w, n)'
          BY <1>2, <2>2, <3>2, <3>3, <3>4 DEF Steady, Stands
      <4> QED
          BY <2>2, <3>1, <4>2, <4>3, ForOne
    <3>5. CASE job[w].by = "web"
      <4>1. "untracked" \in upset'[n]
          BY <1>5, <2>5, <3>5 DEF Upset, MInv, WarningsSound, WarningsTypeOK
      <4>2. \A s \in stored' : s.chat = n.chat /\ s.to = n.num => s.num <= r.num
        <5>1. c \in Chats /\ last \in [Chats -> Nat] /\ stored \subseteq Reply
            BY MessageParts DEF MInv, WarningsSound, WarningsTypeOK
        <5>2. ASSUME NEW s \in stored, s.chat = c PROVE s.num <= r.num
          <6>1. s.num <= last[c] /\ s.num \in Nat /\ last[c] \in Nat
              BY <5>1, <5>2 DEF RInv, Numbered, Reply
          <6> QED
              BY <2>1, <6>1
        <5>3. r.num <= r.num
            BY <2>1, <5>1
        <5> QED
            BY <1>5, <2>5, <5>2, <5>3
      <4>3. ASSUME NEW x \in Live(n)' PROVE Kept(x, n)'
        <5>1. Leads(0, x, n)'
            BY <3>3, <4>1, <4>2, <4>3 DEF Leads
        <5> QED
            BY <1>2, <3>2, <5>1 DEF Kept
      <4>4. Traced(n)'
          BY <4>3 DEF Traced
      <4>5. Steady(w, n)'
          BY <2>2, <3>5, DoneSteady
      <4> QED
          BY <2>2, <3>1, <4>4, <4>5, ForOne
    <3> QED
        BY <1>1, <2>5, <3>4, <3>5 DEF Writers
  <2> QED
      BY <2>3, <2>4, <2>5
<1> QED
    BY <1>4, <1>5 DEF SendReply

\* The reply's number is recorded in every row of the message.
LEMMA UpdateWarningTraced ==
    ASSUME MInv, WInv, RInv, Remembers, NEW w \in Workers, UpdateWarningMessageID(w),
           NEW n \in Messages, ~Excused(n)'
    PROVE  InOrder(n)'
<1>1. /\ job[w].step = "record" /\ job[w].by # "creative" /\ job[w].msg \in Messages
      /\ WarningsSound
    BY DEF UpdateWarningMessageID, At, RInv, Kinds, MInv, WarningsSound, JobsAimed
<1> PICK m \in Messages : m = job[w].msg
    BY <1>1
<1>2. replies' = replies /\ stored' = stored /\ Done(w)
    BY DEF UpdateWarningMessageID
<1>3. ~Excused(n) /\ InOrder(n)
    BY <1>2, StillExcused DEF RInv
<1>4. /\ Live(n)' = Live(n) /\ OnlyJob(w)
      /\ Steady(w, n)' /\ Aside(w, n)'
    BY <1>1, <1>2, JobAfter, DoneSteady DEF Live
<1> DEFINE new(q) == IF q.num = m.num THEN [q EXCEPT !.reply = job[w].reply] ELSE q
<1>5. rows' = {new(q) : q \in rows}
    BY DEF UpdateWarningMessageID
<1>6. \A q \in rows : /\ new(q).num = q.num
                      /\ q.num = m.num => new(q).reply = job[w].reply
                      /\ q.num # m.num => new(q) = q
    BY DEF MInv, WarningsSound, WarningsTypeOK, Row
<1> HIDE DEF new
<1>7. CASE n # m
  <2>1. n.num # m.num
      BY <1>3, <1>7, OtherNumber
  <2>2. RowsFor(n)' = RowsFor(n)
      BY <1>5, <1>6, <2>1 DEF RowsFor
  <2> QED
      BY <1>2, <1>3, <1>4, <1>7, <2>2, LeftAlone DEF OnlyJob, Aside
<1>8. CASE n = m
  <2>1. \A v \in Workers \ {w} : ~Working(v, n)
      BY <1>1, <1>3, <1>8, AtWork
  <2>2. RowsFor(n) # {} /\ \A r \in Live(n) : r.num = job[w].reply
      BY <1>1, <1>3, <1>8 DEF InOrder, Steady, Stands
  <2>3. RowsFor(n)' # {} /\ \A q \in RowsFor(n)' : q.reply = job[w].reply
      BY <1>5, <1>6, <1>8, <2>2 DEF RowsFor
  <2>4. ASSUME NEW r \in Live(n)' PROVE Kept(r, n)'
    <3>1. r.num = job[w].reply
        BY <1>4, <2>2
    <3> QED
        BY <2>3, <3>1 DEF Kept, Leads
  <2> QED
      BY <1>4, <2>1, <2>4, ForOne DEF Traced
<1> QED
    BY <1>7, <1>8

\* The rows go; what they led to is the cancellation's.
LEMMA RemoveWarningTraced ==
    ASSUME MInv, WInv, RInv, Remembers, NEW w \in Workers, RemoveWarningForMessage(w),
           NEW n \in Messages, ~Excused(n)'
    PROVE  InOrder(n)'
<1>1. /\ job[w].step = "remove" /\ job[w].by # "creative" /\ job[w].msg \in Messages
      /\ WarningsSound
    BY DEF RemoveWarningForMessage, At, RInv, Kinds, MInv, WarningsSound, JobsAimed
<1> PICK m \in Messages : m = job[w].msg
    BY <1>1
<1>2. /\ replies' = replies /\ stored' = stored /\ upset' = upset
      /\ Goto(w, "unsend") /\ rows' = rows \ RowsFor(m)
    BY DEF RemoveWarningForMessage
<1>3. ~Excused(n) /\ InOrder(n)
    BY <1>2, StillExcused DEF RInv
<1>4. /\ Live(n)' = Live(n) /\ OnlyJob(w)
      /\ job'[w].step = "unsend" /\ job'[w].by = job[w].by
      /\ job'[w].msg = m /\ job'[w].reply = job[w].reply
    BY <1>1, <1>2, JobAfter DEF Live
<1>5. CASE n # m
  <2>1. RowsFor(n)' = RowsFor(n)
      BY <1>2, <1>3, <1>5, OtherNumber DEF RowsFor
  <2> QED
      BY <1>2, <1>3, <1>4, <1>5, <2>1, LeftAlone DEF OnlyJob, Aside
<1>6. CASE n = m
  <2>1. \A v \in Workers \ {w} : ~Working(v, n)
      BY <1>1, <1>3, <1>6, AtWork
  <2>2. Traced(n)'
      BY <1>1, <1>4, <1>6 DEF Traced, Stands
  <2>3. \A r \in Live(n) : Leads(job[w].reply, r, n)
      BY <1>1, <1>3, <1>6 DEF InOrder, Steady, Stands
  <2>4. ASSUME NEW r \in Live(n)' PROVE Leads(job[w].reply, r, n)'
      BY <1>2, <1>4, <2>3, <2>4 DEF Leads
  <2>5. Steady(w, n)'
      BY <1>4, <2>4 DEF Steady, Stands
  <2> QED
      BY <1>4, <2>1, <2>2, <2>5, ForOne
<1> QED
    BY <1>5, <1>6

\* The reply that was led to is the one that Telegram is asked to delete.
LEMMA LedToIsUnsent ==
    ASSUME MInv, RInv, NEW w \in Workers, NEW m \in Messages, job[w].msg = m,
           NEW r \in Live(m), Leads(job[w].reply, r, m)
    PROVE  r \in Unsent(job[w])
<1>1. r \in replies /\ r \in stored /\ r.chat = m.chat /\ r.to = m.num
    BY DEF Live, RInv, Numbered
<1>2. r.num \in Nat /\ r.num > 0 /\ \A s \in stored : s.num \in Nat
    BY <1>1 DEF RInv, Numbered, MInv, WarningsSound, WarningsTypeOK, Reply
<1>3. CASE job[w].reply = r.num
    BY <1>1, <1>2, <1>3 DEF Unsent
<1>4. CASE /\ job[w].reply = 0
           /\ \A s \in stored : s.chat = m.chat /\ s.to = m.num => s.num <= r.num
  <2>1. r \in FindBotReplyMessage(m)
      BY <1>1, <1>4 DEF FindBotReplyMessage
  <2> QED
      BY <1>1, <1>4, <2>1 DEF Unsent
<1> QED
    BY <1>3, <1>4 DEF Leads

LEMMA DeleteReplyTraced ==
    ASSUME MInv, WInv, RInv, Remembers, NEW w \in Workers, DeleteBotWarningReply(w),
           NEW n \in Messages, ~Excused(n)'
    PROVE  InOrder(n)'
<1>1. /\ job[w].step = "unsend" /\ job[w].by # "creative" /\ job[w].msg \in Messages
      /\ WarningsSound /\ upset \in [Messages -> SUBSET Reasons]
    BY DEF DeleteBotWarningReply, At, RInv, Kinds, MInv, WarningsSound, JobsAimed,
           WarningsTypeOK
<1> PICK m \in Messages : m = job[w].msg
    BY <1>1
<1>2. stored' = stored /\ rows' = rows /\ Done(w) /\ replies' \subseteq replies
    BY DEF DeleteBotWarningReply
<1>3. ~Excused(n) /\ InOrder(n)
    BY <1>2, StillExcused DEF RInv
<1>4. /\ Live(n)' \subseteq Live(n) /\ RowsFor(n)' = RowsFor(n) /\ OnlyJob(w)
      /\ Steady(w, n)' /\ Aside(w, n)'
    BY <1>1, <1>2, JobAfter, DoneSteady DEF Live, RowsFor
<1>5. CASE n # m
    BY <1>2, <1>3, <1>4, <1>5, LeftAlone DEF OnlyJob, Aside
<1>6. CASE n = m
  <2>1. \A v \in Workers \ {w} : ~Working(v, n)
      BY <1>1, <1>3, <1>6, AtWork
  <2>2. "refused" \notin upset'[n]
      BY DEF Excused
  <2>3. replies' = replies \ Unsent(job[w])
      BY <1>1, <1>6, <2>2 DEF DeleteBotWarningReply, Upset
  <2>4. \A r \in Live(n) : Leads(job[w].reply, r, n)
      BY <1>1, <1>3, <1>6 DEF InOrder, Steady, Stands
  <2>5. \A r \in Live(n) : r \in Unsent(job[w])
      BY <1>6, <2>4, LedToIsUnsent
  <2>6. Live(n)' = {}
      BY <1>4, <2>3, <2>5 DEF Live
  <2> QED
      BY <1>4, <2>1, <2>6, ForOne DEF Traced
<1> QED
    BY <1>5, <1>6

-----------------------------------------------------------------------------
(* Beginnings                                                              *)

\* Where rows lead, the number that is read from them leads.
LEMMA ReadFromRow ==
    ASSUME WarningsSound, NEW m \in Messages, RowsFor(m) # {}
    PROVE  \E q \in RowsFor(m) : GetWarningMessageID(m) = q.reply
<1>1. \A r \in RowsFor(m) : r.id \in Nat /\ r.id <= serial
    BY DEF RowsFor, WarningsSound, WarningsTypeOK, Row
<1>2. \E r \in RowsFor(m) : \A q \in RowsFor(m) : q.id <= r.id
    BY <1>1, LatestRow DEF WarningsSound, WarningsTypeOK
<1>3. (CHOOSE r \in RowsFor(m) : \A q \in RowsFor(m) : q.id <= r.id) \in RowsFor(m)
    BY <1>2
<1> QED
    BY <1>3 DEF GetWarningMessageID

\* A goroutine begins, and has met nobody.
LEMMA BegunAlone ==
    ASSUME MInv, NEW w \in Workers, NEW m \in Messages, NEW j \in Job, Begin(w, m, j),
           NEW n \in Messages, ~Excused(n)', job[w] = NoJob
    PROVE  /\ OnlyJob(w) /\ job'[w] = j
           /\ n = m /\ j.by # "creative" => \A v \in Workers : ~Working(v, n)
<1>1. job \in [Workers -> Job]
    BY DEF MInv, WarningsSound, WarningsTypeOK
<1>2. OnlyJob(w) /\ job'[w] = j
    BY <1>1 DEF Begin, OnlyJob
<1>3. ASSUME n = m, j.by # "creative", NEW v \in Workers, Working(v, n) PROVE FALSE
  <2>1. v # w
      BY <1>3, NoJobParts DEF Working
  <2>2. job[v].msg # NoMessage
      BY <1>3, NoJobParts DEF Working, MInv, WarningsSound, JobsAimed
  <2>3. "overlap" \in upset'[n]
      BY <1>3, <2>1, <2>2 DEF Begin, Working
  <2> QED
      BY <2>3 DEF Excused
<1> QED
    BY <1>2, <1>3

LEMMA StartsTraced ==
    ASSUME MInv, WInv, RInv, Remembers, NEW w \in Workers, NEW m \in Messages,
           job[w] = NoJob,
           rows' = rows, replies' = replies, stored' = stored,
           \/ \E by \in Writers : StartWarning(w, m, by)
           \/ StartCancelling(w, m)
           \/ StartCreativeReply(w, m),
           NEW n \in Messages, ~Excused(n)'
    PROVE  InOrder(n)'
<1>1. ~Excused(n) /\ InOrder(n) /\ Aside(w, n)
    BY StillExcused, NoJobParts DEF RInv, Aside
<1>2. RowsFor(n)' = RowsFor(n) /\ Live(n)' = Live(n)
    BY DEF RowsFor, Live
<1>3. ASSUME NEW j \in Job, Begin(w, m, j), j.msg = m, n # m \/ j.by = "creative"
      PROVE  InOrder(n)'
  <2>1. OnlyJob(w) /\ job'[w] = j
      BY <1>3, BegunAlone
  <2>2. Aside(w, n)'
      BY <1>3, <2>1 DEF Aside
  <2> QED
      BY <1>1, <1>2, <2>1, <2>2, LeftAlone DEF OnlyJob
<1>4. ASSUME \A v \in Workers : ~Working(v, n)
      PROVE  \A r \in Live(n) : Kept(r, n)
  <2>1. \A v \in Workers : ~Stands(v, n, "record") /\ ~Stands(v, n, "unsend")
      BY <1>4 DEF Working, Stands
  <2> QED
      BY <1>1, <2>1 DEF InOrder, Traced
<1>5. ASSUME NEW by \in Writers, StartWarning(w, m, by)
      PROVE  InOrder(n)'
  <2> DEFINE j == [NoJob EXCEPT !.by = by, !.step = "insert", !.msg = m]
  <2>1. j \in Job /\ j.step = "insert" /\ j.msg = m /\ j.by = by /\ by # "creative"
      BY DEF NoJob, Job, Writers
  <2>2. Begin(w, m, j) /\ RowsFor(m) = {}
      BY <1>5 DEF StartWarning, HasWarningForMessage
  <2> HIDE DEF j
  <2>3. CASE n = m
    <3>1. /\ OnlyJob(w) /\ job'[w] = j
          /\ \A v \in Workers : ~Working(v, n)
        BY <2>1, <2>2, <2>3, BegunAlone
    <3>2. Live(n)' = {}
        BY <1>2, <1>4, <2>2, <2>3, <3>1 DEF Kept
    <3>3. Traced(n)' /\ Steady(w, n)'
        BY <2>1, <3>1, <3>2 DEF Traced, Steady, Stands
    <3> QED
        BY <3>1, <3>3, ForOne
  <2> QED
      BY <1>3, <2>1, <2>2, <2>3
<1>6. ASSUME StartCancelling(w, m)
      PROVE  InOrder(n)'
  <2> DEFINE k == GetWarningMessageID(m)
             j == [NoJob EXCEPT !.by = "cancel", !.step = "remove", !.msg = m,
                                !.reply = GetWarningMessageID(m)]
  <2>1. k \in Nat
      BY ReplyNumber DEF MInv, WarningsSound
  <2>2. j \in Job /\ j.step = "remove" /\ j.msg = m /\ j.reply = k /\ j.by = "cancel"
      BY <2>1 DEF NoJob, Job
  <2>3. Begin(w, m, j)
      BY <1>6 DEF StartCancelling
  <2> HIDE DEF j
  <2>4. CASE n = m
    <3>1. /\ OnlyJob(w) /\ job'[w] = j
          /\ \A v \in Workers : ~Working(v, n)
        BY <2>2, <2>3, <2>4, BegunAlone
    <3>2. \A r \in Live(n) : Kept(r, n)
        BY <1>4, <3>1
    <3>3. ASSUME NEW r \in Live(n) PROVE Leads(k, r, n)
      <4>1. RowsFor(n) # {} /\ \A q \in RowsFor(n) : Leads(q.reply, r, n)
          BY <3>2, <3>3 DEF Kept
      <4>2. PICK q \in RowsFor(n) : k = q.reply
          BY <2>4, <4>1, ReadFromRow DEF MInv
      <4> QED
          BY <4>1, <4>2
    <3> PICK x : x = k
        OBVIOUS
    <3>4. \A r \in Live(n) : Leads(x, r, n)'
        BY <3>3, LeadsStay
    <3>5. \A r \in Live(n)' : Kept(r, n)'
      <4>1. ASSUME NEW r \in Live(n), NEW y, Leads(y, r, n) PROVE Leads(y, r, n)'
          BY <4>1, LeadsStay
      <4> QED
          BY <1>2, <3>2, <4>1 DEF Kept
    <3>6. Steady(w, n)'
      <4>1. job'[w].reply = x /\ job'[w].step = "remove"
          BY <2>2, <3>1
      <4>2. ASSUME NEW r \in Live(n)' PROVE Leads(job[w].reply, r, n)'
          BY <1>2, <3>4, <4>1, <4>2 DEF Leads
      <4> QED
          BY <4>1, <4>2 DEF Steady, Stands
    <3> QED
        BY <3>1, <3>5, <3>6, ForOne DEF Traced
  <2> QED
      BY <1>3, <2>2, <2>3, <2>4
<1>7. ASSUME StartCreativeReply(w, m)
      PROVE  InOrder(n)'
  <2> DEFINE j == [NoJob EXCEPT !.by = "creative", !.step = "send", !.msg = m]
  <2>1. j \in Job /\ j.msg = m /\ j.by = "creative"
      BY DEF NoJob, Job
  <2>2. Begin(w, m, j)
      BY <1>7 DEF StartCreativeReply
  <2> HIDE DEF j
  <2> QED
      BY <1>3, <2>1, <2>2
<1> QED
    BY <1>5, <1>6, <1>7

-----------------------------------------------------------------------------
(* Numbers, and who does what                                              *)

LEMMA KindsOfOne ==
    ASSUME Kinds, NEW w \in Workers, OnlyJob(w),
           /\ job'[w].step = "insert" => job'[w].by \in Writers
           /\ job'[w].step = "send" => job'[w].by \in Writers \cup {"creative"}
           /\ job'[w].by = "creative" => job'[w].step = "send"
    PROVE  Kinds'
BY DEF Kinds, OnlyJob

LEMMA WarningStepKinds ==
    ASSUME MInv, RInv, NEW w \in Workers, WarningStep(w)
    PROVE  Kinds'
<1>1. WarningsSound /\ Kinds
    BY DEF MInv, RInv
<1>2. CASE Done(w)
    BY <1>1, <1>2, JobAfter, NoJobParts, KindsOfOne
<1>3. ASSUME AddWarning(w), Goto(w, "send") PROVE Kinds'
  <2>1. job[w].by \in Writers
      BY <1>1, <1>3 DEF AddWarning, At, Kinds
  <2>2. OnlyJob(w) /\ job'[w].step = "send" /\ job'[w].by = job[w].by
      BY <1>1, <1>3, JobAfter
  <2> QED
      BY <1>1, <2>1, <2>2, KindsOfOne
<1>4. ASSUME NEW n, job[w].by # "creative",
             job' = [job EXCEPT ![w].step = "record", ![w].reply = n]
      PROVE  Kinds'
  <2>1. OnlyJob(w) /\ job'[w].step = "record" /\ job'[w].by = job[w].by
      BY <1>1, <1>4, JobAfter
  <2> QED
      BY <1>1, <1>4, <2>1, KindsOfOne
<1>5. CASE SendReply(w)
    BY <1>2, <1>4, <1>5 DEF SendReply, Delivered
<1>6. CASE RemoveWarningForMessage(w)
  <2>1. job[w].by # "creative" /\ Goto(w, "unsend")
      BY <1>1, <1>6 DEF RemoveWarningForMessage, At, Kinds
  <2>2. OnlyJob(w) /\ job'[w].step = "unsend" /\ job'[w].by = job[w].by
      BY <1>1, <2>1, JobAfter
  <2> QED
      BY <1>1, <2>1, <2>2, KindsOfOne
<1> QED
    BY <1>2, <1>3, <1>5, <1>6
       DEF WarningStep, AddWarning, UpdateWarningMessageID, DeleteBotWarningReply

LEMMA WarningStepNumbers ==
    ASSUME MInv, RInv, NEW w \in Workers, WarningStep(w)
    PROVE  Numbered'
<1>1. CASE stored' = stored /\ last' = last /\ replies' \subseteq replies
    BY <1>1 DEF RInv, Numbered
<1>2. CASE SendReply(w)
  <2> DEFINE r == NewReply(w)
             c == job[w].msg.chat
  <2>1. job[w].msg \in Messages
      BY <1>2 DEF SendReply, At, MInv, WarningsSound, JobsAimed
  <2>2. c \in Chats /\ last \in [Chats -> Nat] /\ stored \subseteq Reply
      BY <2>1, MessageParts DEF MInv, WarningsSound, WarningsTypeOK
  <2>3. r.chat = c /\ r.num = last[c] + 1
      BY DEF NewReply
  <2>4. CASE /\ replies' = replies \cup {r} /\ stored' = stored \cup {r}
             /\ last' = [last EXCEPT ![c] = last[c] + 1]
    <3> HIDE DEF r, c
    <3>1. \A d \in Chats : last'[d] >= last[d]
        BY <2>2, <2>4
    <3>2. ASSUME NEW s \in stored PROVE s.num > 0 /\ s.num <= last'[s.chat]
      <4>1. s.num > 0 /\ s.num <= last[s.chat] /\ s.num \in Nat /\ s.chat \in Chats
          BY <2>2 DEF RInv, Numbered, Reply
      <4> QED
          BY <2>2, <2>4, <3>1, <4>1
    <3>3. r.num > 0 /\ r.num <= last'[r.chat]
        BY <2>2, <2>3, <2>4
    <3>4. \A d \in Chats : last'[d] > 0
      <4>1. \A d \in Chats : last[d] > 0 /\ last[d] \in Nat
          BY <2>2 DEF RInv, Numbered
      <4> QED
          BY <2>2, <2>4, <4>1
    <3> QED
        BY <2>4, <3>2, <3>3, <3>4 DEF RInv, Numbered
  <2> QED
      BY <1>1, <1>2, <2>4 DEF SendReply
<1> QED
    BY <1>1, <1>2
       DEF WarningStep, AddWarning, UpdateWarningMessageID, RemoveWarningForMessage,
           DeleteBotWarningReply

-----------------------------------------------------------------------------
(* The system                                                              *)

LEMMA WarningStepTraced ==
    ASSUME MInv, WInv, RInv, Remembers, NEW w \in Workers, WarningStep(w)
    PROVE  RInv'
<1>1. \A n \in Messages : ~Excused(n)' => InOrder(n)'
    BY AddWarningTraced, SendReplyTraced, UpdateWarningTraced, RemoveWarningTraced,
       DeleteReplyTraced DEF WarningStep
<1> QED
    BY <1>1, WarningStepKinds, WarningStepNumbers DEF RInv

LEMMA StartTraced ==
    ASSUME MInv, WInv, RInv, Remembers, NEW w \in Workers, NEW m \in Messages,
           job[w] = NoJob, UNCHANGED <<rows, replies, stored, last>>,
           \/ \E by \in Writers : StartWarning(w, m, by)
           \/ StartCancelling(w, m)
           \/ StartCreativeReply(w, m)
    PROVE  RInv'
<1>1. \A n \in Messages : ~Excused(n)' => InOrder(n)'
    BY StartsTraced
<1>2. Numbered'
    BY DEF RInv, Numbered
<1>3. PICK j : /\ job' = [job EXCEPT ![w] = j]
               /\ j.step = "insert" => j.by \in Writers
               /\ j.step = "send" => j.by = "creative"
               /\ j.by = "creative" => j.step = "send"
  <2>1. ASSUME NEW by \in Writers, StartWarning(w, m, by)
        PROVE  \E j : /\ job' = [job EXCEPT ![w] = j]
                      /\ j.step = "insert" => j.by \in Writers
                      /\ j.step = "send" => j.by = "creative"
                      /\ j.by = "creative" => j.step = "send"
    <3> DEFINE j == [NoJob EXCEPT !.by = by, !.step = "insert", !.msg = m]
    <3>1. job' = [job EXCEPT ![w] = j]
        BY <2>1 DEF StartWarning, Begin
    <3>2. j.step = "insert" /\ j.by \in Writers /\ j.by # "creative"
        BY DEF NoJob, Writers
    <3> HIDE DEF j
    <3> QED
        BY <3>1, <3>2
  <2>2. ASSUME StartCancelling(w, m)
        PROVE  \E j : /\ job' = [job EXCEPT ![w] = j]
                      /\ j.step = "insert" => j.by \in Writers
                      /\ j.step = "send" => j.by = "creative"
                      /\ j.by = "creative" => j.step = "send"
    <3> DEFINE j == [NoJob EXCEPT !.by = "cancel", !.step = "remove", !.msg = m,
                                  !.reply = GetWarningMessageID(m)]
    <3>1. job' = [job EXCEPT ![w] = j]
        BY <2>2 DEF StartCancelling, Begin
    <3>2. j.step = "remove" /\ j.by = "cancel"
        BY DEF NoJob
    <3> HIDE DEF j
    <3> QED
        BY <3>1, <3>2
  <2>3. ASSUME StartCreativeReply(w, m)
        PROVE  \E j : /\ job' = [job EXCEPT ![w] = j]
                      /\ j.step = "insert" => j.by \in Writers
                      /\ j.step = "send" => j.by = "creative"
                      /\ j.by = "creative" => j.step = "send"
    <3> DEFINE j == [NoJob EXCEPT !.by = "creative", !.step = "send", !.msg = m]
    <3>1. job' = [job EXCEPT ![w] = j]
        BY <2>3 DEF StartCreativeReply, Begin
    <3>2. j.step = "send" /\ j.by = "creative"
        BY DEF NoJob
    <3> HIDE DEF j
    <3> QED
        BY <3>1, <3>2
  <2> QED
      BY <2>1, <2>2, <2>3
<1>4. OnlyJob(w) /\ job'[w] = j
    BY <1>3 DEF OnlyJob, MInv, WarningsSound, WarningsTypeOK
<1>5. Kinds'
    BY <1>3, <1>4, KindsOfOne DEF RInv
<1> QED
    BY <1>1, <1>2, <1>5 DEF RInv

\* Nothing happens to warnings.
LEMMA BesideTraced ==
    ASSUME RInv, Remembers, UNCHANGED <<rows, replies, stored, last, job>>
    PROVE  RInv'
<1>1. ASSUME NEW n \in Messages, ~Excused(n)' PROVE InOrder(n)'
  <2>1. InOrder(n)
      BY <1>1, StillExcused DEF RInv
  <2>2. RowsFor(n)' = RowsFor(n) /\ Live(n)' = Live(n)
      BY DEF RowsFor, Live
  <2> QED
      BY <2>1, <2>2, LeftAlone
<1> QED
    BY <1>1 DEF RInv, Numbered, Kinds

LEMMA TurnTraced ==
    ASSUME MInv, WInv, RInv, Remembers, NEW w \in Workers, TurnStep(w)
    PROVE  RInv'
<1>1. CASE UNCHANGED <<rows, replies, stored, last, job>>
    BY <1>1, BesideTraced
<1>2. CASE \/ StageSilence(w) \/ StageFlagged(w)
           \/ RecordNewMessage(w) \/ RecordEditedMessage(w)
           \/ UpdateMessageInfo(w) \/ RemoderateAcrossModels(w)
           \/ HandleBadWordDetected(w) \/ AutoModerateReport(w)
           \/ AutoModerateDelete(w) \/ AutoModerateMute(w)
           \/ AutoModerateRefused(w) \/ WarningWasLast(w)
    BY <1>1, <1>2
       DEF warningVars, StageSilence, StageFlagged, RecordNewMessage,
           RecordEditedMessage, UpdateMessageInfo, RemoderateAcrossModels,
           HandleBadWordDetected, AutoModerateReport, AutoModerateDelete,
           AutoModerateMute, AutoModerateRefused, WarningWasLast
<1>3. ASSUME ModerateMessage(w) \/ AutoModerateWarn(w) PROVE RInv'
  <2>1. turn[w].step # "idle" /\ job[w] = NoJob
      BY <1>3 DEF ModerateMessage, AutoModerateWarn, Acts, In
  <2>2. turn[w].msg \in Messages
      BY <2>1, TurnAbout
  <2>3. /\ UNCHANGED <<rows, replies, stored, last>>
        /\ \/ UNCHANGED job
           \/ StartCreativeReply(w, turn[w].msg)
           \/ StartWarning(w, turn[w].msg, "rule")
      BY <1>3 DEF ModerateMessage, Features, AutoModerateWarn
  <2>4. "rule" \in Writers
      BY DEF Writers
  <2> QED
      BY <1>1, <2>1, <2>2, <2>3, <2>4, StartTraced
<1> QED
    BY <1>2, <1>3 DEF TurnStep

LEMMA AdminsTraced ==
    ASSUME MInv, WInv, RInv, Remembers, NEW w \in Workers, NEW m \in Messages,
           HandleWarningAction(w, m) \/ WebWarnUser(w, m) \/ CancelWarning(w, m)
    PROVE  RInv'
<1>1. /\ UNCHANGED <<rows, replies, stored, last>> /\ job[w] = NoJob
      /\ \/ StartWarning(w, m, "admin") \/ StartWarning(w, m, "web")
         \/ StartCancelling(w, m)
    BY DEF HandleWarningAction, WebWarnUser, CancelWarning, Free
<1>2. "admin" \in Writers /\ "web" \in Writers
    BY DEF Writers
<1> QED
    BY <1>1, <1>2, StartTraced

\* A crash excuses the messages that somebody was at.
LEMMA CrashTraced ==
    ASSUME MInv, WInv, RInv, Remembers, Crash
    PROVE  RInv'
<1>1. /\ UNCHANGED <<rows, replies, stored, last>>
      /\ \A w \in Workers : job'[w] = NoJob
    BY DEF Crash
<1>2. ASSUME NEW n \in Messages, ~Excused(n)' PROVE InOrder(n)'
  <2>1. InOrder(n)
      BY <1>1, <1>2, StillExcused DEF RInv
  <2>2. RowsFor(n)' = RowsFor(n) /\ Live(n)' = Live(n)
      BY <1>1 DEF RowsFor, Live
  <2>3. Quiet(n)
      BY <1>2 DEF Crash, Excused
  <2>4. \A v \in Workers : Aside(v, n) /\ Aside(v, n)'
      BY <1>1, <2>3, DoneSteady DEF Aside, Quiet
  <2> QED
      BY <1>1, <2>1, <2>2, <2>4, LeftAlone
<1>3. Numbered' /\ Kinds'
    BY <1>1, NoJobParts DEF RInv, Numbered, Kinds
<1> QED
    BY <1>2, <1>3 DEF RInv

LEMMA InitTraced == Init => RInv
<1> SUFFICES ASSUME Init PROVE RInv
    OBVIOUS
<1>1. /\ rows = {} /\ replies = {} /\ stored = {}
      /\ last = [c \in Chats |-> FirstReply]
      /\ \A w \in Workers : job[w] = NoJob
    BY DEF Init, WarningsInit
<1>2. FirstReply > 0
    BY MessagesAssumption
<1>3. Numbered /\ Kinds
    BY <1>1, <1>2, NoJobParts DEF Numbered, Kinds
<1>4. \A m \in Messages : InOrder(m)
    BY <1>1, NoJobParts DEF InOrder, Traced, Steady, Live, Stands
<1> QED
    BY <1>3, <1>4 DEF RInv

LEMMA NextTraced == MInv /\ WInv /\ RInv /\ [Next]_vars => RInv'
<1> SUFFICES ASSUME MInv, WInv, RInv, [Next]_vars PROVE RInv'
    OBVIOUS
<1>1. Remembers
    BY NextRemembers
<1>2. CASE \/ \E w \in Workers : \E u \in pending : ProcessUpdate(w, u)
           \/ \E w \in Workers, m \in Messages : Remoderate(w, m)
           \/ \E m \in Messages : \/ Post(m) \/ Edit(m)
                                  \/ HandleMessageLink(m) \/ ClaimExpires(m)
           \/ UNCHANGED vars
    BY <1>1, <1>2, BesideTraced
       DEF ProcessUpdate, Remoderate, Post, Edit, HandleMessageLink, ClaimExpires, vars,
           warningVars
<1> QED
    BY <1>1, <1>2, WarningStepTraced, TurnTraced, AdminsTraced, CrashTraced DEF Next

\* For any number of messages, chats and goroutines: when nobody is at a message, a
\* reply of the bot that warns about it stands for a row, except where the goroutines
\* overlapped, Telegram refused, the process died, or the reply cannot be told from
\* another (handleNotBadAction, deleteBotWarningReply, RemoveWarningForMessage).
THEOREM CancellationsClearUp == Spec => []NoOrphanReply
<1>1. ASSUME RInv PROVE NoOrphanReply
  <2> SUFFICES ASSUME NEW r \in replies, NEW m \in Messages,
                      r.kind = "warning" /\ r.chat = m.chat /\ r.to = m.num,
                      Quiet(m),
                      \A n \in Messages : n.num = m.num => n = m,
                      upset[m] \cap {"overlap", "refused", "crash"} = {},
                      \/ "untracked" \notin upset[m]
                      \/ ~\E s \in stored : s.kind = "creative" /\ s.to = m.num
               PROVE  HasWarningForMessage(m)
      BY DEF NoOrphanReply
  <2>1. ~Excused(m) /\ r \in Live(m)
      BY DEF Excused, Live
  <2>2. \A w \in Workers : ~Stands(w, m, "unsend")
      BY DEF Quiet, Stands
  <2> QED
      BY <1>1, <2>1, <2>2 DEF RInv, InOrder, Traced, Kept, HasWarningForMessage
<1>2. Init => WInv /\ RInv
    BY InitOnce, InitTraced
<1>3. MInv /\ WInv /\ RInv /\ [Next]_vars => WInv' /\ RInv'
    BY NextOnce, NextTraced
<1> QED
    BY <1>1, <1>2, <1>3, Invariance, PTL DEF Spec
=============================================================================
