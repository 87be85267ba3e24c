------------------------------- MODULE Verdicts -------------------------------
(***************************************************************************)
(* What the bot makes of the answers of its language models.  A model      *)
(* clears a message, emits rules (which name the actions to take), trips   *)
(* the provider's content filter, or fails.  On receipt a light model is   *)
(* asked first and a full model confirms; a re-moderation asks every model *)
(* in turn.  Everything here is a pure function of the answers.            *)
(***************************************************************************)
EXTENDS Integers, Sequences

CONSTANTS
    Plans,   \* what the configured rules can ask for: sequences of actions
    CSPlan   \* the plan of the content-security rules, <<>> if there are none

Actions == {"report", "warn", "delete", "mute"}

ASSUME PlansAssumption == /\ Plans \subseteq Seq(Actions) \ {<<>>}
                          /\ CSPlan \in Seq(Actions)

-----------------------------------------------------------------------------
(* The answer of one model                                                 *)

Answer(kind, plan) == [is |-> kind, plan |-> plan]

Answers == {Answer(kind, <<>>) : kind \in {"clean", "filter", "failed"}}
              \cup {Answer("rules", p) : p \in Plans}

Flagged(a) == a.is \in {"rules", "filter"}

-----------------------------------------------------------------------------
(* The verdict: the actions to take, whether the content filter decided,   *)
(* and whether the stored text gives way to a placeholder                  *)

Verdict(plan, filter, blank) ==
    [plan |-> plan, filter |-> filter, blank |-> blank]

Cleared == Verdict(<<>>, FALSE, FALSE)

ContentSecurity == Verdict(CSPlan, TRUE, TRUE)

\* The light model flagged the message, the full model was asked to confirm.
DecideConfirmed(light, full) ==
    CASE full.is = "filter" -> ContentSecurity
      [] full.is = "failed" -> IF light.is = "filter" THEN ContentSecurity
                               ELSE Verdict(light.plan, FALSE, FALSE)
      [] full.is = "rules"  -> Verdict(full.plan, light.is = "filter",
                                       light.is = "filter")
      [] OTHER              -> Cleared

\* The light model cleared a newcomer's message, the full model looked again.
DecideDoubleCheck(full) ==
    CASE full.is = "filter" -> ContentSecurity
      [] full.is = "rules"  -> Verdict(full.plan, FALSE, FALSE)
      [] OTHER              -> Cleared

\* The verdict on a message as it comes in.
OnReceipt(light, full, newcomer) ==
    IF Flagged(light) THEN DecideConfirmed(light, full)
    ELSE IF newcomer THEN DecideDoubleCheck(full)
    ELSE Cleared

\* The verdict of a re-moderation: the first model that flags decides.
AcrossModels(answers) ==
    LET hits == {i \in DOMAIN answers : Flagged(answers[i])}
        hit  == CHOOSE i \in hits : \A j \in hits : i <= j
    IN  IF hits = {} THEN Cleared
        ELSE IF answers[hit].is = "filter" THEN ContentSecurity
        ELSE Verdict(answers[hit].plan, FALSE, FALSE)

\* Whatever the models answer.
Receipts == {OnReceipt(light, full, newcomer) :
                light \in Answers, full \in Answers, newcomer \in BOOLEAN}

Rejudgements == {AcrossModels(answers) : answers \in Answers \X Answers}

\* A verdict without rules is left to the admins.
PlanOf(v) == IF v.plan = <<>> THEN <<"report">> ELSE v.plan

=============================================================================
