------------------------------- MODULE Models -------------------------------
(***************************************************************************)
(* Asking the models: a prompt goes to one enabled deployment after        *)
(* another (ai_client.go, config/types_custom.go), a judgement that the    *)
(* provider's content filter refuses is asked for again without the quoted *)
(* message, and a picture goes to content safety, Vision and OCR.space     *)
(* (ai_vision.go, api_client.go, handler.go), each request with its own    *)
(* retries.  A behaviour follows one prompt or one picture.  Waiting times *)
(* and token counters are left out.                                        *)
(***************************************************************************)
EXTENDS Integers, FiniteSets

CONSTANT MaxModels    \* entries of the list of light and of full models

VARIABLES
  on,        \* the entries that are enabled, of each list
  offends,   \* what the content filter may refuse: "text", "quote"
  call,      \* the prompt
  services,  \* services for pictures that are configured
  picture,   \* the picture
  failed,    \* history: how often an entry failed in a way worth a retry
  outages,   \* history: the same of a service
  refusals   \* history: services that gave a final refusal

modelVars == <<on, offends, call, services, picture, failed, outages, refusals>>
ofCall == <<call, failed>>
ofPicture == <<picture, outages, refusals>>

Slots == {"light", "full"}
Entries == Slots \X (1 .. MaxModels)
Services == {"safety", "vision", "ocr"}

NoCall == [pc |-> "idle", kind |-> "light", slot |-> "light", attempt |-> 0, quoted |-> FALSE]
NoPicture == [pc |-> "idle", of |-> "message", bad |-> FALSE, attempt |-> 0, flagged |-> FALSE, described |-> FALSE]

ModelsInit ==
  /\ on \in [Slots -> SUBSET (1 .. MaxModels)]
  /\ offends \in SUBSET {"text", "quote"}
  /\ call = NoCall
  /\ services \in SUBSET Services
  /\ picture = NoPicture
  /\ failed = [e \in Entries |-> 0]
  /\ outages = [s \in Services |-> 0]
  /\ refusals = {}

---------------------------------------------------------------------------
(* A prompt.                                                               *)

\* Count and Get: the enabled entries, round and round.
Count(slot) == Cardinality(on[slot])
GetAny(slot, index) == (index % MaxModels) + 1
Get(slot, index) ==
  CHOOSE i \in on[slot] : Cardinality({j \in on[slot] : j < i}) = index % Count(slot)

\* How often a prompt is tried: as a judgement, with or without a fallback, or once.
Limit(c) == IF c.kind = "once" THEN 1 ELSE IF c.kind = "text" /\ c.slot = "light" THEN 2 ELSE 3

Answer(what) == call' = [call EXCEPT !.pc = what]

\* callAzureOpenAI and callAzureOpenAINoFallback start with the full models, a judgement with
\* those it is meant for; without an enabled entry nobody is asked, and nobody instead.
Begin(kind, quoted) ==
  /\ call.pc = "idle" /\ picture.pc = "idle"
  /\ quoted => kind \in Slots
  /\ \E slot \in Slots :
       /\ kind \in Slots => slot = kind
       /\ kind \in {"text", "plain"} => slot = "full"
       /\ call' = [pc |-> IF Count(slot) = 0 THEN "unasked" ELSE "ask",
                   kind |-> kind, slot |-> slot, attempt |-> 0, quoted |-> quoted]
  /\ UNCHANGED <<on, offends, services, failed, ofPicture>>

\* What follows a failure that is worth a retry: the next entry; after the full models the light
\* ones, for a prompt that has a fallback.
AfterFailure ==
  IF call.attempt + 1 < Limit(call) THEN [call EXCEPT !.attempt = @ + 1]
  ELSE IF call.kind = "text" /\ call.slot = "full"
       THEN [call EXCEPT !.slot = "light", !.attempt = 0, !.pc = IF Count("light") = 0 THEN "failed" ELSE "ask"]
       ELSE [call EXCEPT !.pc = "failed"]

\* callContentModerationWithReplyRetry: the filter may have refused what was quoted.
AskedAgain(c) == [c EXCEPT !.attempt = 0, !.quoted = FALSE]
AfterFilterAtOnce(c) == [c EXCEPT !.pc = "filtered"]
AfterFilter(c) == IF c.quoted THEN AskedAgain(c) ELSE [c EXCEPT !.pc = "filtered"]

\* callAzureOpenAIWithConfig: an answer, a refusal by the content filter, a failure worth a retry,
\* or another error, which ends it at once; as it does if the entry is disabled.
Ask ==
  /\ call.pc = "ask"
  /\ LET i == Get(call.slot, call.attempt)
     IN IF i \notin on[call.slot] THEN Answer("disabled") /\ UNCHANGED failed
        ELSE \/ Answer("answered") /\ UNCHANGED failed
             \/ /\ "text" \in offends \/ ("quote" \in offends /\ call.quoted)
                /\ call' = AfterFilter(call) /\ UNCHANGED failed
             \/ call' = AfterFailure /\ failed' = [failed EXCEPT ![<<call.slot, i>>] = @ + 1]
             \/ Answer("refused") /\ UNCHANGED failed
  /\ UNCHANGED <<on, offends, services, ofPicture>>

---------------------------------------------------------------------------
(* A picture.                                                              *)

\* What is asked after Vision: OCR.space, if Vision is off or has failed.
OrOcr == IF "ocr" \in services THEN "ocr" ELSE "done"
Describe == IF "vision" \in services THEN "vision" ELSE OrOcr

\* processMessageEnhancements looks at the pictures of messages if it can describe them,
\* screenProfileImage asks content safety first; neither goes on when the download fails.
See(of, bad) ==
  /\ picture.pc = "idle" /\ call.pc = "idle"
  /\ \E downloaded \in BOOLEAN :
       picture' = [NoPicture EXCEPT !.of = of, !.bad = bad,
                     !.pc = IF ~downloaded THEN "lost"
                            ELSE IF of = "profile" /\ "safety" \in services THEN "safety" ELSE Describe]
  /\ UNCHANGED <<on, offends, services, outages, refusals, ofCall>>

\* The steps that ask content safety: on its own, or after Vision has described the picture.
Asked(pc) == IF pc = "visionSafety" THEN "safety" ELSE pc

\* doAPIWithRetries: two retries of what is worth it.
RetriedOnce(attempt) == attempt < 1
Retried(attempt) == attempt < 2

\* What follows an answer: content safety decides about a profile; Vision goes on to ask it.
Answered(p) ==
  CASE p.pc = "safety"       -> [p EXCEPT !.pc = "done", !.flagged = p.bad]
    [] p.pc = "vision"       -> [p EXCEPT !.pc = IF "safety" \in services THEN "visionSafety" ELSE "done", !.described = TRUE]
    [] p.pc = "visionSafety" -> [p EXCEPT !.pc = "done", !.flagged = p.bad]
    [] p.pc = "ocr"          -> [p EXCEPT !.pc = "done", !.described = TRUE]

\* What follows when a service gives up.
GivenUp(p) ==
  [p EXCEPT !.attempt = 0,
            !.pc = CASE p.pc = "safety" -> Describe
                     [] p.pc = "vision" -> OrOcr
                     [] OTHER           -> "done"]

Request ==
  /\ picture.pc \in Services \cup {"visionSafety"}
  /\ LET s == Asked(picture.pc)
     IN \/ picture' = [Answered(picture) EXCEPT !.attempt = 0] /\ UNCHANGED <<outages, refusals>>
        \/ /\ outages' = [outages EXCEPT ![s] = @ + 1] /\ UNCHANGED refusals
           /\ picture' = IF Retried(picture.attempt) THEN [picture EXCEPT !.attempt = @ + 1] ELSE GivenUp(picture)
        \/ picture' = GivenUp(picture) /\ refusals' = refusals \cup {s} /\ UNCHANGED outages
  /\ UNCHANGED <<on, offends, services, ofCall>>

ModelsNext ==
  \/ \E kind \in {"light", "full", "text", "plain", "once"}, quoted \in BOOLEAN : Begin(kind, quoted)
  \/ Ask
  \/ \E of \in {"message", "profile"}, bad \in BOOLEAN : See(of, bad)
  \/ Request

---------------------------------------------------------------------------
(* Properties.                                                             *)

\* A message counts as refused by the content filter only for what it says itself, never for the
\* message it quotes.  (callContentModerationWithReplyRetry)
NotBlamedForQuote == call.pc = "filtered" => "text" \in offends

\* One deployment out of order does no harm when another is enabled: a call fails only after as many
\* failures as it has tries, spread over the enabled entries, and never at a disabled one.
\* A bad picture passes only if content safety was not asked three times, which for a message
\* takes Vision to answer first.  (Get, callAzureOpenAIWithRetriesAndBackoff, doAPIWithRetries)
FailsOver ==
  /\ call.pc # "disabled"
  /\ call.pc = "failed" /\ call.kind # "once" =>
       \A i \in on[call.slot] : failed[<<call.slot, i>>] > 0 \/ Count(call.slot) > Limit(call)
  /\ picture.pc = "done" /\ picture.bad /\ "safety" \in services =>
       \/ picture.flagged
       \/ \E s \in {"safety", "vision"} : outages[s] > 2 \/ s \in refusals
       \/ picture.of = "message" /\ "vision" \notin services
=============================================================================
