------------------------------- MODULE MCBot -------------------------------
(***************************************************************************)
(* What the bot does beside moderation, for TLC: the messages it keeps     *)
(* (twice: two messages, and one that is edited and holds links), creative *)
(* replies, scheduled feeds, profiles and the calls to models, one of them *)
(* at work in a behaviour.  They share the clock and the budget of slips.  *)
(***************************************************************************)
EXTENDS Replies

CONSTANTS
  Pair, Single, Excluded,                   \* Messages
  Items, MaxTime, MaxPage,                  \* Feeds
  Users, Writers, Findings, MaxEntries,     \* Profiles
  Ttl, MaxAge,
  MaxModels                                 \* Models

VARIABLES
  part, now,
  chat, row, queue, aged, count, edit, feature, job, seen, again, alerts, edited, raced, marked,
  late, refused,
  task, at, fired, run, page, snapshot, out, first, spoilt, told, gap, unheard,
  profile, cache, messages, handler, update, lookup, found, screened, forgotten, skipped, stale,
  on, offends, call, services, picture, failed, outages, refusals

messageVars == <<chat, row, queue, aged, count, edit, feature, job, seen, again, alerts, edited,
                 raced, marked, late, refused>>
ofReplies == <<reply, about, rows, other, sent, overlap>>
feedVars == <<task, at, fired, run, page, snapshot, out, first, spoilt, told, gap, unheard>>
profileVars == <<profile, cache, messages, handler, update, lookup, found, screened, forgotten,
                 skipped, stale>>
modelVars == <<on, offends, call, services, picture, failed, outages, refusals>>

Two == INSTANCE Messages WITH Msgs <- Pair, Written <- {}, Texts <- {0}
One == INSTANCE Messages WITH Msgs <- Single, Written <- Single, Excluded <- {}, Texts <- {0, 1},
                              MaxSlips <- MaxSlips + 1
FE == INSTANCE Feeds
PR == INSTANCE Profiles WITH MaxTime <- MaxAge, spoilt <- stale
MO == INSTANCE Models

Parts == {"two", "one", "replies", "feeds", "profiles", "models"}

BotInit ==
  /\ part \in Parts
  /\ IF part = "one" THEN One!Init ELSE Two!Init
  /\ RepliesInit /\ FE!FeedsInit /\ PR!ProfilesInit /\ MO!ModelsInit
  /\ part # "replies" => about = [m \in Msgs |-> "nothing"]
  /\ part # "feeds" => task = "rss"
  /\ part # "models" => on = [slot \in MO!Slots |-> {}] /\ offends = {} /\ services = {}

BotNext ==
  /\ UNCHANGED part
  /\ \/ part = "two" /\ Two!Next /\ UNCHANGED <<now, ofReplies, feedVars, profileVars, modelVars>>
     \/ part = "one" /\ One!Next /\ UNCHANGED <<now, ofReplies, feedVars, profileVars, modelVars>>
     \/ part = "replies" /\ RepliesNext /\ UNCHANGED <<now, messageVars, feedVars, profileVars, modelVars>>
     \/ part = "feeds" /\ FE!FeedsNext /\ UNCHANGED <<messageVars, ofReplies, profileVars, modelVars>>
     \/ part = "profiles" /\ PR!ProfilesNext /\ UNCHANGED <<messageVars, ofReplies, feedVars, modelVars>>
     \/ part = "models" /\ MO!ModelsNext
        /\ UNCHANGED <<slips, now, messageVars, ofReplies, feedVars, profileVars>>

BotSpec == BotInit /\ [][BotNext]_<<part, slips, now, messageVars, ofReplies, feedVars, profileVars, modelVars>>

\* A pinned message stays, unless it was on the clean-up's list already.  (cleanupOldMessages)
PinnedStays == Two!PinnedStays

\* What an edited message said before is kept.  (recordEditedMessage)
OriginalKept == One!OriginalKept

\* A message is counted, and its sender announced, once.  (RecordIncomingMessage)
CountedOnce == Two!CountedOnce

\* A message leaves the deletion queue deleted, or refused.  (cleanupOldMessages)
LeftOnlyIfRefused == Two!LeftOnlyIfRefused

\* Entries of a feed and messages of users are worked off once.  (executeWithLock)
EachItemOnce == FE!EachItemOnce

\* Reports about a watched page follow on each other.  (processWatchedSite)
NothingUntold == FE!NothingUntold

\* Moderation is told what is known of a user.  (lookupCachedUserProfile)
FindingsTold == part = "profiles" => PR!FindingsTold

\* A user is screened once.  (checkFirstMessageUserProfile)
ScreenedOnce == PR!ScreenedOnce

\* Nobody is blamed for what they quote.  (callContentModerationWithReplyRetry)
NotBlamedForQuote == MO!NotBlamedForQuote

\* One endpoint out of order does no harm.  (callAzureOpenAIWithRetriesAndBackoff)
FailsOver == MO!FailsOver
============================================================================
