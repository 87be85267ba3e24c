------------------------------ MODULE Profiles ------------------------------
(***************************************************************************)
(* What the bot knows of a user: the row of user_profiles that the update  *)
(* handler fills (first-message screening, ai_vision.go), the scheduled    *)
(* task rewrites (user_profiles.go) and the web UI deletes                 *)
(* (api_profiles.go), and the bounded cache with a time to live from which *)
(* moderation reads it (profile_cache.go).  Updates are handled one after  *)
(* the other; the scheduled task and the web UI work beside them.          *)
(***************************************************************************)
EXTENDS Integers, Sequences

CONSTANTS
  Users,
  Writers,      \* users who write messages; the others are only looked up
  Findings,     \* what screening may find
  MaxEntries,   \* profileCacheMaxEntries
  Ttl,          \* profileCacheTTL
  MaxTime, MaxSlips

VARIABLES
  now,
  profile,    \* user_profiles: {} or the row, its text and the screening findings
  cache,      \* the LRU list, most recent first
  messages,   \* users with rows in message_info
  handler,    \* the update that is handled
  update,     \* the scheduled task, at one user
  lookup,     \* a reader in a web request
  slips,
  found,      \* history: findings recorded since the profile was deleted
  screened,   \* history: how often a user was screened, at most 2
  forgotten,  \* history: users whose messages were cleaned up or not recorded
  skipped,    \* history: users whose first message was not screened for an error or a crash
  spoilt      \* history: when an entry was last stored stale, or deleted behind the cache

profileVars == <<now, profile, cache, messages, handler, update, lookup, slips, found, screened,
                 forgotten, skipped, spoilt>>
screening == <<screened, forgotten, skipped>>

Rest == [pc |-> "idle", user |-> {}, row |-> {}]
Blank == [text |-> 0, findings |-> {}]
Never == -Ttl - 1

ProfilesInit ==
  /\ now = 1
  /\ profile = [u \in Users |-> {}] /\ cache = <<>> /\ messages = {}
  /\ handler = Rest /\ update = Rest /\ lookup = Rest
  /\ slips = 0
  /\ found = [u \in Users |-> {}]
  /\ screened = [u \in Users |-> 0] /\ forgotten = {} /\ skipped = {}
  /\ spoilt = [u \in Users |-> Never]

Slip == slips < MaxSlips /\ slips' = slips + 1

\* What a moderation prompt shows of a row: a stub of ingest is as good as none.
Shown(rows) == {r \in rows : r # Blank}

---------------------------------------------------------------------------
(* The cache.                                                              *)

Cached(u) == \E i \in DOMAIN cache : cache[i].user = u /\ now <= cache[i].until
Entry(u) == CHOOSE i \in DOMAIN cache : cache[i].user = u

\* removeElement of what the index has for the user.
Without(u) ==
  IF \E i \in DOMAIN cache : cache[i].user = u
  THEN SubSeq(cache, 1, Entry(u) - 1) \o SubSeq(cache, Entry(u) + 1, Len(cache)) ELSE cache

\* get: an expired entry is dropped, another moves to the front.
Get(u) == IF Cached(u) THEN <<cache[Entry(u)]>> \o Without(u) ELSE Without(u)

\* put: the entry is stored or refreshed at the front; the last one falls out.
Put(u, rows) ==
  LET all == <<[user |-> u, rows |-> rows, until |-> now + Ttl]>> \o Without(u)
  IN SubSeq(all, 1, IF Len(all) > MaxEntries THEN MaxEntries ELSE Len(all))

\* invalidateProfileCache.
InvalidatedNot(u) == cache
Invalidated(u) == Without(u)

\* lookupCachedUserProfile in a web request: cached, or read from the row and then cached,
\* which may have changed between the two.
Lookup(u) ==
  /\ lookup = Rest
  /\ cache' = Get(u)
  /\ lookup' = IF Cached(u) THEN Rest ELSE [pc |-> "put", user |-> {u}, row |-> profile[u]]
  /\ UNCHANGED <<now, profile, messages, handler, update, slips, found, screening, spoilt>>

LookupPut ==
  /\ lookup # Rest /\ lookup' = Rest
  /\ \E u \in lookup.user :
       /\ cache' = Put(u, lookup.row)
       /\ spoilt' = IF Shown(lookup.row) # Shown(profile[u]) THEN [spoilt EXCEPT ![u] = now] ELSE spoilt
  /\ UNCHANGED <<now, profile, messages, handler, update, slips, found, screening>>

---------------------------------------------------------------------------
(* A message.                                                              *)

\* CountUserMessagesInChat.
FirstInChatLate(u, stored) == u \notin messages /\ ~stored
FirstInChat(u, stored) == u \notin messages

\* recordNewMessage: whether it is the user's first in the chat is asked before it is recorded.
\* Recording may fail; the screening goes on all the same.
Receive(u) ==
  /\ handler = Rest
  /\ \E counted, stored \in BOOLEAN :
       /\ IF counted /\ stored THEN UNCHANGED slips ELSE Slip
       /\ profile' = IF stored /\ profile[u] = {} THEN [profile EXCEPT ![u] = {Blank}] ELSE profile
       /\ messages' = IF stored THEN messages \cup {u} ELSE messages
       /\ handler' = [pc |-> IF counted /\ FirstInChat(u, stored) THEN "screen" ELSE "judge",
                      user |-> {u}, row |-> {}]
       /\ forgotten' = IF stored THEN forgotten ELSE forgotten \cup {u}
       /\ skipped' = IF counted THEN skipped ELSE skipped \cup {u}
  /\ UNCHANGED <<now, cache, update, lookup, found, screened, spoilt>>

\* checkFirstMessageUserProfile: what Telegram and the models find, if they answer.
Screen ==
  /\ handler.pc = "screen"
  /\ \E findings \in SUBSET Findings :
       handler' = [handler EXCEPT !.pc = IF findings = {} THEN "judge" ELSE "append", !.row = findings]
  /\ screened' = [u \in Users |-> IF u \in handler.user /\ screened[u] < 2 THEN screened[u] + 1 ELSE screened[u]]
  /\ UNCHANGED <<now, profile, cache, messages, update, lookup, slips, found, forgotten, skipped, spoilt>>

\* AppendTgProfileAnalysis: the findings are added to those there are, the text is left alone.
Annotated(rows, findings) ==
  IF rows = {} THEN {[text |-> 0, findings |-> findings]}
  ELSE {[r EXCEPT !.findings = @ \cup findings] : r \in rows}

AppendFindings ==
  /\ handler.pc = "append"
  /\ \/ /\ \E u \in handler.user : /\ profile' = [profile EXCEPT ![u] = Annotated(@, handler.row)]
                            /\ found' = [found EXCEPT ![u] = @ \cup handler.row]
        /\ handler' = [handler EXCEPT !.pc = "invalidate"]
        /\ UNCHANGED slips
     \/ Slip /\ handler' = [handler EXCEPT !.pc = "judge"] /\ UNCHANGED <<profile, found>>
  /\ UNCHANGED <<now, cache, messages, update, lookup, screening, spoilt>>

InvalidateFindings ==
  /\ handler.pc = "invalidate"
  /\ \E u \in handler.user : cache' = Invalidated(u)
  /\ handler' = [handler EXCEPT !.pc = "judge"]
  /\ UNCHANGED <<now, profile, messages, update, lookup, slips, found, screening, spoilt>>

\* getUserProfileForModeration, in the handler: nothing of the handler comes between the reads.
Judge ==
  /\ handler.pc = "judge"
  /\ \E u \in handler.user : cache' = IF Cached(u) THEN Get(u) ELSE Put(u, profile[u])
  /\ handler' = Rest
  /\ UNCHANGED <<now, profile, messages, update, lookup, slips, found, screening, spoilt>>

---------------------------------------------------------------------------
(* The scheduled task and the web UI.                                      *)

\* generateOrUpdateUserProfile: a model writes for a while.
Regenerate(u) ==
  /\ update = Rest /\ u \in messages
  /\ update' = [pc |-> "upsert", user |-> {u}, row |-> {}]
  /\ UNCHANGED <<now, profile, cache, messages, handler, lookup, slips, found, screening, spoilt>>

\* UpsertUserProfile: text and reputation are replaced, the findings are not.
RewrittenWhole(rows) == {[text |-> 1, findings |-> {}]}
Rewritten(rows) == {[text |-> 1, findings |-> UNION {r.findings : r \in rows}]}

UpsertUserProfile ==
  /\ update.pc = "upsert"
  /\ \/ /\ \E u \in update.user : profile' = [profile EXCEPT ![u] = Rewritten(@)]
        /\ update' = [update EXCEPT !.pc = "invalidate"]
        /\ UNCHANGED slips
     \/ Slip /\ update' = Rest /\ UNCHANGED profile
  /\ UNCHANGED <<now, cache, messages, handler, lookup, found, screening, spoilt>>

InvalidateUpdate ==
  /\ update.pc = "invalidate"
  /\ \E u \in update.user : cache' = Invalidated(u)
  /\ update' = Rest
  /\ UNCHANGED <<now, profile, messages, handler, lookup, slips, found, screening, spoilt>>

\* handleDeleteProfile does not touch the cache of the bot.
DeleteProfile(u) ==
  /\ profile[u] # {}
  /\ profile' = [profile EXCEPT ![u] = {}]
  /\ found' = [found EXCEPT ![u] = {}]
  /\ spoilt' = [spoilt EXCEPT ![u] = now]
  /\ UNCHANGED <<now, cache, messages, handler, update, lookup, slips, screening>>

\* CleanupOldMessages.
CleanupMessages(u) ==
  /\ u \in messages /\ messages' = messages \ {u} /\ forgotten' = forgotten \cup {u}
  /\ UNCHANGED <<now, profile, cache, handler, update, lookup, slips, found, screened, skipped, spoilt>>

Tick ==
  /\ now < MaxTime /\ now' = now + 1
  /\ UNCHANGED <<profile, cache, messages, handler, update, lookup, slips, found, screening, spoilt>>

\* The process dies; rows remain.
Crash ==
  /\ Slip /\ cache' = <<>> /\ handler' = Rest /\ update' = Rest /\ lookup' = Rest
  /\ skipped' = IF handler.pc = "screen" THEN skipped \cup handler.user ELSE skipped
  /\ UNCHANGED <<now, profile, messages, found, screened, forgotten, spoilt>>

ProfilesNext ==
  \/ \E u \in Users : Lookup(u) \/ DeleteProfile(u) \/ CleanupMessages(u)
  \/ \E u \in Writers : Receive(u) \/ Regenerate(u)
  \/ LookupPut \/ Screen \/ AppendFindings \/ InvalidateFindings \/ Judge
  \/ UpsertUserProfile \/ InvalidateUpdate
  \/ Tick \/ Crash

---------------------------------------------------------------------------
(* Properties.                                                             *)

Told(u) == IF Cached(u) THEN cache[Entry(u)].rows ELSE profile[u]

\* What moderation is told of a user is what stands in the row, and every screening finding since
\* the profile was last deleted is part of it.  It is older for at most the time to live, and only
\* after somebody was reading the row while it was written, or it was deleted in the web UI.
\* (lookupCachedUserProfile, recordUserProfileFinding, generateOrUpdateUserProfile)
FindingsTold ==
  \A u \in Users :
    \/ now <= spoilt[u] + Ttl \/ \E p \in {update, handler} : p.pc = "invalidate" /\ u \in p.user
    \/ Shown(Told(u)) = Shown(profile[u]) /\ found[u] \subseteq UNION {r.findings : r \in Told(u)}

\* A user is screened once: again only after the messages were cleaned up or not recorded, and
\* not at all only if something failed at the first message.  (recordNewMessage,
\* checkFirstMessageUserProfile)
ScreenedOnce ==
  \A u \in Users :
    /\ screened[u] > 1 => u \in forgotten
    /\ handler = Rest /\ u \in messages => screened[u] > 0 \/ u \in skipped
============================================================================
