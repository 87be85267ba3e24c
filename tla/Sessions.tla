------------------------------ MODULE Sessions ------------------------------
(***************************************************************************)
(* The sessions of the web UI: AuthManager's cache in internal/web/auth.go *)
(* over the table of database/web_sessions.go, which the processes share.  *)
(* ValidateSession and Logout let go of AuthManager.mu before they talk to *)
(* the table, and go statement by statement here.  How one comes to a      *)
(* session is in SignIn.                                                   *)
(***************************************************************************)
EXTENDS Integers, FiniteSets

CONSTANTS
  Procs,          \* processes that share the database
  Tokens,         \* session tokens that can be drawn
  Old,            \* a token whose row is older than hashing: keyed by the token itself
  SessionTtl,     \* sessionExpiry (24 h)
  MaxTime, MaxFaults

ASSUME SessionsAssumption ==
  /\ Old \in Tokens
  /\ SessionTtl \in Nat \ {0} /\ MaxTime \in Nat /\ MaxFaults \in Nat

VARIABLES
  row,       \* web_sessions by hash: when the session expires, 0 without a row
  legacy,    \* web_sessions by the bare token
  cache,     \* AuthManager.sessions, per process
  look,      \* the ValidateSession in progress, per process
  out,       \* the Logout in progress, per process
  now, faults,
  issued,    \* history: tokens handed out
  dead       \* history: tokens logged out with nothing in the way

vars == <<row, legacy, cache, look, out, now, faults, issued, dead>>

Times == 0 .. MaxTime + SessionTtl
Idle == [pc |-> "idle", tok |-> Old, seen |-> 0]
NotOut == [pc |-> "idle", tok |-> Old, clean |-> TRUE]

Init ==
  /\ row = [t \in Tokens |-> 0]
  /\ legacy = [t \in Tokens |-> IF t = Old THEN 1 + SessionTtl ELSE 0]
  /\ cache = [p \in Procs |-> [t \in Tokens |-> 0]]
  /\ look = [p \in Procs |-> Idle] /\ out = [p \in Procs |-> NotOut]
  /\ now = 1 /\ faults = 0
  /\ issued = {Old} /\ dead = {}

---------------------------------------------------------------------------
(* A session is made.                                                      *)

\* A statement on the table that fails once its retries are used up.
Fault == faults < MaxFaults /\ faults' = faults + 1

\* createSession, createSessionWithRole: the cache first, then the row; an error of the table
\* is logged, and leaves a session that only this process knows.  The role is a part of the
\* token, and never looked up.
Issue(p) ==
  \E t \in Tokens \ issued :
    /\ issued' = issued \cup {t}
    /\ cache' = [cache EXCEPT ![p][t] = now + SessionTtl]
    /\ \/ row' = [row EXCEPT ![t] = now + SessionTtl] /\ UNCHANGED faults
       \/ Fault /\ UNCHANGED row
    /\ UNCHANGED <<legacy, look, out, now, dead>>

---------------------------------------------------------------------------
(* ValidateSession.                                                        *)

\* A delete removes the row, or fails and leaves it.
Erase(tab, t) ==
  \/ tab' = [tab EXCEPT ![t] = 0] /\ UNCHANGED faults
  \/ Fault /\ UNCHANGED tab

Disturbed(t) ==
  out' = [q \in Procs |-> IF out[q].pc # "idle" /\ out[q].tok = t
                          THEN [out[q] EXCEPT !.clean = FALSE] ELSE out[q]]

\* requireAuth and requireModAuth: the role first, then the session.  A session in the cache
\* is good until it expires; one that is not there, or is too old, is looked up.
ValidateSession(p, t) ==
  /\ look[p].pc = "idle" /\ t \in issued
  /\ cache[p][t] <= now
  /\ cache' = [cache EXCEPT ![p][t] = 0]
  /\ look' = [look EXCEPT ![p] = [Idle EXCEPT !.pc = "hash", !.tok = t]]
  /\ Disturbed(t)
  /\ UNCHANGED <<row, legacy, now, faults, issued, dead>>

LookTo(p, pc, seen) == look' = [look EXCEPT ![p].pc = pc, ![p].seen = seen]
LookDone(p) == look' = [look EXCEPT ![p] = Idle]
LookElse == UNCHANGED <<out, now, issued, dead>>

ReadFails(p) ==
  /\ look[p].pc \in {"hash", "legacy"}
  /\ Fault
  /\ LookDone(p) /\ LookElse /\ UNCHANGED <<row, legacy, cache>>

\* What to do with the expiry that was found.
Judge(p, seen, valid) ==
  IF seen = 0 THEN LookDone(p)
  ELSE IF seen < now THEN LookTo(p, "expired", seen)
  ELSE LookTo(p, valid, seen)

\* GetWebSession by hash, then by the token itself.
ReadHash(p) ==
  /\ look[p].pc = "hash"
  /\ IF row[look[p].tok] = 0 THEN LookTo(p, "legacy", 0) ELSE Judge(p, row[look[p].tok], "publish")
  /\ LookElse /\ UNCHANGED <<row, legacy, cache, faults>>

ReadLegacy(p) ==
  /\ look[p].pc = "legacy"
  /\ Judge(p, legacy[look[p].tok], IF legacy[look[p].tok] > now THEN "migrate" ELSE "publish")
  /\ LookElse /\ UNCHANGED <<row, legacy, cache, faults>>

\* The row of a session from before hashing is stored anew and the old one removed; errors
\* are logged, and the session is good all the same.
SaveMigrated(p) ==
  /\ look[p].pc = "migrate"
  /\ \/ row' = [row EXCEPT ![look[p].tok] = look[p].seen] /\ UNCHANGED faults
     \/ Fault /\ UNCHANGED row
  /\ LookTo(p, "drop", look[p].seen)
  /\ LookElse /\ UNCHANGED <<legacy, cache>>

DropLegacy(p) ==
  /\ look[p].pc = "drop"
  /\ Erase(legacy, look[p].tok)
  /\ Judge(p, look[p].seen, "publish")
  /\ LookElse /\ UNCHANGED <<row, cache>>

\* An expired session: both rows are removed, and the answer is no.
DropExpired(p) ==
  /\ look[p].pc \in {"expired", "expired2"}
  /\ IF look[p].pc = "expired"
     THEN Erase(row, look[p].tok) /\ LookTo(p, "expired2", look[p].seen) /\ UNCHANGED legacy
     ELSE Erase(legacy, look[p].tok) /\ LookDone(p) /\ UNCHANGED row
  /\ LookElse /\ UNCHANGED cache

\* The session goes into the cache, without another look at the table.
Publish(p) ==
  /\ look[p].pc = "publish"
  /\ cache' = [cache EXCEPT ![p][look[p].tok] = look[p].seen]
  /\ LookDone(p)
  /\ LookElse /\ UNCHANGED <<row, legacy, faults>>

---------------------------------------------------------------------------
(* Logout, restart, time.                                                  *)

\* Whether nothing can bring the session back behind a logout on p: no other process has it
\* in its cache, and nobody is looking it up.
Undisturbed(p, t) ==
  /\ \A q \in Procs \ {p} : cache[q][t] = 0
  /\ \A q \in Procs : look[q].pc = "idle" \/ look[q].tok # t

LogoutCache(p, t) ==
  /\ out[p].pc = "idle" /\ cache[p][t] > now
  /\ cache' = [cache EXCEPT ![p][t] = 0]
  /\ out' = [out EXCEPT ![p] = [pc |-> "row", tok |-> t, clean |-> Undisturbed(p, t)]]
  /\ UNCHANGED <<row, legacy, look, now, faults, issued, dead>>

LogoutRow(p) ==
  /\ out[p].pc = "row"
  /\ Erase(row, out[p].tok)
  /\ out' = [out EXCEPT ![p].pc = "legacy", ![p].clean = @ /\ row'[out[p].tok] = 0]
  /\ UNCHANGED <<legacy, cache, look, now, issued, dead>>

LegacyForgotten(t) == UNCHANGED <<legacy, faults>>
\* What becomes of the row that carries the bare token.
LegacyAfterLogout(t) == Erase(legacy, t)

LogoutLegacy(p) ==
  /\ out[p].pc = "legacy"
  /\ LegacyAfterLogout(out[p].tok)
  /\ out' = [out EXCEPT ![p] = NotOut]
  /\ dead' = IF out[p].clean /\ faults' = faults THEN dead \cup {out[p].tok} ELSE dead
  /\ UNCHANGED <<row, cache, look, now, issued>>

\* A process dies and starts again with an empty AuthManager; NewAuthManager removes expired
\* rows.
Restart(p) ==
  /\ Fault
  /\ cache' = [cache EXCEPT ![p] = [t \in Tokens |-> 0]]
  /\ look' = [look EXCEPT ![p] = Idle] /\ out' = [out EXCEPT ![p] = NotOut]
  /\ row' = [t \in Tokens |-> IF row[t] < now THEN 0 ELSE row[t]]
  /\ legacy' = [t \in Tokens |-> IF legacy[t] < now THEN 0 ELSE legacy[t]]
  /\ UNCHANGED <<now, issued, dead>>

Tick ==
  /\ now < MaxTime /\ now' = now + 1
  /\ UNCHANGED <<row, legacy, cache, look, out, faults, issued, dead>>

Next ==
  \/ \E p \in Procs :
       \/ Issue(p)
       \/ \E t \in Tokens : ValidateSession(p, t) \/ LogoutCache(p, t)
       \/ ReadFails(p) \/ ReadHash(p) \/ ReadLegacy(p) \/ SaveMigrated(p) \/ DropLegacy(p)
       \/ DropExpired(p) \/ Publish(p)
       \/ LogoutRow(p) \/ LogoutLegacy(p)
       \/ Restart(p)
  \/ Tick

Spec == Init /\ [][Next]_vars

---------------------------------------------------------------------------
(* Properties.                                                             *)

LookPc == {"idle", "hash", "legacy", "migrate", "drop", "expired", "expired2", "publish"}

\* Every variable has its type.
TypeOK ==
  /\ row \in [Tokens -> Times] /\ legacy \in [Tokens -> Times]
  /\ cache \in [Procs -> [Tokens -> Times]]
  /\ look \in [Procs -> [pc : LookPc, tok : Tokens, seen : Times]]
  /\ out \in [Procs -> [pc : {"idle", "row", "legacy"}, tok : Tokens, clean : BOOLEAN]]
  /\ now \in Times /\ faults \in Nat
  /\ issued \in SUBSET Tokens /\ dead \in SUBSET Tokens

\* A session that was logged out is not accepted again: no row, no cache and no lookup under
\* way can bring it back, unless the logout met a failing delete, a lookup of the same session
\* or a copy of it in another process.  (Logout, ValidateSession)
StaysLoggedOut ==
  \A t \in dead :
    /\ row[t] = 0 /\ legacy[t] = 0
    /\ \A p \in Procs : cache[p][t] = 0 /\ (look[p].tok # t \/ look[p].seen = 0)
============================================================================
