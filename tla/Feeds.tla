------------------------------- MODULE Feeds -------------------------------
(***************************************************************************)
(* Scheduled tasks that work off what is new since they last ran: RSS      *)
(* feeds (rss.go) and the profiles the AI writes of users                  *)
(* (user_profiles.go), whose window starts at the last_fired_at that the   *)
(* scheduler stamps when a run is over; and the watched web pages, whose   *)
(* baseline is a stored copy (website_watch.go, website_snapshots.go).     *)
(* A behaviour follows one task.                                           *)
(***************************************************************************)
EXTENDS Integers

CONSTANTS
  Items,       \* entries of a feed, or users who write
  MaxTime,
  MaxPage,     \* bound: versions of the web page
  MaxSlips     \* bound: crashes and failing writes

VARIABLES
  task,      \* "rss", "profiles" or "watch"
  now,
  at,        \* when an entry was published or a message sent, 0 before
  fired,     \* last_fired_at of the task, 0: never
  run,       \* the run of the task
  page,      \* the version of the web page
  snapshot,  \* website_snapshots: {} or the version it is compared against
  slips,
  out,       \* history: how often an item was worked off
  first,     \* history: when the task was completed first
  spoilt,    \* history: items that came meanwhile, or could not be worked off
  told,      \* history: the version the readers know of, {} before the baseline
  gap,       \* history: a report did not start from what the readers know
  unheard    \* history: a report reached nobody

feedVars == <<task, now, at, fired, run, page, snapshot, slips, out, first, spoilt, told, gap, unheard>>
outside == <<task, now, at, page>>
ofPage == <<page, snapshot, told, gap, unheard>>

Idle == [pc |-> "idle", todo |-> {}, from |-> 0]

FeedsInit ==
  /\ task \in {"rss", "profiles", "watch"}
  /\ now = 1 /\ at = [i \in Items |-> 0]
  /\ fired = 0 /\ run = Idle
  /\ page = 1 /\ snapshot = {} /\ slips = 0
  /\ out = [i \in Items |-> 0] /\ first = 0 /\ spoilt = {}
  /\ told = {} /\ gap = FALSE /\ unheard = FALSE

Slip == slips < MaxSlips /\ slips' = slips + 1
Doing(pc) == run' = [run EXCEPT !.pc = pc]

---------------------------------------------------------------------------
(* The world.                                                              *)

Tick ==
  /\ now < MaxTime /\ now' = now + 1
  /\ UNCHANGED <<task, at, fired, run, slips, out, first, spoilt, ofPage>>

\* An entry shows up, dated now or a little earlier; a run that has its list does not see it.
Appear(i) ==
  /\ task # "watch" /\ at[i] = 0
  /\ \E date \in {now - 1, now} \ {0} :
       /\ at' = [at EXCEPT ![i] = date]
       /\ spoilt' = IF date <= fired \/ run.pc \in {"work", "stamp"} \/ (task = "rss" /\ run.pc = "read")
                    THEN spoilt \cup {i} ELSE spoilt
  /\ UNCHANGED <<task, now, fired, run, slips, out, first, ofPage>>

PageChanges ==
  /\ task = "watch" /\ page < MaxPage /\ page' = page + 1
  /\ UNCHANGED <<task, now, at, fired, run, slips, out, first, spoilt, snapshot, told, gap, unheard>>

---------------------------------------------------------------------------
(* A run.                                                                  *)

\* processRssFeed fetches the feed and then looks up last_fired_at, runUserProfilesUpdate looks it
\* up and then fetches the messages.  An error ends the task, and the task counts as done.
Begin ==
  /\ task # "watch" /\ run = Idle /\ fired < now
  /\ \/ run' = [pc |-> "read", todo |-> {i \in Items : task = "rss" /\ at[i] # 0}, from |-> fired]
     \/ Doing("stamp")
  /\ UNCHANGED <<outside, fired, slips, out, first, snapshot, told, gap, unheard>>
  /\ spoilt' = IF run'.pc = "stamp" THEN spoilt \cup {i \in Items : at[i] > fired} ELSE spoilt

\* New is what is dated later than the last run; of messages also what is as old.
NewInclusive(from) == {i \in run.todo : at[i] >= from}
New(from) == {i \in run.todo : at[i] > from}
Written(from) == {i \in Items : at[i] # 0 /\ at[i] >= from}

\* A feed that was never read publishes nothing; of users that were never profiled everything
\* that is kept is read.
List ==
  /\ run.pc = "read"
  /\ LET new == IF task = "profiles" THEN Written(run.from) ELSE IF fired = 0 THEN {} ELSE New(fired)
     IN run' = [run EXCEPT !.pc = IF new = {} THEN "stamp" ELSE "work", !.todo = new]
  /\ UNCHANGED <<outside, fired, slips, out, first, spoilt, ofPage>>

\* translateAndPublishRssItem, generateOrUpdateUserProfile: one after the other, each on its own;
\* what the model cannot translate or write, or Telegram does not take, is skipped.
Work ==
  /\ run.pc = "work"
  /\ \E i \in run.todo :
       /\ run' = [run EXCEPT !.todo = @ \ {i}, !.pc = IF run.todo = {i} THEN "stamp" ELSE "work"]
       /\ \/ out' = [out EXCEPT ![i] = @ + 1] /\ UNCHANGED spoilt
          \/ spoilt' = spoilt \cup {i} /\ UNCHANGED out
  /\ UNCHANGED <<outside, fired, slips, first, ofPage>>

\* executeWithLock: the run counts from when it is over, whatever came of it.
Stamp ==
  /\ run.pc = "stamp"
  /\ run' = Idle
  /\ \/ /\ fired' = now
        /\ first' = IF first = 0 THEN now ELSE first
        /\ UNCHANGED slips
     \/ Slip /\ UNCHANGED <<fired, first>>
  /\ UNCHANGED <<outside, out, spoilt, ofPage>>

---------------------------------------------------------------------------
(* A watched page.                                                         *)

\* processWatchedSite: the first version is kept without a word, and one that is as before is left.
Fetch ==
  /\ task = "watch" /\ run = Idle
  /\ IF snapshot = {}
     THEN \/ snapshot' = {page} /\ told' = {page} /\ UNCHANGED <<run, slips>>
          \/ Slip /\ UNCHANGED <<snapshot, told, run>>
     ELSE /\ page \notin snapshot
          /\ run' = [pc |-> "ask", todo |-> snapshot, from |-> page]
          /\ UNCHANGED <<snapshot, told, slips>>
  /\ UNCHANGED <<outside, fired, out, first, spoilt, gap, unheard>>

\* touchWatchedSite: what is not worth a report does not become the baseline.
TouchedAll(current) == {current}
Touched(current) == snapshot

\* summarizeWebsiteChange: a model says whether the change is worth a report; none when it fails.
Summarize ==
  /\ run.pc = "ask"
  /\ \/ Doing("publish") /\ UNCHANGED snapshot
     \/ run' = Idle /\ snapshot' = Touched(run.from)
  /\ UNCHANGED <<outside, fired, slips, out, first, spoilt, told, gap, unheard>>

\* publishWebsiteChange: to each destination; that it reached none is only logged.
Publish ==
  /\ run.pc = "publish"
  /\ Doing("save")
  /\ gap' = (gap \/ told # run.todo)
  /\ \/ told' = {run.from} /\ UNCHANGED unheard
     \/ unheard' = TRUE /\ UNCHANGED told
  /\ UNCHANGED <<outside, fired, slips, out, first, spoilt, snapshot>>

SaveSnapshot ==
  /\ run.pc = "save"
  /\ run' = Idle
  /\ \/ snapshot' = {run.from} /\ UNCHANGED slips
     \/ Slip /\ UNCHANGED snapshot
  /\ UNCHANGED <<outside, fired, out, first, spoilt, told, gap, unheard>>

\* The process dies, and is started again: nothing of the run was noted.
Crash ==
  /\ Slip /\ run # Idle /\ run' = Idle
  /\ UNCHANGED <<outside, fired, out, first, spoilt, snapshot, told, gap, unheard>>

FeedsNext ==
  \/ Tick \/ PageChanges \/ \E i \in Items : Appear(i)
  \/ Begin \/ List \/ Work \/ Stamp
  \/ Fetch \/ Summarize \/ Publish \/ SaveSnapshot
  \/ Crash

---------------------------------------------------------------------------
(* Properties.                                                             *)

\* What came up between the first run and the last was worked off: except what came while a run
\* was working, was dated before a run that had ended, or failed.  And no entry of a feed is
\* published twice, unless a run died or was not noted.  (processRssFeed, runUserProfilesUpdate,
\* executeWithLock)
EachItemOnce ==
  /\ run = Idle /\ first # 0 => \A i \in Items \ spoilt : first < at[i] /\ at[i] < fired => out[i] > 0
  /\ task = "rss" /\ slips = 0 => \A i \in Items : out[i] <= 1

\* Readers of a watched page can follow it from report to report, a series of small edits
\* included; except after a report that reached nobody, or that was not noted.
\* (processWatchedSite)
NothingUntold == gap => unheard \/ slips > 0
============================================================================
