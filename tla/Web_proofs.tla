----------------------------- MODULE Web_proofs -----------------------------
(***************************************************************************)
(* What the web UI promises: of sessions, for any number of processes and  *)
(* tokens; of signing in, for any number of addresses and any limits; of   *)
(* the configuration, for any number of processes and requests.            *)
(***************************************************************************)
EXTENDS MCWeb, TLAPS, FiniteSetTheorems

---------------------------------------------------------------------------
(* Sessions: the argument is about the tokens in hand.  A logout that      *)
(* nothing has disturbed knows of no copy in any cache and of no lookup    *)
(* under way, and a lookup that begins later finds no row to bring back.   *)

Looks == [pc : LookPc, tok : Tokens, seen : Nat]
Outs == [pc : {"idle", "row", "legacy"}, tok : Tokens, clean : BOOLEAN]

\* The types, without the bound on the clock.
SessionShape ==
  /\ row \in [Tokens -> Nat] /\ legacy \in [Tokens -> Nat]
  /\ cache \in [Procs -> [Tokens -> Nat]]
  /\ look \in [Procs -> Looks] /\ out \in [Procs -> Outs]
  /\ now \in Nat /\ faults \in Nat
  /\ issued \in SUBSET Tokens

\* Nobody handles a token that was not handed out.
Handed ==
  /\ Old \in issued /\ dead \subseteq issued
  /\ \A p \in Procs : look[p].tok \in issued /\ out[p].tok \in issued
  /\ \A p \in Procs, t \in Tokens : cache[p][t] # 0 => t \in issued

\* A lookup has seen an expiry once it is past the two reads, and not before.
Found ==
  \A p \in Procs : (look[p].seen = 0) <=> (look[p].pc \in {"idle", "hash", "legacy"})

\* No process has token t, or is about to put it somewhere.
Gone(t) ==
  \A q \in Procs : cache[q][t] = 0 /\ (look[q].pc = "idle" \/ look[q].tok # t)

\* A logout that nothing has disturbed.
Clean ==
  \A p \in Procs :
    out[p].pc # "idle" /\ out[p].clean =>
      /\ Gone(out[p].tok)
      /\ out[p].pc = "legacy" => row[out[p].tok] = 0

SInv == SessionShape /\ Handed /\ Found /\ Clean /\ StaysLoggedOut

---------------------------------------------------------------------------
(* Values.                                                                 *)

LEMMA Numbers == Old \in Tokens /\ SessionTtl \in Nat /\ SessionTtl > 0
BY SessionsAssumption

LEMMA IdleTypes == Idle \in Looks /\ NotOut \in Outs
BY Numbers DEF Idle, NotOut, Looks, Outs, LookPc

\* One lookup moves, the others stay.
LEMMA OneLook ==
  ASSUME SessionShape, NEW p \in Procs, NEW l \in Looks, look' = [look EXCEPT ![p] = l]
  PROVE  /\ look' \in [Procs -> Looks] /\ look'[p] = l
         /\ \A q \in Procs \ {p} : look'[q] = look[q]
BY DEF SessionShape

\* Where a step of a lookup leads.
LEMMA LookMoves ==
  ASSUME SessionShape, NEW p \in Procs, NEW pc \in LookPc, NEW seen \in Nat, LookTo(p, pc, seen)
  PROVE  \E l \in Looks : /\ look' = [look EXCEPT ![p] = l]
                          /\ l.pc = pc /\ l.seen = seen /\ l.tok = look[p].tok
<1> DEFINE l == [look[p] EXCEPT !.pc = pc, !.seen = seen]
<1>1. l \in Looks /\ l.pc = pc /\ l.seen = seen /\ l.tok = look[p].tok
    BY DEF SessionShape, Looks
<1>2. look' = [look EXCEPT ![p] = l]
    BY DEF LookTo, SessionShape, Looks
<1> QED
    BY <1>1, <1>2

---------------------------------------------------------------------------
(* What keeps the invariant.                                               *)

\* A lookup moves on with the same token, or ends; rows only disappear.
LEMMA LookupKeeps ==
  ASSUME SInv, NEW p \in Procs, NEW l \in Looks,
         look' = [look EXCEPT ![p] = l], LookElse, cache' = cache,
         look[p].pc # "idle", l.tok = look[p].tok \/ l = Idle,
         (l.seen = 0) <=> (l.pc \in {"idle", "hash", "legacy"}),
         l.seen # 0 => look[p].tok \notin dead,
         row' \in [Tokens -> Nat], legacy' \in [Tokens -> Nat],
         \A t \in Tokens : row'[t] \in {0, row[t]} \/ (t = look[p].tok /\ look[p].seen # 0),
         \A t \in Tokens : legacy'[t] \in {0, legacy[t]},
         faults' \in Nat
  PROVE  SInv'
<1>1. /\ look' \in [Procs -> Looks] /\ look'[p] = l
      /\ \A q \in Procs \ {p} : look'[q] = look[q]
    BY OneLook DEF SInv
<1>2. out' = out /\ now' = now /\ issued' = issued /\ dead' = dead
    BY DEF LookElse
<1>3. SessionShape'
    BY <1>1, <1>2 DEF SInv, SessionShape
<1>4. Idle.tok = Old /\ Idle.pc = "idle" /\ Idle.seen = 0
    BY DEF Idle
<1>5. Handed'
    BY <1>1, <1>2, <1>4 DEF SInv, Handed
<1>6. Found'
    BY <1>1 DEF SInv, Found
<1>7. \A t \in Tokens : Gone(t) => t # look[p].tok
    BY DEF Gone
<1>8. \A t \in Tokens : Gone(t) => Gone(t)'
    BY <1>1, <1>4, <1>7 DEF Gone
<1>9. Clean'
  <2> SUFFICES ASSUME NEW q \in Procs, NEW u \in Tokens, u = out[q].tok,
                      out[q].pc # "idle", out[q].clean
               PROVE  Gone(u)' /\ (out[q].pc = "legacy" => row'[u] = 0)
      BY <1>2 DEF Clean, Gone, SInv, SessionShape, Outs
  <2>1. Gone(u) /\ (out[q].pc = "legacy" => row[u] = 0)
      BY DEF SInv, Clean
  <2> QED
      BY <1>7, <1>8, <2>1
<1>10. StaysLoggedOut'
  <2> SUFFICES ASSUME NEW t \in dead
               PROVE  /\ row'[t] = 0 /\ legacy'[t] = 0
                      /\ \A q \in Procs : cache[q][t] = 0
                                          /\ (look'[q].tok # t \/ look'[q].seen = 0)
      BY <1>2 DEF StaysLoggedOut
  <2>1. /\ row[t] = 0 /\ legacy[t] = 0 /\ t \in Tokens
        /\ \A q \in Procs : cache[q][t] = 0 /\ (look[q].tok # t \/ look[q].seen = 0)
      BY DEF SInv, StaysLoggedOut, Handed, SessionShape
  <2>2. row'[t] = 0 /\ legacy'[t] = 0
      BY <2>1
  <2>3. l.tok # t \/ l.seen = 0
      BY <1>4
  <2> QED
      BY <1>1, <2>1, <2>2, <2>3
<1> QED
    BY <1>3, <1>5, <1>6, <1>9, <1>10 DEF SInv

\* What a delete, done or failed, does to a table.
LEMMA EraseTypes ==
  ASSUME SessionShape, NEW t \in Tokens
  PROVE  /\ Erase(row, t) => /\ row' \in [Tokens -> Nat] /\ faults' \in Nat
                             /\ \A u \in Tokens : row'[u] \in {0, row[u]}
         /\ Erase(legacy, t) => /\ legacy' \in [Tokens -> Nat] /\ faults' \in Nat
                                /\ \A u \in Tokens : legacy'[u] \in {0, legacy[u]}
                                /\ faults' = faults => legacy'[t] = 0
BY DEF SessionShape, Erase, Fault

\* The steps of a lookup that has begun.
LEMMA LookupSteps ==
  ASSUME SInv, NEW p \in Procs,
         \/ ReadFails(p) \/ ReadHash(p) \/ ReadLegacy(p) \/ SaveMigrated(p)
         \/ DropLegacy(p) \/ DropExpired(p)
  PROVE  SInv'
<1>0. /\ SessionShape /\ look[p] \in Looks /\ look[p].tok \in Tokens /\ look[p].seen \in Nat
      /\ row \in [Tokens -> Nat] /\ legacy \in [Tokens -> Nat] /\ now \in Nat
      /\ faults \in Nat
    BY DEF SInv, SessionShape, Looks
<1>1. /\ (look[p].seen = 0) <=> (look[p].pc \in {"idle", "hash", "legacy"})
      /\ look[p].tok \in dead => look[p].seen = 0
      /\ look[p].tok \in dead => row[look[p].tok] = 0 /\ legacy[look[p].tok] = 0
    BY DEF SInv, Found, StaysLoggedOut
<1>2. Idle \in Looks /\ Idle.seen = 0 /\ Idle.pc = "idle"
    BY IdleTypes DEF Idle
<1>3. ASSUME LookDone(p), LookElse, cache' = cache, look[p].pc # "idle",
             row' \in [Tokens -> Nat], legacy' \in [Tokens -> Nat], faults' \in Nat,
             \A t \in Tokens : row'[t] \in {0, row[t]},
             \A t \in Tokens : legacy'[t] \in {0, legacy[t]}
      PROVE  SInv'
    BY <1>2, <1>3, LookupKeeps DEF LookDone
<1>4. ASSUME NEW pc \in LookPc, NEW seen \in Nat, LookTo(p, pc, seen),
             (seen = 0) <=> (pc \in {"idle", "hash", "legacy"}),
             seen # 0 => look[p].tok \notin dead,
             LookElse, cache' = cache, look[p].pc # "idle",
             row' \in [Tokens -> Nat], legacy' \in [Tokens -> Nat], faults' \in Nat,
             \A t \in Tokens : row'[t] \in {0, row[t]}
                               \/ (t = look[p].tok /\ look[p].seen # 0),
             \A t \in Tokens : legacy'[t] \in {0, legacy[t]}
      PROVE  SInv'
  <2>1. LookTo(p, pc, seen)
      BY <1>4
  <2>2. PICK l \in Looks : /\ look' = [look EXCEPT ![p] = l]
                           /\ l.pc = pc /\ l.seen = seen /\ l.tok = look[p].tok
      BY <1>0, <2>1, LookMoves
  <2> QED
      BY <1>4, <2>2, LookupKeeps
<1>5. ASSUME NEW seen \in Nat, NEW valid \in {"publish", "migrate"},
             Judge(p, seen, valid), seen # 0 => look[p].tok \notin dead,
             LookElse, cache' = cache, look[p].pc # "idle",
             row' \in [Tokens -> Nat], legacy' \in [Tokens -> Nat], faults' \in Nat,
             \A t \in Tokens : row'[t] \in {0, row[t]},
             \A t \in Tokens : legacy'[t] \in {0, legacy[t]}
      PROVE  SInv'
  <2>1. CASE seen = 0
      BY <1>3, <1>5, <2>1 DEF Judge
  <2>2. CASE seen # 0 /\ seen < now
      BY <1>4, <1>5, <2>2 DEF Judge, LookPc
  <2>3. CASE seen # 0 /\ ~(seen < now)
      BY <1>4, <1>5, <2>3 DEF Judge, LookPc
  <2> QED
      BY <2>1, <2>2, <2>3
<1>6. CASE ReadFails(p)
    BY <1>0, <1>3, <1>6 DEF ReadFails, Fault
<1>7. CASE ReadHash(p)
  <2>1. CASE row[look[p].tok] = 0
      BY <1>0, <1>4, <1>7, <2>1 DEF ReadHash, LookPc
  <2>2. CASE row[look[p].tok] # 0
      BY <1>0, <1>1, <1>5, <1>7, <2>2 DEF ReadHash
  <2> QED
      BY <2>1, <2>2
<1>8. CASE ReadLegacy(p)
    BY <1>0, <1>1, <1>5, <1>8 DEF ReadLegacy
<1>9. CASE SaveMigrated(p)
  <2>1. /\ look[p].seen # 0 /\ look[p].tok \notin dead
        /\ faults' \in Nat /\ row' \in [Tokens -> Nat]
        /\ \A t \in Tokens : row'[t] \in {0, row[t]} \/ t = look[p].tok
      BY <1>0, <1>1, <1>9 DEF SaveMigrated, Fault
  <2> QED
      BY <1>0, <1>4, <1>9, <2>1 DEF SaveMigrated, LookPc
<1>10. CASE DropLegacy(p)
  <2>1. /\ look[p].seen # 0 /\ look[p].tok \notin dead
        /\ legacy' \in [Tokens -> Nat] /\ faults' \in Nat
        /\ \A t \in Tokens : legacy'[t] \in {0, legacy[t]}
      BY <1>0, <1>1, <1>10, EraseTypes DEF DropLegacy
  <2> QED
      BY <1>0, <1>5, <1>10, <2>1 DEF DropLegacy
<1>11. CASE DropExpired(p)
  <2>1. look[p].seen # 0 /\ look[p].tok \notin dead
      BY <1>1, <1>11 DEF DropExpired
  <2>2. CASE look[p].pc = "expired"
    <3>1. /\ row' \in [Tokens -> Nat] /\ faults' \in Nat
          /\ \A t \in Tokens : row'[t] \in {0, row[t]}
        BY <1>0, <1>11, <2>2, EraseTypes DEF DropExpired
    <3> QED
        BY <1>0, <1>4, <1>11, <2>1, <2>2, <3>1 DEF DropExpired, LookPc
  <2>3. CASE look[p].pc # "expired"
    <3>1. /\ legacy' \in [Tokens -> Nat] /\ faults' \in Nat
          /\ \A t \in Tokens : legacy'[t] \in {0, legacy[t]}
        BY <1>0, <1>11, <2>3, EraseTypes DEF DropExpired
    <3> QED
        BY <1>0, <1>3, <1>11, <2>3, <3>1 DEF DropExpired
  <2> QED
      BY <2>2, <2>3
<1> QED
    BY <1>6, <1>7, <1>8, <1>9, <1>10, <1>11

---------------------------------------------------------------------------
(* The other steps.                                                        *)

LEMMA InitSInv == Init => SInv
<1> SUFFICES ASSUME Init PROVE SInv
    OBVIOUS
<1>1. SessionShape
    BY IdleTypes, Numbers DEF Init, SessionShape
<1>2. Handed
    BY Numbers DEF Init, Handed, Idle, NotOut
<1>3. Found /\ Clean /\ StaysLoggedOut
    BY DEF Init, Found, Clean, StaysLoggedOut, Idle, NotOut
<1> QED
    BY <1>1, <1>2, <1>3 DEF SInv

LEMMA IssueKeeps ==
  ASSUME SInv, NEW p \in Procs, Issue(p)
  PROVE  SInv'
<1> PICK t \in Tokens \ issued :
      /\ issued' = issued \cup {t}
      /\ cache' = [cache EXCEPT ![p][t] = now + SessionTtl]
      /\ \/ row' = [row EXCEPT ![t] = now + SessionTtl] /\ UNCHANGED faults
         \/ Fault /\ UNCHANGED row
      /\ UNCHANGED <<legacy, look, out, now, dead>>
    BY DEF Issue
<1>1. /\ \A q \in Procs : \A u \in Tokens : u # t => cache'[q][u] = cache[q][u]
      /\ \A u \in Tokens : u # t => row'[u] = row[u]
      /\ SessionShape'
    BY Numbers DEF SInv, SessionShape, Fault
<1>2. /\ t \notin dead /\ \A q \in Procs : look[q].tok # t /\ out[q].tok # t
      /\ \A q \in Procs : out[q].tok \in Tokens
    BY DEF SInv, Handed, SessionShape, Outs
<1>3. Handed'
    BY <1>1 DEF SInv, Handed
<1>4. Found'
    BY DEF SInv, Found
<1>5. Clean'
    BY <1>1, <1>2 DEF SInv, Clean, Gone
<1>6. StaysLoggedOut'
    BY <1>1, <1>2 DEF SInv, StaysLoggedOut, Handed, SessionShape
<1> QED
    BY <1>1, <1>3, <1>4, <1>5, <1>6 DEF SInv

LEMMA ValidateKeeps ==
  ASSUME SInv, NEW p \in Procs, NEW t \in Tokens, ValidateSession(p, t)
  PROVE  SInv'
<1> DEFINE l == [Idle EXCEPT !.pc = "hash", !.tok = t]
<1>1. l \in Looks /\ l.pc = "hash" /\ l.tok = t /\ l.seen = 0
    BY IdleTypes DEF Idle, Looks, LookPc
<1>2. look' = [look EXCEPT ![p] = l] /\ t \in issued
    BY DEF ValidateSession
<1> HIDE DEF l
<1>3. /\ look' \in [Procs -> Looks] /\ look'[p] = l
      /\ \A q \in Procs \ {p} : look'[q] = look[q]
    BY <1>1, <1>2, OneLook DEF SInv
<1>4. /\ cache' \in [Procs -> [Tokens -> Nat]]
      /\ \A q \in Procs, u \in Tokens : cache'[q][u] \in {0, cache[q][u]}
    BY DEF ValidateSession, SInv, SessionShape
<1>5. \A q \in Procs :
        /\ out'[q] \in Outs /\ out'[q].tok = out[q].tok /\ out'[q].pc = out[q].pc
        /\ out'[q].clean => out[q].clean
        /\ out'[q].clean /\ out[q].pc # "idle" => out[q].tok # t
    BY DEF ValidateSession, Disturbed, SInv, SessionShape, Outs
<1>6. /\ row' = row /\ legacy' = legacy /\ now' = now /\ faults' = faults
      /\ issued' = issued /\ dead' = dead
    BY DEF ValidateSession
<1>7. out' \in [Procs -> Outs]
    BY <1>5 DEF ValidateSession, Disturbed
<1>8. SessionShape'
    BY <1>3, <1>4, <1>6, <1>7 DEF SInv, SessionShape
<1>9. Handed'
  <2>1. Old \in issued' /\ dead' \subseteq issued'
      BY <1>6 DEF SInv, Handed
  <2>2. \A q \in Procs : look'[q].tok \in issued'
      BY <1>1, <1>2, <1>3, <1>6 DEF SInv, Handed
  <2>3. \A q \in Procs : out'[q].tok \in issued'
      BY <1>5, <1>6 DEF SInv, Handed
  <2>4. \A q \in Procs, u \in Tokens : cache'[q][u] # 0 => u \in issued'
      BY <1>4, <1>6 DEF SInv, Handed
  <2> QED
      BY <2>1, <2>2, <2>3, <2>4 DEF Handed
<1>10. Found'
    BY <1>1, <1>3 DEF SInv, Found
<1>11. Clean'
  <2> SUFFICES ASSUME NEW q \in Procs, NEW u \in Tokens, u = out[q].tok,
                      out'[q].pc # "idle", out'[q].clean
               PROVE  Gone(u)' /\ (out[q].pc = "legacy" => row[u] = 0)
      BY <1>5, <1>6 DEF Clean, Gone, SInv, SessionShape, Outs
  <2>1. Gone(u) /\ (out[q].pc = "legacy" => row[u] = 0) /\ u # t
      BY <1>5 DEF SInv, Clean
  <2> QED
      BY <1>1, <1>3, <1>4, <2>1 DEF Gone
<1>12. StaysLoggedOut'
    BY <1>1, <1>3, <1>4, <1>6 DEF SInv, StaysLoggedOut, Handed, SessionShape
<1> QED
    BY <1>8, <1>9, <1>10, <1>11, <1>12 DEF SInv

LEMMA PublishKeeps ==
  ASSUME SInv, NEW p \in Procs, Publish(p)
  PROVE  SInv'
<1> DEFINE t == look[p].tok
<1>1. /\ look[p].pc = "publish" /\ look' = [look EXCEPT ![p] = Idle]
      /\ cache' = [cache EXCEPT ![p][t] = look[p].seen]
      /\ row' = row /\ legacy' = legacy /\ now' = now /\ faults' = faults
      /\ issued' = issued /\ dead' = dead /\ out' = out
    BY DEF Publish, LookDone, LookElse
<1>2. t \in Tokens /\ t \in issued /\ look[p].seen \in Nat
    BY DEF SInv, SessionShape, Handed, Looks
<1>3. t \notin dead
    BY <1>1 DEF SInv, Found, StaysLoggedOut
<1>4. /\ look' \in [Procs -> Looks] /\ look'[p] = Idle
      /\ \A q \in Procs \ {p} : look'[q] = look[q]
    BY <1>1, IdleTypes, OneLook DEF SInv
<1>5. /\ cache' \in [Procs -> [Tokens -> Nat]]
      /\ \A q \in Procs, u \in Tokens : u # t => cache'[q][u] = cache[q][u]
    BY <1>1, <1>2 DEF SInv, SessionShape
<1>6. \A q \in Procs : out[q].pc # "idle" /\ out[q].clean => out[q].tok # t
    BY <1>1 DEF SInv, Clean, Gone
<1>7. Idle.pc = "idle" /\ Idle.seen = 0 /\ Idle.tok = Old
    BY DEF Idle
<1>8. SessionShape'
    BY <1>1, <1>4, <1>5 DEF SInv, SessionShape
<1> HIDE DEF t
<1>9. Handed'
    BY <1>1, <1>2, <1>4, <1>5, <1>7 DEF SInv, Handed
<1>10. Found'
    BY <1>4, <1>7 DEF SInv, Found
<1>11. Clean'
    BY <1>1, <1>4, <1>5, <1>6, <1>7 DEF SInv, Clean, Gone, SessionShape, Outs
<1>12. StaysLoggedOut'
    BY <1>1, <1>3, <1>4, <1>5, <1>7 DEF SInv, StaysLoggedOut, Handed, SessionShape
<1> QED
    BY <1>8, <1>9, <1>10, <1>11, <1>12 DEF SInv

LEMMA LogoutCacheKeeps ==
  ASSUME SInv, NEW p \in Procs, NEW t \in Tokens, LogoutCache(p, t)
  PROVE  SInv'
<1> DEFINE o == [pc |-> "row", tok |-> t, clean |-> Undisturbed(p, t)]
<1>1. /\ out' = [out EXCEPT ![p] = o] /\ cache' = [cache EXCEPT ![p][t] = 0]
      /\ row' = row /\ legacy' = legacy /\ look' = look /\ now' = now
      /\ faults' = faults /\ issued' = issued /\ dead' = dead /\ cache[p][t] > now
    BY DEF LogoutCache
<1>2. o \in Outs /\ o.pc = "row" /\ o.tok = t /\ (o.clean <=> Undisturbed(p, t))
    BY DEF Outs, Undisturbed
<1> HIDE DEF o
<1>3. /\ out' \in [Procs -> Outs] /\ out'[p] = o
      /\ \A q \in Procs \ {p} : out'[q] = out[q]
    BY <1>1, <1>2 DEF SInv, SessionShape
<1>4. /\ cache' \in [Procs -> [Tokens -> Nat]] /\ cache'[p][t] = 0
      /\ \A q \in Procs, u \in Tokens : cache'[q][u] \in {0, cache[q][u]}
      /\ \A q \in Procs \ {p} : cache'[q][t] = cache[q][t]
    BY <1>1 DEF SInv, SessionShape
<1>5. SessionShape'
    BY <1>1, <1>3, <1>4 DEF SInv, SessionShape
<1>6. Handed'
  <2>1. t \in issued
      BY <1>1 DEF SInv, SessionShape, Handed
  <2> QED
      BY <1>1, <1>2, <1>3, <1>4, <2>1 DEF SInv, Handed
<1>7. Found'
    BY <1>1 DEF SInv, Found
<1>8. Clean'
  <2>1. Undisturbed(p, t) => Gone(t)'
      BY <1>1, <1>4 DEF Undisturbed, Gone
  <2>2. ASSUME NEW u \in Tokens, Gone(u) PROVE Gone(u)'
      BY <1>1, <1>4, <2>2 DEF Gone
  <2> SUFFICES ASSUME NEW q \in Procs, NEW u \in Tokens, u = out'[q].tok,
                      out'[q].pc # "idle", out'[q].clean
               PROVE  Gone(u)' /\ (out'[q].pc = "legacy" => row'[u] = 0)
      BY <1>3 DEF Clean, Gone, Outs
  <2>3. CASE q = p
      BY <1>2, <1>3, <2>1, <2>3
  <2>4. CASE q # p
    <3>1. out'[q] = out[q]
        BY <1>3, <2>4
    <3>2. Gone(u) /\ (out[q].pc = "legacy" => row[u] = 0)
        BY <3>1 DEF SInv, Clean
    <3> QED
        BY <1>1, <2>2, <3>1, <3>2
  <2> QED
      BY <2>3, <2>4
<1>9. StaysLoggedOut'
    BY <1>1, <1>4 DEF SInv, StaysLoggedOut, Handed, SessionShape
<1> QED
    BY <1>5, <1>6, <1>7, <1>8, <1>9 DEF SInv

\* The statements of a logout that has begun: the row goes, then the old row.
LEMMA LogoutRowKeeps ==
  ASSUME SInv, NEW p \in Procs, LogoutRow(p)
  PROVE  SInv'
<1>1. /\ out[p].pc = "row" /\ Erase(row, out[p].tok)
      /\ out' = [out EXCEPT ![p].pc = "legacy", ![p].clean = @ /\ row'[out[p].tok] = 0]
      /\ legacy' = legacy /\ cache' = cache /\ look' = look /\ now' = now
      /\ issued' = issued /\ dead' = dead
    BY DEF LogoutRow
<1>2. out[p].tok \in Tokens /\ out \in [Procs -> Outs] /\ out[p] \in Outs
    BY DEF SInv, SessionShape, Outs
<1>3. /\ row' \in [Tokens -> Nat] /\ faults' \in Nat
      /\ \A u \in Tokens : row'[u] \in {0, row[u]}
    BY <1>1, <1>2, EraseTypes DEF SInv
<1>4. /\ out' \in [Procs -> Outs]
      /\ \A q \in Procs \ {p} : out'[q] = out[q]
      /\ out'[p].tok = out[p].tok
      /\ out'[p].clean => out[p].clean /\ row'[out[p].tok] = 0
    BY <1>1, <1>2 DEF Outs
<1>5. SessionShape'
    BY <1>1, <1>3, <1>4 DEF SInv, SessionShape
<1>6. Handed'
    BY <1>1, <1>4 DEF SInv, Handed
<1>7. Found'
    BY <1>1 DEF SInv, Found
<1>8. Clean'
    BY <1>1, <1>2, <1>3, <1>4 DEF SInv, Clean, Gone, Outs
<1>9. StaysLoggedOut'
    BY <1>1, <1>3 DEF SInv, StaysLoggedOut, Handed, SessionShape
<1> QED
    BY <1>5, <1>6, <1>7, <1>8, <1>9 DEF SInv

LEMMA LogoutLegacyKeeps ==
  ASSUME SInv, NEW p \in Procs, LogoutLegacy(p)
  PROVE  SInv'
<1> DEFINE t == out[p].tok
<1>1. /\ out[p].pc = "legacy" /\ Erase(legacy, t)
      /\ out' = [out EXCEPT ![p] = NotOut]
      /\ dead' = IF out[p].clean /\ faults' = faults THEN dead \cup {t} ELSE dead
      /\ row' = row /\ cache' = cache /\ look' = look /\ now' = now /\ issued' = issued
    BY DEF LogoutLegacy, LegacyAfterLogout
<1>2. t \in Tokens /\ t \in issued
    BY DEF SInv, SessionShape, Outs, Handed
<1>3. /\ legacy' \in [Tokens -> Nat] /\ faults' \in Nat
      /\ \A u \in Tokens : legacy'[u] \in {0, legacy[u]}
      /\ faults' = faults => legacy'[t] = 0
    BY <1>1, <1>2, EraseTypes DEF SInv
<1>4. NotOut \in Outs /\ NotOut.pc = "idle" /\ NotOut.tok = Old
    BY IdleTypes DEF NotOut
<1>5. /\ out' \in [Procs -> Outs] /\ out'[p] = NotOut
      /\ \A q \in Procs \ {p} : out'[q] = out[q]
    BY <1>1, <1>4 DEF SInv, SessionShape
<1>6. SessionShape'
    BY <1>1, <1>3, <1>5 DEF SInv, SessionShape
<1>7. Handed'
    BY <1>1, <1>2, <1>4, <1>5 DEF SInv, Handed
<1>8. Found'
    BY <1>1 DEF SInv, Found
<1>9. Clean'
    BY <1>1, <1>4, <1>5 DEF SInv, Clean, Gone
<1>10. StaysLoggedOut'
  <2>1. ASSUME out[p].clean, faults' = faults
        PROVE  /\ row[t] = 0 /\ legacy'[t] = 0
               /\ \A q \in Procs : cache[q][t] = 0 /\ (look[q].tok # t \/ look[q].seen = 0)
    <3>1. Gone(t) /\ row[t] = 0
        BY <1>1, <2>1 DEF SInv, Clean
    <3> QED
        BY <1>3, <2>1, <3>1 DEF SInv, Found, Gone
  <2>2. \A u \in dead : u \in Tokens
      BY DEF SInv, Handed, SessionShape
  <2> HIDE DEF t
  <2> QED
      BY <1>1, <1>3, <2>1, <2>2 DEF SInv, StaysLoggedOut
<1> QED
    BY <1>6, <1>7, <1>8, <1>9, <1>10 DEF SInv

LEMMA RestartKeeps ==
  ASSUME SInv, NEW p \in Procs, Restart(p)
  PROVE  SInv'
<1>1. /\ cache' = [cache EXCEPT ![p] = [t \in Tokens |-> 0]]
      /\ look' = [look EXCEPT ![p] = Idle] /\ out' = [out EXCEPT ![p] = NotOut]
      /\ row' = [t \in Tokens |-> IF row[t] < now THEN 0 ELSE row[t]]
      /\ legacy' = [t \in Tokens |-> IF legacy[t] < now THEN 0 ELSE legacy[t]]
      /\ faults' \in Nat /\ now' = now /\ issued' = issued /\ dead' = dead
    BY DEF Restart, Fault, SInv, SessionShape
<1>2. /\ look' \in [Procs -> Looks] /\ look'[p] = Idle
      /\ \A q \in Procs \ {p} : look'[q] = look[q]
    BY <1>1, IdleTypes, OneLook DEF SInv
<1>3. /\ out' \in [Procs -> Outs] /\ out'[p] = NotOut
      /\ \A q \in Procs \ {p} : out'[q] = out[q]
    BY <1>1, IdleTypes DEF SInv, SessionShape
<1>4. /\ cache' \in [Procs -> [Tokens -> Nat]]
      /\ \A q \in Procs, u \in Tokens : cache'[q][u] \in {0, cache[q][u]}
    BY <1>1 DEF SInv, SessionShape
<1>5. /\ row' \in [Tokens -> Nat] /\ legacy' \in [Tokens -> Nat]
      /\ \A u \in Tokens : row'[u] \in {0, row[u]} /\ legacy'[u] \in {0, legacy[u]}
    BY <1>1 DEF SInv, SessionShape
<1>6. /\ Idle.pc = "idle" /\ Idle.seen = 0 /\ Idle.tok = Old
      /\ NotOut.pc = "idle" /\ NotOut.tok = Old
    BY DEF Idle, NotOut
<1>7. SessionShape'
    BY <1>1, <1>2, <1>3, <1>4, <1>5 DEF SInv, SessionShape
<1>8. Handed'
    BY <1>1, <1>2, <1>3, <1>4, <1>6 DEF SInv, Handed
<1>9. Found'
    BY <1>2, <1>6 DEF SInv, Found
<1>10. Clean'
  <2> SUFFICES ASSUME NEW q \in Procs, NEW u \in Tokens, u = out'[q].tok,
                      out'[q].pc # "idle", out'[q].clean
               PROVE  Gone(u)' /\ (out'[q].pc = "legacy" => row'[u] = 0)
      BY <1>3 DEF Clean, Gone, Outs
  <2>1. out'[q] = out[q]
      BY <1>3, <1>6
  <2>2. Gone(u) /\ (out[q].pc = "legacy" => row[u] = 0)
      BY <2>1 DEF SInv, Clean
  <2> QED
      BY <1>2, <1>4, <1>5, <1>6, <2>1, <2>2 DEF Gone
<1>11. StaysLoggedOut'
    BY <1>1, <1>2, <1>4, <1>5, <1>6 DEF SInv, StaysLoggedOut, Handed, SessionShape
<1> QED
    BY <1>7, <1>8, <1>9, <1>10, <1>11 DEF SInv

LEMMA NextSInv == SInv /\ [Next]_vars => SInv'
<1> SUFFICES ASSUME SInv, [Next]_vars PROVE SInv'
    OBVIOUS
<1>1. ASSUME NEW p \in Procs, NEW t \in Tokens, ValidateSession(p, t) \/ LogoutCache(p, t)
      PROVE  SInv'
    BY <1>1, ValidateKeeps, LogoutCacheKeeps
<1>2. ASSUME NEW p \in Procs,
             \/ ReadFails(p) \/ ReadHash(p) \/ ReadLegacy(p) \/ SaveMigrated(p)
             \/ DropLegacy(p) \/ DropExpired(p)
      PROVE  SInv'
    BY <1>2, LookupSteps
<1>3. ASSUME NEW p \in Procs,
             Issue(p) \/ Publish(p) \/ LogoutRow(p) \/ LogoutLegacy(p) \/ Restart(p)
      PROVE  SInv'
    BY <1>3, IssueKeeps, PublishKeeps, LogoutRowKeeps, LogoutLegacyKeeps, RestartKeeps
<1>4. CASE Tick
    BY <1>4 DEF Tick, SInv, SessionShape, Handed, Found, Clean, Gone, StaysLoggedOut
<1>5. CASE UNCHANGED vars
    BY <1>5 DEF vars, SInv, SessionShape, Handed, Found, Clean, Gone, StaysLoggedOut
<1> QED
    BY <1>1, <1>2, <1>3, <1>4, <1>5 DEF Next

---------------------------------------------------------------------------
(* Signing in.  The guesses that are counted are the last ones; those      *)
(* before them are a lockout away, so the guess that is MaxFailed places   *)
(* earlier is too.                                                         *)

\* The limits, as the constants of auth.go have them.
Limits == MaxFailed \in Nat \ {0} /\ Lockout \in Nat

Failures == [count : Nat, at : Nat]

\* A password is tried again that the process has refused.
TriesAgain == login # SI!NoLogin => login.ip \in Ips /\ login.word # login.had

GuessShape ==
  /\ failed \in [Ips -> Failures]
  /\ guesses \in [Ips -> Seq(Nat)]
  /\ now \in Nat
  /\ TriesAgain

\* The guesses are in the order of the clock.
Ordered(g, t) ==
  /\ \A j, k \in 1 .. Len(g) : j <= k => g[j] <= g[k]
  /\ \A j \in 1 .. Len(g) : g[j] <= t

\* The failures counted are the last guesses, and the one before them a lockout away; the last
\* one starts the lockout when it fills the count.
Counts(f, g) ==
  /\ f.count <= MaxFailed /\ f.count <= Len(g)
  /\ f.count = 0 => Len(g) = 0
  /\ f.count = MaxFailed => f.at = g[Len(g)]
  /\ \A j \in 1 .. Len(g) :
       Len(g) > f.count /\ j > Len(g) - f.count => g[j] - g[Len(g) - f.count] >= Lockout

Spaced(g) == \A k \in 1 .. Len(g) - MaxFailed : g[k + MaxFailed] - g[k] >= Lockout

Sound(f, g, t) == Ordered(g, t) /\ Counts(f, g) /\ Spaced(g)

GInv == GuessShape /\ \A i \in Ips : Sound(failed[i], guesses[i], now)

---------------------------------------------------------------------------
(* One guess, one success.                                                 *)

\* A guess at time t by an address that is not locked out.
LEMMA OneGuess ==
  ASSUME Limits, NEW f \in Failures, NEW g \in Seq(Nat), NEW t \in Nat, Sound(f, g, t),
         NEW h \in Failures, NEW s \in Failures,
         \/ f.count < MaxFailed /\ h = f
         \/ f.count >= MaxFailed /\ t - f.at >= Lockout /\ h.count = 0,
         s.count = h.count + 1, s.count >= MaxFailed => s.at = t
  PROVE  Sound(s, Append(g, t), t)
<1> DEFINE n == Len(g)
           e == Append(g, t)
<1>1. /\ n \in Nat /\ Len(e) = n + 1 /\ e[n + 1] = t
      /\ \A j \in 1 .. n : e[j] = g[j] /\ g[j] \in Nat
    OBVIOUS
<1>2. MaxFailed \in Nat /\ MaxFailed > 0 /\ Lockout \in Nat /\ f.count \in Nat /\ f.at \in Nat
    BY DEF Limits, Failures
<1> HIDE DEF n, e
<1>3. /\ \A j, k \in 1 .. n : j <= k => g[j] <= g[k]
      /\ \A j \in 1 .. n : g[j] <= t
    BY DEF Sound, Ordered, n
<1>4. /\ f.count <= MaxFailed /\ f.count <= n /\ (f.count = 0 => n = 0)
      /\ f.count = MaxFailed => f.at = g[n]
      /\ \A j \in 1 .. n : n > f.count /\ j > n - f.count => g[j] - g[n - f.count] >= Lockout
    BY DEF Sound, Counts, n
<1>5. \A k \in 1 .. n - MaxFailed : g[k + MaxFailed] - g[k] >= Lockout
    BY DEF Sound, Spaced, n
<1>6. Ordered(e, t)
  <2>1. ASSUME NEW j \in 1 .. n + 1 PROVE e[j] <= t
      BY <1>1, <1>3
  <2>2. ASSUME NEW j \in 1 .. n + 1, NEW k \in 1 .. n + 1, j <= k PROVE e[j] <= e[k]
    <3>1. CASE k = n + 1
        BY <1>1, <2>1, <3>1
    <3>2. CASE k # n + 1
        BY <1>1, <1>3, <2>2, <3>2
    <3> QED
        BY <3>1, <3>2
  <2> QED
      BY <1>1, <2>1, <2>2 DEF Ordered
\* How far the guess is from those that are not counted with it.
<1>7. n > 0 => s.count <= n + 1 /\ (n + 1 > s.count => t - g[n + 1 - s.count] >= Lockout)
  <2>1. CASE f.count < MaxFailed
    <3>1. s.count = f.count + 1
        BY <2>1, <1>2
    <3>2. ASSUME n > 0, n > f.count PROVE t - g[n - f.count] >= Lockout
      <4>1. /\ n \in 1 .. n /\ f.count > 0 /\ g[n] - g[n - f.count] >= Lockout /\ g[n] <= t
            /\ g[n] \in Nat /\ n - f.count \in 1 .. n
          BY <1>1, <1>2, <1>3, <1>4, <3>2
      <4>2. g[n - f.count] \in Nat
          BY <1>1, <4>1
      <4>3. PICK a \in Nat, b \in Nat, l \in Nat :
               a = g[n - f.count] /\ b = g[n] /\ l = Lockout
          BY <1>1, <1>2, <4>1, <4>2
      <4>4. b - a >= l /\ b <= t
          BY <4>1, <4>3
      <4>5. t - a >= l
          BY <4>4
      <4> QED
          BY <4>3, <4>5
    <3> QED
        BY <1>1, <1>2, <1>4, <3>1, <3>2
  <2>2. CASE f.count >= MaxFailed
    <3>1. s.count = 1 /\ t - f.at >= Lockout /\ f.at = g[n]
        BY <1>2, <1>4, <2>2
    <3> QED
        BY <1>1, <3>1
  <2> QED
      BY <1>2, <2>1, <2>2
<1>8. s.count \in Nat /\ s.count > 0 /\ s.count <= MaxFailed /\ s.count <= n + 1
    BY <1>1, <1>2, <1>4 DEF Failures
<1>9. Counts(s, e)
  <2>1. s.count = MaxFailed => s.at = e[n + 1]
      BY <1>1, <1>2, <1>8
  <2>2. ASSUME NEW j \in 1 .. n + 1, n + 1 > s.count, j > n + 1 - s.count
        PROVE  e[j] - e[n + 1 - s.count] >= Lockout
    <3>1. n + 1 - s.count \in 1 .. n /\ e[n + 1 - s.count] = g[n + 1 - s.count] /\ n > 0
        BY <1>1, <1>8, <2>2
    <3>2. CASE j = n + 1
        BY <1>1, <1>7, <2>2, <3>1, <3>2
    <3>3. CASE j # n + 1
      <4>1. j \in 1 .. n /\ e[j] = g[j]
          BY <1>1, <3>3
      <4>2. f.count < MaxFailed
          BY <1>1, <1>2, <1>8, <2>2, <3>3
      <4>3. s.count = f.count + 1
          BY <1>2, <4>2
      <4>4. n > f.count /\ j > n - f.count /\ n + 1 - s.count = n - f.count
          BY <1>1, <1>2, <2>2, <4>3
      <4> QED
          BY <1>4, <3>1, <4>1, <4>4
    <3> QED
        BY <3>2, <3>3
  <2>3. /\ s.count <= MaxFailed /\ s.count <= Len(e) /\ s.count # 0
        /\ s.count = MaxFailed => s.at = e[Len(e)]
      BY <1>1, <1>8, <2>1
  <2>4. ASSUME NEW j \in 1 .. Len(e), Len(e) > s.count, j > Len(e) - s.count
        PROVE  e[j] - e[Len(e) - s.count] >= Lockout
    <3>1. j \in 1 .. n + 1 /\ n + 1 > s.count /\ j > n + 1 - s.count
        BY <1>1, <1>8, <2>4
    <3>2. e[j] - e[n + 1 - s.count] >= Lockout
        BY <2>2, <3>1
    <3> QED
        BY <1>1, <1>8, <3>2
  <2> QED
      BY <2>3, <2>4 DEF Counts
<1>10. Spaced(e)
  <2> SUFFICES ASSUME NEW k \in 1 .. Len(e) - MaxFailed
               PROVE  e[k + MaxFailed] - e[k] >= Lockout
      BY DEF Spaced
  <2>0. k \in 1 .. n + 1 - MaxFailed
      BY <1>1, <1>2
  <2>1. k \in 1 .. n /\ e[k] = g[k] /\ k \in Nat /\ n > 0 /\ k + MaxFailed <= n + 1
      BY <1>1, <1>2, <2>0
  <2>2. CASE k + MaxFailed = n + 1
    <3>0. PICK c \in Nat : c = s.count /\ c > 0 /\ c <= MaxFailed
        BY <1>8
    <3>1. n + 1 > c /\ n + 1 - c \in 1 .. n /\ k <= n + 1 - c
        BY <1>1, <1>2, <2>0, <2>2, <3>0
    <3>2. n + 1 > s.count /\ n + 1 - s.count \in 1 .. n /\ k <= n + 1 - s.count
        BY <3>0, <3>1
    <3>3. g[k] <= g[n + 1 - s.count] /\ g[k] \in Nat /\ g[n + 1 - s.count] \in Nat
        BY <1>1, <1>3, <2>1, <3>2
    <3>4. t - g[n + 1 - s.count] >= Lockout
        BY <1>7, <2>1, <3>2
    <3>5. e[k + MaxFailed] = t
        BY <1>1, <2>2
    <3>6. PICK a \in Nat, b \in Nat : a = g[k] /\ b = g[n + 1 - s.count]
        BY <3>3
    <3>7. PICK l \in Nat : l = Lockout
        BY <1>2
    <3>8. a <= b /\ t - b >= l
        BY <3>3, <3>4, <3>6, <3>7
    <3>9. t - a >= l
        BY <3>8
    <3>10. e[k] = a
        BY <2>1, <3>6
    <3> QED
        BY <3>5, <3>7, <3>9, <3>10
  <2>3. CASE k + MaxFailed # n + 1
    <3>1. k \in 1 .. n - MaxFailed /\ k + MaxFailed \in 1 .. n
        BY <1>1, <1>2, <2>1, <2>3
    <3> QED
        BY <1>1, <1>5, <2>1, <3>1
  <2> QED
      BY <2>2, <2>3
<1> QED
    BY <1>6, <1>9, <1>10 DEF Sound, e

\* An address that has failed nothing.
LEMMA NoGuess ==
  ASSUME Limits, NEW t \in Nat
  PROVE  SI!NoFailure \in Failures /\ <<>> \in Seq(Nat) /\ Sound(SI!NoFailure, <<>>, t)
BY DEF Limits, SI!NoFailure, Failures, Sound, Ordered, Counts, Spaced

\* checkLockout lets an address in, with what is left of its failures.
LEMMA LetIn ==
  ASSUME Limits, NEW f \in Failures, now \in Nat, ~SI!CheckLockout(f).locked
  PROVE  /\ SI!CheckLockout(f).left \in Failures
         /\ \/ f.count < MaxFailed /\ SI!CheckLockout(f).left = f
            \/ f.count >= MaxFailed /\ now - f.at >= Lockout /\ SI!CheckLockout(f).left.count = 0
BY DEF Limits, SI!CheckLockout, SI!NoFailure, Failures

LEMMA FailKeeps ==
  ASSUME Limits, GInv, NEW i \in Ips, ~SI!CheckLockout(failed[i]).locked,
         SI!Fail(i, SI!CheckLockout(failed[i]).left), now' = now,
         TriesAgain'
  PROVE  GInv'
<1> DEFINE h == SI!CheckLockout(failed[i]).left
           s == SI!Counted(h)
<1>1. failed[i] \in Failures /\ guesses[i] \in Seq(Nat) /\ now \in Nat
    BY DEF GInv, GuessShape, TriesAgain
<1>2. /\ h \in Failures
      /\ \/ failed[i].count < MaxFailed /\ h = failed[i]
         \/ failed[i].count >= MaxFailed /\ now - failed[i].at >= Lockout /\ h.count = 0
    BY <1>1, LetIn
<1>3. /\ failed' = [failed EXCEPT ![i] = s]
      /\ guesses' = [guesses EXCEPT ![i] = Append(guesses[i], now)]
    BY DEF SI!Fail
<1> HIDE DEF h
<1>4. s \in Failures /\ s.count = h.count + 1 /\ (s.count >= MaxFailed => s.at = now)
    BY <1>1, <1>2 DEF SI!Counted, Failures
<1> HIDE DEF s
<1>5. Sound(failed[i], guesses[i], now)
    BY DEF GInv
<1>6. Sound(s, Append(guesses[i], now), now)
    BY <1>1, <1>2, <1>4, <1>5, OneGuess
<1>7. GuessShape'
    BY <1>1, <1>3, <1>4 DEF GInv, GuessShape, TriesAgain
<1>8. ASSUME NEW q \in Ips PROVE Sound(failed'[q], guesses'[q], now')
  <2>1. CASE q = i
      BY <1>3, <1>6, <2>1 DEF GInv, GuessShape, TriesAgain
  <2>2. CASE q # i
      BY <1>3, <2>2 DEF GInv, GuessShape, TriesAgain
  <2> QED
      BY <2>1, <2>2
<1> QED
    BY <1>7, <1>8 DEF GInv

LEMMA SucceedKeeps ==
  ASSUME Limits, GInv, NEW i \in Ips, SI!Succeed(i), now' = now,
         TriesAgain'
  PROVE  GInv'
<1>1. now \in Nat
    BY DEF GInv, GuessShape, TriesAgain
<1>2. SI!NoFailure \in Failures /\ <<>> \in Seq(Nat) /\ Sound(SI!NoFailure, <<>>, now)
    BY <1>1, NoGuess
<1>3. GuessShape'
    BY <1>2 DEF GInv, GuessShape, TriesAgain, SI!Succeed
<1>4. ASSUME NEW q \in Ips PROVE Sound(failed'[q], guesses'[q], now')
  <2>1. CASE q = i
      BY <1>2, <2>1 DEF GInv, GuessShape, TriesAgain, SI!Succeed
  <2>2. CASE q # i
      BY <2>2 DEF GInv, GuessShape, TriesAgain, SI!Succeed
  <2> QED
      BY <2>1, <2>2
<1> QED
    BY <1>3, <1>4 DEF GInv

LEMMA Untouched ==
  ASSUME GInv, failed' = failed, guesses' = guesses, now' = now,
         TriesAgain'
  PROVE  GInv'
BY DEF GInv, GuessShape, TriesAgain

---------------------------------------------------------------------------
(* The steps.                                                              *)

LEMMA InitGInv == Limits /\ SI!Init => GInv
<1> SUFFICES ASSUME Limits, SI!Init PROVE GInv
    OBVIOUS
<1>1. SI!NoFailure \in Failures /\ <<>> \in Seq(Nat) /\ Sound(SI!NoFailure, <<>>, now)
    BY NoGuess DEF SI!Init
<1> QED
    BY <1>1 DEF SI!Init, GInv, GuessShape, TriesAgain

LEMMA LoginPasswordKeeps ==
  ASSUME Limits, GInv, NEW i \in Ips, NEW word, SI!LoginPassword(i, word)
  PROVE  GInv'
<1>1. now' = now /\ ~SI!CheckLockout(failed[i]).locked
    BY DEF SI!LoginPassword
<1>2. CASE word = know /\ SI!Accept(i) /\ UNCHANGED login
    BY <1>1, <1>2, SucceedKeeps DEF SI!Accept, GInv, GuessShape, TriesAgain
<1>3. CASE /\ SI!Fail(i, SI!CheckLockout(failed[i]).left) /\ word # know
           /\ login' = [ip |-> i, word |-> word, had |-> know]
  <2>1. TriesAgain'
      BY <1>3 DEF TriesAgain
  <2> QED
      BY <1>1, <1>3, <2>1, FailKeeps
<1> QED
    BY <1>2, <1>3 DEF SI!LoginPassword

LEMMA LoginAgainKeeps ==
  ASSUME Limits, GInv, SI!LoginAgain
  PROVE  GInv'
<1>1. login.ip \in Ips /\ login' = SI!NoLogin /\ now' = now /\ TriesAgain'
    BY DEF GInv, GuessShape, TriesAgain, SI!LoginAgain
<1>2. CASE UNCHANGED <<failed, guesses>>
    BY <1>1, <1>2, Untouched
<1>3. CASE SI!Accept(login.ip)
    BY <1>1, <1>3, SucceedKeeps DEF SI!Accept
<1>4. CASE ~SI!CheckLockout(failed[login.ip]).locked
           /\ SI!Fail(login.ip, SI!CheckLockout(failed[login.ip]).left)
    BY <1>1, <1>4, FailKeeps
<1> QED
    BY <1>2, <1>3, <1>4 DEF SI!LoginAgain

LEMMA LoginCodeKeeps ==
  ASSUME Limits, GInv, NEW i \in Ips, SI!LoginCode(i)
  PROVE  GInv'
<1>1. /\ now' = now /\ login' = login /\ ~SI!CheckLockout(failed[i]).locked
      /\ SI!Succeed(i) \/ SI!Fail(i, SI!CheckLockout(failed[i]).left)
    BY DEF SI!LoginCode
<1> QED
    BY <1>1, SucceedKeeps, FailKeeps DEF GInv, GuessShape, TriesAgain

LEMMA ModeratorLoginKeeps ==
  ASSUME Limits, GInv, NEW i \in Ips, NEW l \in Links, SI!ModeratorLogin(i, l)
  PROVE  GInv'
<1>1. /\ now' = now /\ login' = login /\ ~SI!CheckLockout(failed[i]).locked
      /\ SI!Succeed(i) \/ SI!Fail(i, SI!CheckLockout(failed[i]).left)
    BY DEF SI!ModeratorLogin
<1> QED
    BY <1>1, SucceedKeeps, FailKeeps DEF GInv, GuessShape, TriesAgain

LEMMA SignInRestartKeeps ==
  ASSUME Limits, GInv, SI!Restart
  PROVE  GInv'
<1>1. now \in Nat
    BY DEF GInv, GuessShape, TriesAgain
<1>2. SI!NoFailure \in Failures /\ <<>> \in Seq(Nat) /\ Sound(SI!NoFailure, <<>>, now)
    BY <1>1, NoGuess
<1> QED
    BY <1>1, <1>2 DEF SI!Restart, GInv, GuessShape, TriesAgain

LEMMA ClockKeeps ==
  ASSUME Limits, GInv, SI!Tick
  PROVE  GInv'
<1>1. now \in Nat /\ now' = now + 1 /\ failed' = failed /\ guesses' = guesses /\ login' = login
    BY DEF GInv, GuessShape, TriesAgain, SI!Tick
<1>2. ASSUME NEW i \in Ips PROVE Ordered(guesses[i], now')
  <2>1. guesses[i] \in Seq(Nat) /\ Ordered(guesses[i], now)
      BY DEF GInv, GuessShape, TriesAgain, Sound
  <2>2. ASSUME NEW j \in 1 .. Len(guesses[i]) PROVE guesses[i][j] <= now'
      BY <1>1, <2>1 DEF Ordered
  <2> QED
      BY <2>1, <2>2 DEF Ordered
<1> QED
    BY <1>1, <1>2 DEF GInv, GuessShape, TriesAgain, Sound

LEMMA NextGInv == Limits /\ GInv /\ [SI!Next]_SI!vars => GInv'
<1> SUFFICES ASSUME Limits, GInv, [SI!Next]_SI!vars PROVE GInv'
    OBVIOUS
<1>1. ASSUME NEW i \in Ips, NEW word, SI!LoginPassword(i, word) PROVE GInv'
    BY <1>1, LoginPasswordKeeps
<1>2. ASSUME NEW i \in Ips, SI!LoginCode(i) PROVE GInv'
    BY <1>2, LoginCodeKeeps
<1>3. ASSUME NEW i \in Ips, NEW l \in Links, SI!ModeratorLogin(i, l) PROVE GInv'
    BY <1>3, ModeratorLoginKeeps
<1>4. ASSUME NEW l \in Links, SI!CreateModeratorLogin(l) PROVE GInv'
    BY <1>4, Untouched DEF SI!CreateModeratorLogin, GInv, GuessShape, TriesAgain
<1>5. ASSUME NEW here \in BOOLEAN, SI!ChangePassword(here) PROVE GInv'
    BY <1>5, Untouched DEF SI!ChangePassword, GInv, GuessShape, TriesAgain
<1>6. CASE UNCHANGED SI!vars
    BY <1>6, Untouched DEF SI!vars, GInv, GuessShape, TriesAgain
<1>7. CASE SI!LoginAgain
    BY <1>7, LoginAgainKeeps
<1>8. CASE SI!Restart
    BY <1>8, SignInRestartKeeps
<1>9. CASE SI!Tick
    BY <1>9, ClockKeeps
<1>10. \/ \E i \in Ips :
            \/ \E word \in SI!Passwords \cup {"wrong"} : SI!LoginPassword(i, word)
            \/ SI!LoginCode(i)
            \/ \E l \in Links : SI!ModeratorLogin(i, l)
       \/ \E l \in Links : SI!CreateModeratorLogin(l)
       \/ \E here \in BOOLEAN : SI!ChangePassword(here)
       \/ SI!LoginAgain \/ SI!Restart \/ SI!Tick
       \/ UNCHANGED SI!vars
    BY DEF SI!Next
<1> QED
    BY <1>1, <1>2, <1>3, <1>4, <1>5, <1>6, <1>7, <1>8, <1>9, <1>10

\* What a second try of a password comes to.
LEMMA SecondTry ==
  ASSUME GInv, faults \in Nat, [SI!Next]_SI!vars,
         login # SI!NoLogin, login' = SI!NoLogin, faults' = faults,
         login.word = current, failed[login.ip].count < MaxFailed
  PROVE  know' = current /\ failed'[login.ip].count = 0
<1>1. /\ ~SI!CheckLockout(failed[login.ip]).locked
      /\ login.ip \in Ips /\ login.word # login.had /\ DOMAIN failed = Ips
    BY DEF SI!CheckLockout, GInv, GuessShape, TriesAgain
<1>2. SI!LoginAgain
    BY DEF SI!Next, SI!vars, SI!LoginPassword, SI!LoginCode, SI!ModeratorLogin,
           SI!CreateModeratorLogin, SI!ChangePassword, SI!Restart, SI!Tick
<1>3. know' = current /\ SI!Accept(login.ip)
    BY <1>1, <1>2 DEF SI!LoginAgain, SI!Reread
<1> QED
    BY <1>1, <1>3 DEF SI!Accept, SI!Succeed, SI!NoFailure

LEMMA FaultsCount == faults \in Nat /\ [SI!Next]_SI!vars => faults' \in Nat
BY DEF SI!Next, SI!vars, SI!LoginPassword, SI!LoginCode, SI!ModeratorLogin, SI!LoginAgain,
       SI!CreateModeratorLogin, SI!ChangePassword, SI!Restart, SI!Tick

---------------------------------------------------------------------------
(* The web UI.                                                             *)

\* A part that is not at work has nothing to show.
SessionsInv == IF part = "sessions" THEN SInv ELSE dead = {}
SignInInv ==
  IF part = "signin" THEN GInv /\ faults \in Nat ELSE guesses = [i \in Ips |-> <<>>]

webVars == <<part, vars, signInVars, configVars>>

LEMMA PartsInvInitially == Limits /\ WebInit => SessionsInv /\ SignInInv
<1> SUFFICES ASSUME Limits, WebInit PROVE SessionsInv /\ SignInInv
    OBVIOUS
<1>1. SInv /\ GInv
    BY InitSInv, InitGInv DEF WebInit
<1> QED
    BY <1>1 DEF WebInit, Init, SI!Init, SessionsInv, SignInInv

LEMMA PartsInvHolds == Limits /\ SessionsInv /\ SignInInv /\ [WebNext]_webVars => SessionsInv' /\ SignInInv'
<1> SUFFICES ASSUME Limits, SessionsInv, SignInInv, [WebNext]_webVars PROVE SessionsInv' /\ SignInInv'
    OBVIOUS
<1>1. part' = part
    BY DEF WebNext, webVars
<1>2. CASE part = "sessions"
  <2>1. [Next]_vars /\ guesses' = guesses
      BY <1>2 DEF WebNext, webVars, signInVars
  <2> QED
      BY <1>1, <1>2, <2>1, NextSInv DEF SessionsInv, SignInInv
<1>3. CASE part = "signin"
  <2>1. [SI!Next]_SI!vars /\ dead' = dead
      BY <1>3 DEF WebNext, webVars, sessionVars, signInVars, vars, SI!vars
  <2> QED
    <3>1. GInv /\ faults \in Nat /\ dead = {}
        BY <1>3 DEF SessionsInv, SignInInv
    <3>2. GInv' /\ faults' \in Nat
        BY <2>1, <3>1, NextGInv, FaultsCount
    <3> QED
        BY <1>1, <1>3, <2>1, <3>1, <3>2 DEF SessionsInv, SignInInv
<1>4. CASE part \notin {"sessions", "signin"}
    BY <1>1, <1>4 DEF WebNext, webVars, sessionVars, signInVars, vars, SessionsInv, SignInInv
<1> QED
    BY <1>2, <1>3, <1>4

\* However many processes share the table, and whatever lookups, restarts and failing
\* statements come between, a session that was logged out with nothing in the way is never
\* accepted again.  (Logout, ValidateSession)
THEOREM LoggedOutForGood ==
  ASSUME MaxFailed \in Nat \ {0}, Lockout \in Nat
  PROVE  WebSpec => []StaysLoggedOut
<1>1. SessionsInv => StaysLoggedOut
    BY DEF SessionsInv, SInv, StaysLoggedOut
<1>2. Limits
    BY DEF Limits
<1> QED
    BY <1>1, <1>2, PartsInvInitially, PartsInvHolds, PTL DEF WebSpec, webVars

\* For any number of addresses, any limit and any length of the lockout, and over any time: of
\* MaxFailed + 1 wrong guesses without a success between them, the last comes a lockout after
\* the first, at the least.  (checkLockout, recordFailure)
THEOREM GuessingBounded ==
  ASSUME MaxFailed \in Nat \ {0}, Lockout \in Nat
  PROVE  WebSpec => []GuessesBounded
<1>1. SignInInv => GuessesBounded
  <2>1. GInv => GuessesBounded
      BY DEF GInv, Sound, Spaced, GuessesBounded, SI!GuessesBounded
  <2>2. guesses = [i \in Ips |-> <<>>] => GuessesBounded
    <3> SUFFICES ASSUME guesses = [i \in Ips |-> <<>>], NEW i \in Ips, NEW k \in 1 .. Len(guesses[i]) - MaxFailed
                 PROVE  FALSE
        BY DEF GuessesBounded, SI!GuessesBounded
    <3>1. Len(guesses[i]) = 0
        OBVIOUS
    <3> QED
        BY <3>1
  <2> QED
      BY <2>1, <2>2 DEF SignInInv
<1>2. Limits
    BY DEF Limits
<1> QED
    BY <1>1, <1>2, PartsInvInitially, PartsInvHolds, PTL DEF WebSpec, webVars

\* A new password that is in the table is taken over by a process that has refused it before,
\* whatever happens between the two tries, unless the read of the table fails or the address is
\* locked out by then.  (handleLogin's second try)
THEOREM NewPasswordIsTakenOver ==
  ASSUME MaxFailed \in Nat \ {0}, Lockout \in Nat
  PROVE  WebSpec => NewPasswordWorks
<1> DEFINE Works == (/\ login # SI!NoLogin /\ login' = SI!NoLogin /\ faults' = faults
                     /\ login.word = current /\ failed[login.ip].count < MaxFailed)
                       => know' = current /\ failed'[login.ip].count = 0
<1>1. SignInInv /\ [WebNext]_webVars => [Works]_SI!vars
  <2> SUFFICES ASSUME SignInInv, [WebNext]_webVars,
                      login # SI!NoLogin, login' = SI!NoLogin, faults' = faults,
                      login.word = current, failed[login.ip].count < MaxFailed
               PROVE  know' = current /\ failed'[login.ip].count = 0
      OBVIOUS
  <2>1. part = "signin" /\ [SI!Next]_SI!vars
      BY DEF WebNext, webVars, signInVars, vars, SI!vars
  <2> QED
      BY <2>1, SecondTry DEF SignInInv
<1>2. Limits
    BY DEF Limits
<1> QED
    BY <1>1, <1>2, PartsInvInitially, PartsInvHolds, PTL DEF WebSpec, webVars, NewPasswordWorks, SI!NewPasswordWorks

---------------------------------------------------------------------------
(* The configuration.  A row's way into memory and back is followed key by *)
(* key: what is loaded from the strings of a value is the same whether the *)
(* value was saved once or again after a restart.                          *)

Vals == UNION {CF!Values[k] : k \in CF!Keys}
Configs == [CF!Keys -> Vals]
RowMaps == [CF!Keys -> {{}} \cup {{v} : v \in Vals}]

\* The value in a row.
Of(s) == CHOOSE v \in s : TRUE

Hash(db, k, v) == IF k = "password" /\ db THEN CF!Hashed(v) ELSE v
Pinned(e, k, v) == IF e[k] = {} THEN v ELSE Of(e[k])
Default(k, v) ==
  IF k = "otp" /\ v = "nil" THEN "on" ELSE IF k = "hours" /\ v = 0 THEN DefaultHours ELSE v

\* What a row stands for, what is loaded from it, and what will be loaded from the strings of a
\* value.
Raw(k, s) == IF s = {} THEN CF!Zero[k] ELSE Of(s)
Loaded(e, k, s) == Default(k, Pinned(e, k, Raw(k, s)))
Final(db, e, k, v) == Default(k, Pinned(e, k, Hash(db, k, v)))

\* What is written of a configuration.
Strings(c) == IF fromDB THEN CF!ConfigToDBStringMap(c) ELSE CF!ConfigToStringMap(c)

EnvKnown == env \in {CF!NoRows, CF!Put("enabled", TRUE)}

LEMMA KeysAre == CF!Keys = {"enabled", "days", "otp", "hours", "password", "feeds"}
BY DEF CF!Keys, CF!Values

LEMMA ValuesAre ==
  /\ \A k \in CF!Keys : CF!Values[k] \subseteq Vals
  /\ \A v \in BOOLEAN : v \in Vals
  /\ \A v \in {{}, {"mon"}, {"bad"}, {"main"}, {"any"}} : v \in Vals
  /\ \A v \in {"nil", "on", "off", 0, DefaultHours, DefaultHours + 1, "", "p1", "p2", "h1", "h2"} : v \in Vals
<1>1. \A k \in CF!Keys : CF!Values[k] \subseteq Vals
    BY DEF Vals
<1>2. /\ CF!Values["enabled"] = BOOLEAN /\ CF!Values["days"] = {{}, {"mon"}, {"bad"}}
      /\ CF!Values["otp"] = {"nil", "on", "off"} /\ CF!Values["hours"] = {0, DefaultHours, DefaultHours + 1}
      /\ CF!Values["password"] = {"", "p1", "p2", "h1", "h2"} /\ CF!Values["feeds"] = {{}, {"main"}, {"any"}}
    BY DEF CF!Values
<1> QED
    BY <1>1, <1>2, KeysAre

LEMMA ZeroIs == CF!Zero \in Configs
<1>1. /\ CF!Zero.enabled = FALSE /\ CF!Zero.days = {} /\ CF!Zero.otp = "nil"
      /\ CF!Zero.hours = 0 /\ CF!Zero.password = "" /\ CF!Zero.feeds = {}
      /\ DOMAIN CF!Zero = CF!Keys /\ CF!Zero = [k \in CF!Keys |-> CF!Zero[k]]
    BY KeysAre DEF CF!Zero
<1>2. \A k \in CF!Keys : CF!Zero[k] \in Vals
    BY <1>1, KeysAre, ValuesAre
<1> QED
    BY <1>1, <1>2 DEF Configs

LEMMA OneValue == \A v : Of({v}) = v
BY DEF Of

LEMMA EnvIs ==
  ASSUME EnvKnown
  PROVE  /\ \A k \in CF!Keys : k # "enabled" => env[k] = {}
         /\ env["enabled"] = {} \/ env["enabled"] = {TRUE}
BY KeysAre DEF EnvKnown, CF!NoRows, CF!Put

LEMMA LoadIs ==
  \A kv : /\ DOMAIN CF!Load(kv) = CF!Keys /\ CF!Load(kv) = [k \in CF!Keys |-> CF!Load(kv)[k]]
          /\ \A k \in CF!Keys : CF!Load(kv)[k] = Loaded(env, k, kv[k])
<1> SUFFICES ASSUME NEW kv
             PROVE  /\ DOMAIN CF!Load(kv) = CF!Keys /\ CF!Load(kv) = [k \in CF!Keys |-> CF!Load(kv)[k]]
                    /\ \A k \in CF!Keys : CF!Load(kv)[k] = Loaded(env, k, kv[k])
    OBVIOUS
<1> DEFINE c == CF!Over(CF!Zero, kv)
           d == CF!Over(c, env)
<1>1. DOMAIN c = CF!Keys /\ \A k \in CF!Keys : c[k] = Raw(k, kv[k])
    BY DEF CF!Over, Raw, Of
<1>2. DOMAIN d = CF!Keys /\ \A k \in CF!Keys : d[k] = Pinned(env, k, c[k])
    BY DEF CF!Over, Pinned, Of
<1>3. CF!Load(kv) = CF!SetDefaults(d)
    BY DEF CF!Load, CF!ApplyEnvOverrides, CF!ApplyStringMap
<1>5. CF!Load(kv) = [k \in CF!Keys |-> CF!Load(kv)[k]]
    BY <1>3 DEF CF!SetDefaults, CF!Over
<1> HIDE DEF c, d
<1>4. DOMAIN CF!SetDefaults(d) = CF!Keys /\ \A k \in CF!Keys : CF!SetDefaults(d)[k] = Default(k, d[k])
    BY <1>2, KeysAre DEF CF!SetDefaults, Default
<1> QED
    BY <1>1, <1>2, <1>3, <1>4, <1>5 DEF Loaded

LEMMA HashStays == \A v \in Vals : CF!Hashed(v) \in Vals /\ CF!Hashed(CF!Hashed(v)) = CF!Hashed(v)
BY ValuesAre DEF CF!Hashed

LEMMA StringsAre ==
  ASSUME NEW c \in Configs, EnvKnown
  PROVE  /\ Strings(c) \in RowMaps
         /\ \A k \in CF!Keys : Loaded(env, k, Strings(c)[k]) = Final(fromDB, env, k, c[k])
         /\ Strings(c)["enabled"] = {c["enabled"]}
         /\ Strings(c)["password"] = {Hash(fromDB, "password", c["password"])}
<1> DEFINE d == IF fromDB THEN [c EXCEPT !.password = CF!Hashed(@)] ELSE c
<1>1. d \in Configs /\ \A k \in CF!Keys : d[k] = Hash(fromDB, k, c[k])
    BY KeysAre, HashStays DEF Configs, Hash
<1>2. Strings(c) = [k \in CF!Keys |-> IF k \in CF!BlankKeys /\ d[k] = CF!Zero[k] THEN {} ELSE {d[k]}]
    BY DEF Strings, CF!ConfigToDBStringMap, CF!ConfigToStringMap
<1> HIDE DEF d
<1>3. Strings(c) \in RowMaps
    BY <1>1, <1>2 DEF RowMaps, Configs
<1>4. ASSUME NEW k \in CF!Keys PROVE Raw(k, Strings(c)[k]) = d[k]
    BY <1>2, OneValue DEF Raw
<1>5. \A k \in CF!Keys : Loaded(env, k, Strings(c)[k]) = Final(fromDB, env, k, c[k])
    BY <1>1, <1>4 DEF Loaded, Final
<1>6. "enabled" \in CF!Keys /\ "password" \in CF!Keys /\ "enabled" \notin CF!BlankKeys /\ "password" \notin CF!BlankKeys
    BY KeysAre DEF CF!BlankKeys
<1>7. Hash(fromDB, "enabled", c["enabled"]) = c["enabled"]
    BY DEF Hash
<1> QED
    BY <1>1, <1>2, <1>3, <1>5, <1>6, <1>7

\* Loading and saving once more changes nothing.
LEMMA FinalStays ==
  ASSUME EnvKnown, NEW k \in CF!Keys, NEW a, NEW s \in {{}} \cup {{v} : v \in Vals}, Loaded(env, k, s) = Final(fromDB, env, k, a),
         a \in Vals
  PROVE  /\ Final(fromDB, env, k, Final(fromDB, env, k, a)) = Final(fromDB, env, k, a)
         /\ Hash(fromDB, k, Loaded(env, k, s)) = Final(fromDB, env, k, a)
         /\ Final(fromDB, env, k, Raw(k, s)) = Final(fromDB, env, k, a)
<1>1. CASE k = "enabled"
    BY <1>1 DEF Loaded, Final, Hash, Default, Pinned
<1>2. CASE k \in {"days", "otp", "hours", "feeds"}
    BY <1>2, EnvIs DEF Loaded, Final, Hash, Default, Pinned
<1>3. CASE k = "password"
  <2>1. \A v : Pinned(env, k, v) = v /\ Default(k, v) = v
      BY <1>3, EnvIs DEF Default, Pinned
  <2>2. \A v \in Vals : Hash(fromDB, k, Hash(fromDB, k, v)) = Hash(fromDB, k, v)
      BY HashStays DEF Hash
  <2> QED
      BY <2>1, <2>2 DEF Loaded, Final
<1> QED
    BY <1>1, <1>2, <1>3, KeysAre

\* What the start of a process leaves in the table.
LEMMA AtStart ==
  ASSUME EnvKnown, stored \in RowMaps
  PROVE  /\ CF!StoredAtStart \in RowMaps
         /\ \A k \in CF!Keys : Loaded(env, k, CF!StoredAtStart[k]) = Hash(fromDB, k, Loaded(env, k, stored[k]))
         /\ fromDB /\ stored = CF!NoRows => CF!StoredAtStart["enabled"] # {}
         /\ ~(fromDB /\ stored = CF!NoRows) => \A k \in CF!Keys \ {"password"} : CF!StoredAtStart[k] = stored[k]
<1>1. CASE ~fromDB
    BY <1>1 DEF CF!StoredAtStart, Hash
<1>2. CASE fromDB /\ stored = CF!NoRows
  <2> DEFINE d == CF!Load(CF!NoRows)
  <2>1. d = CF!SetDefaults(CF!ApplyEnvOverrides(CF!Zero)) /\ CF!StoredAtStart = Strings(d)
    <3>1. CF!Over(CF!Zero, CF!NoRows) = CF!Zero
        BY KeysAre DEF CF!Over, CF!NoRows, CF!Zero
    <3> QED
        BY <1>2, <3>1 DEF CF!Load, CF!ApplyStringMap, CF!StoredAtStart, Strings
  <2>2. \A k \in CF!Keys : d[k] = Loaded(env, k, stored[k])
      BY <1>2, LoadIs
  <2>3. d \in Configs
    <3>1. \A k \in CF!Keys : Raw(k, stored[k]) = CF!Zero[k] /\ CF!Zero[k] \in Vals
        BY <1>2, ZeroIs DEF Raw, CF!NoRows, Configs
    <3>2. \A k \in CF!Keys : \A v \in Vals : Default(k, Pinned(env, k, v)) \in Vals
        BY ValuesAre, EnvIs, OneValue DEF Default, Pinned
    <3>3. DOMAIN d = CF!Keys /\ d = [k \in CF!Keys |-> d[k]]
        BY LoadIs
    <3> QED
        BY <2>2, <3>1, <3>2, <3>3 DEF Configs, Loaded
  <2> HIDE DEF d
  <2>4. \A k \in CF!Keys : Loaded(env, k, CF!StoredAtStart[k]) = Final(fromDB, env, k, d[k])
      BY <2>1, <2>3, StringsAre
  <2>5. ASSUME NEW k \in CF!Keys PROVE Final(fromDB, env, k, d[k]) = Hash(fromDB, k, Loaded(env, k, stored[k]))
    <3>1. CASE k \in {"otp", "hours", "days", "feeds", "enabled"}
        BY <2>2, <3>1, EnvIs DEF Final, Loaded, Hash, Default, Pinned
    <3>2. CASE k = "password"
        BY <2>2, <3>2, EnvIs DEF Final, Loaded, Hash, Default, Pinned
    <3> QED
        BY <3>1, <3>2, KeysAre
  <2> QED
      BY <1>2, <2>1, <2>3, <2>4, <2>5, StringsAre
<1>3. CASE fromDB /\ stored # CF!NoRows
  <2>1. CF!StoredAtStart = [stored EXCEPT !.password = {CF!Hashed(v) : v \in @}]
      BY <1>3 DEF CF!StoredAtStart
  <2>2. \A k \in CF!Keys \ {"password"} : CF!StoredAtStart[k] = stored[k]
      BY <2>1 DEF RowMaps
  <2>3. CF!StoredAtStart["password"] = {CF!Hashed(v) : v \in stored["password"]}
      BY <2>1, KeysAre DEF RowMaps
  <2>4. stored["password"] = {} \/ \E v \in Vals : stored["password"] = {v}
      BY KeysAre DEF RowMaps
  <2>5. \/ stored["password"] = {} /\ CF!StoredAtStart["password"] = {}
        \/ \E v \in Vals : stored["password"] = {v} /\ CF!StoredAtStart["password"] = {CF!Hashed(v)}
      BY <2>3, <2>4
  <2>6. CF!StoredAtStart \in RowMaps
      BY <2>1, <2>5, HashStays DEF RowMaps
  <2>7. Loaded(env, "password", CF!StoredAtStart["password"]) = Hash(fromDB, "password", Loaded(env, "password", stored["password"]))
    <3>1. \A v : Default("password", Pinned(env, "password", v)) = v
        BY KeysAre, EnvIs DEF Default, Pinned
    <3>2. CF!Hashed(CF!Zero["password"]) = CF!Zero["password"]
        BY DEF CF!Hashed, CF!Zero
    <3>3. CF!Keys # {} /\ \A v : Hash(fromDB, "password", v) = CF!Hashed(v)
        BY <1>3, KeysAre DEF Hash
    <3>4. Raw("password", CF!StoredAtStart["password"]) = CF!Hashed(Raw("password", stored["password"]))
        BY <2>5, <3>2, OneValue DEF Raw
    <3> QED
        BY <3>1, <3>3, <3>4 DEF Loaded
  <2>8. \A k \in CF!Keys \ {"password"} : Loaded(env, k, CF!StoredAtStart[k]) = Hash(fromDB, k, Loaded(env, k, stored[k]))
      BY <2>2 DEF Hash
  <2> QED
      BY <1>3, <2>2, <2>6, <2>7, <2>8
<1> QED
    BY <1>1, <1>2, <1>3

---------------------------------------------------------------------------
(* Configuration: the inductive invariant.                                 *)

Writing == {"write", "fill", "back"}
Jobs == [pc : {"idle", "collect"} \cup Writing, kv : RowMaps, put : RowMaps,
         rough : BOOLEAN, alone : BOOLEAN]

ConfigShape ==
  /\ EnvKnown
  /\ mem \in [ConfigProcs -> Configs]
  /\ stored \in RowMaps /\ acked \in RowMaps
  /\ home \in [Handlers -> ConfigProcs]
  /\ up \in [ConfigProcs -> BOOLEAN] /\ rough \in [ConfigProcs -> BOOLEAN]
  /\ job \in [Handlers -> Jobs]
  /\ \A h \in Handlers : job[h].pc # "idle" => up[home[h]]
  /\ \A h \in Handlers : job[h].pc \in Writing => job[h].kv["password"] # {}

Filling == \E h \in Handlers : job[h].pc = "fill"

\* Memory that can be saved, and rows that can be started from.
Fit(e, c) == CF!Validate(c) /\ (e["enabled"] # {} => c["enabled"] = Of(e["enabled"]))
Starting(e, kv) == CF!Validate([k \in CF!Keys |-> Loaded(e, k, kv[k])])
Kept(e, kv) == Starting(e, kv) /\ kv["enabled"] # {}

\* What is not known to be rough can be started from, wherever it is.
Starts ==
  /\ \A p \in ConfigProcs : up[p] /\ ~rough[p] => Fit(env, mem[p])
  /\ \A h \in Handlers : job[h].pc \in {"write", "fill"} /\ ~job[h].rough => Kept(env, job[h].kv)
  /\ roughRow \/ torn \/ Filling \/ (Starting(env, stored) /\ (fromDB \/ stored["enabled"] # {}))

InMemory(h, k, v) == Final(fromDB, env, k, mem[home[h]][k]) = Final(fromDB, env, k, v)
InStrings(h, k, v) == job[h].pc \in Writing => Loaded(env, k, job[h].kv[k]) = Final(fromDB, env, k, v)
InRow(k, v) == Loaded(env, k, stored[k]) = Final(fromDB, env, k, v)

OneHome == \A g, h \in Handlers : home[g] = home[h]

\* What was reported as saved is in memory, in the strings on their way and in the table.
Acked(k) ==
  acked[k] # {} =>
    /\ Filling \/ InRow(k, Of(acked[k]))
    /\ \A h \in Handlers : (up[home[h]] => InMemory(h, k, Of(acked[k]))) /\ InStrings(h, k, Of(acked[k]))
\* So is what a request that nothing has disturbed is about to report.
ToAck(h, k) ==
  job[h].pc # "idle" /\ job[h].alone /\ job[h].put[k] # {} =>
    /\ InMemory(h, k, Of(job[h].put[k])) /\ InStrings(h, k, Of(job[h].put[k]))
    /\ job[h].pc = "back" => InRow(k, Of(job[h].put[k]))

Alone == \A g, h \in Handlers : job[h].pc # "idle" /\ job[h].alone /\ job[g].pc # "idle" => g = h

Survives ==
  /\ Alone
  /\ OneHome /\ ~torn => \A k \in CF!Keys : Acked(k) /\ \A h \in Handlers : ToAck(h, k)

ConfigInv == ConfigShape /\ Starts /\ Survives

LEMMA NoRowsAre ==
  /\ CF!NoRows \in RowMaps /\ \A k \in CF!Keys : CF!NoRows[k] = {}
  /\ CF!NoJob \in Jobs /\ CF!NoJob.pc = "idle" /\ CF!NoJob.put = CF!NoRows
<1>1. CF!NoRows \in RowMaps /\ \A k \in CF!Keys : CF!NoRows[k] = {}
    BY DEF CF!NoRows, RowMaps
<1> QED
    BY <1>1 DEF CF!NoJob, Jobs

\* A request begins, and disturbs the others.
LEMMA BeginIs ==
  ASSUME job \in [Handlers -> Jobs], acked \in RowMaps, NEW h \in Handlers, NEW put \in RowMaps, CF!Begin(h, put)
  PROVE  /\ job' \in [Handlers -> Jobs] /\ acked' \in RowMaps
         /\ job'[h].pc = "collect" /\ job'[h].put = put
         /\ job'[h].alone => \A g \in Handlers : job[g].pc = "idle"
         /\ \A g \in Handlers : g # h => /\ job'[g].pc = job[g].pc /\ job'[g].kv = job[g].kv
                                         /\ job'[g].rough = job[g].rough
                                         /\ job'[g].pc # "idle" => ~job'[g].alone
         /\ \A k \in CF!Keys : acked'[k] = IF put[k] # {} THEN {} ELSE acked[k]
<1> DEFINE new == [CF!NoJob EXCEPT !.pc = "collect", !.put = put, !.alone = CF!InFlight = {}]
<1>1. CF!Disturbed \in [Handlers -> Jobs]
    BY DEF CF!Disturbed, Jobs
<1>2. \A g \in Handlers : /\ CF!Disturbed[g].pc = job[g].pc /\ CF!Disturbed[g].kv = job[g].kv
                          /\ CF!Disturbed[g].rough = job[g].rough
                          /\ job[g].pc # "idle" => ~CF!Disturbed[g].alone
    BY DEF CF!Disturbed, CF!InFlight, Jobs
<1>3. job' = [CF!Disturbed EXCEPT ![h] = new]
    BY DEF CF!Begin
<1>4. PICK alone \in BOOLEAN : alone <=> CF!InFlight = {}
    OBVIOUS
<1>5. new = [CF!NoJob EXCEPT !.pc = "collect", !.put = put, !.alone = alone]
    BY <1>4
<1>6. new \in Jobs /\ new.pc = "collect" /\ new.put = put /\ new.alone = alone
    BY <1>4, <1>5, NoRowsAre DEF Jobs
<1> HIDE DEF new
<1>7. job' \in [Handlers -> Jobs] /\ job'[h] = new /\ \A g \in Handlers : g # h => job'[g] = CF!Disturbed[g]
    BY <1>1, <1>3, <1>6
<1>8. acked' \in RowMaps /\ \A k \in CF!Keys : acked'[k] = IF put[k] # {} THEN {} ELSE acked[k]
    BY DEF CF!Begin, RowMaps
<1>9. new.alone => \A g \in Handlers : job[g].pc = "idle"
    BY <1>4, <1>6 DEF CF!InFlight
<1> QED
    BY <1>2, <1>6, <1>7, <1>8, <1>9

\* A request that changes memory and sets out to save it.
Requested(h, put, c) ==
  /\ up[home[h]] /\ job[h].pc = "idle"
  /\ CF!Begin(h, put)
  /\ mem' = [mem EXCEPT ![home[h]] = c]
  /\ \A k \in CF!Keys : c[k] = IF put[k] = {} THEN mem[home[h]][k] ELSE Of(put[k])
  /\ rough' \in [ConfigProcs -> BOOLEAN]
  /\ \A q \in ConfigProcs : q # home[h] => rough'[q] = rough[q]
  /\ ~rough'[home[h]] => Fit(env, c)
  /\ UNCHANGED <<fromDB, env, home, up, stored, roughRow, torn>>

LEMMA RequestKeeps ==
  ASSUME ConfigInv, NEW h \in Handlers, NEW put \in RowMaps, NEW c \in Configs, Requested(h, put, c)
  PROVE  ConfigInv'
<1>0. /\ CF!Begin(h, put) /\ up[home[h]] /\ job[h].pc = "idle" /\ mem' = [mem EXCEPT ![home[h]] = c]
      /\ \A k \in CF!Keys : c[k] = IF put[k] = {} THEN mem[home[h]][k] ELSE Of(put[k])
      /\ rough' \in [ConfigProcs -> BOOLEAN]
      /\ \A q \in ConfigProcs : q # home[h] => rough'[q] = rough[q]
      /\ ~rough'[home[h]] => Fit(env, c)
      /\ UNCHANGED <<fromDB, env, home, up, stored, roughRow, torn>>
    BY DEF Requested
<1>1. /\ job' \in [Handlers -> Jobs] /\ acked' \in RowMaps
      /\ job'[h].pc = "collect" /\ job'[h].put = put
      /\ job'[h].alone => \A g \in Handlers : job[g].pc = "idle"
      /\ \A g \in Handlers : g # h => /\ job'[g].pc = job[g].pc /\ job'[g].kv = job[g].kv
                                      /\ job'[g].rough = job[g].rough
                                      /\ job'[g].pc # "idle" => ~job'[g].alone
      /\ \A k \in CF!Keys : acked'[k] = IF put[k] # {} THEN {} ELSE acked[k]
    BY <1>0, BeginIs DEF ConfigInv, ConfigShape
<1>2. home[h] \in ConfigProcs /\ mem' \in [ConfigProcs -> Configs] /\ mem'[home[h]] = c
      /\ \A q \in ConfigProcs : q # home[h] => mem'[q] = mem[q]
    BY <1>0 DEF ConfigInv, ConfigShape
<1>3. ConfigShape'
  <2>1. EnvKnown'
      BY <1>0 DEF ConfigInv, ConfigShape, EnvKnown, CF!NoRows, CF!Put
  <2>2. \A g \in Handlers : job'[g].pc # "idle" => up'[home'[g]]
      BY <1>0, <1>1 DEF ConfigInv, ConfigShape
  <2>3. \A g \in Handlers : job'[g].pc \in Writing => job'[g].kv["password"] # {}
      BY <1>0, <1>1 DEF ConfigInv, ConfigShape, Writing
  <2> QED
      BY <1>0, <1>1, <1>2, <2>1, <2>2, <2>3 DEF ConfigInv, ConfigShape
<1>4. Starts'
  <2>1. \A p \in ConfigProcs : up'[p] /\ ~rough'[p] => Fit(env, mem'[p])
      BY <1>0, <1>2 DEF ConfigInv, Starts
  <2>2. \A g \in Handlers : job'[g].pc \in {"write", "fill"} /\ ~job'[g].rough => Kept(env, job'[g].kv)
      BY <1>0, <1>1 DEF ConfigInv, Starts
  <2>3. Filling' <=> Filling
      BY <1>0, <1>1 DEF Filling
  <2> QED
      BY <1>0, <2>1, <2>2, <2>3 DEF ConfigInv, Starts
<1>5. Survives'
  <2>1. Alone'
      BY <1>0, <1>1 DEF Alone
  <2>2. SUFFICES ASSUME OneHome, ~torn, NEW k \in CF!Keys PROVE Acked(k)' /\ \A g \in Handlers : ToAck(g, k)'
      BY <1>0, <2>1 DEF Survives, OneHome
  <2>3. Acked(k)
      BY <1>0, <2>2 DEF ConfigInv, Survives
  <2>4. \A g \in Handlers : home[g] = home[h]
      BY <1>0, <2>2 DEF OneHome
  <2>5. Acked(k)'
    <3> SUFFICES ASSUME acked'[k] # {} PROVE Acked(k)'
        BY <1>0 DEF Acked
    <3>1. acked'[k] = acked[k] /\ put[k] = {} /\ c[k] = mem[home[h]][k]
        BY <1>0, <1>1
    <3>2. Filling' <=> Filling
        BY <1>0, <1>1 DEF Filling
    <3>3. \A g \in Handlers : InStrings(g, k, Of(acked[k])) => InStrings(g, k, Of(acked[k]))'
        BY <1>0, <1>1, <3>1 DEF InStrings, Writing
    <3>4. \A g \in Handlers : InMemory(g, k, Of(acked[k])) => InMemory(g, k, Of(acked[k]))'
        BY <1>0, <1>2, <2>4, <3>1 DEF InMemory
    <3> QED
        BY <1>0, <2>3, <3>1, <3>2, <3>3, <3>4 DEF Acked, InRow
  <2>6. ASSUME NEW g \in Handlers PROVE ToAck(g, k)'
    <3>1. CASE g = h
        BY <1>0, <1>1, <1>2, <3>1 DEF ToAck, InMemory, InStrings, Writing
    <3>2. CASE g # h
        BY <1>0, <1>1, <3>2 DEF ToAck
    <3> QED
        BY <1>0, <3>1, <3>2
  <2> QED
      BY <1>0, <2>5, <2>6
<1> QED
    BY <1>0, <1>3, <1>4, <1>5 DEF ConfigInv

LEMMA OverIs ==
  ASSUME NEW c \in Configs, NEW kv \in RowMaps
  PROVE  /\ CF!Over(c, kv) \in Configs
         /\ \A k \in CF!Keys : CF!Over(c, kv)[k] = IF kv[k] = {} THEN c[k] ELSE Of(kv[k])
<1>1. \A k \in CF!Keys : CF!Over(c, kv)[k] = IF kv[k] = {} THEN c[k] ELSE Of(kv[k])
    BY DEF CF!Over, Of
<1>2. \A k \in CF!Keys : kv[k] = {} \/ \E v \in Vals : kv[k] = {v}
    BY DEF RowMaps
<1>3. \A k \in CF!Keys : CF!Over(c, kv)[k] \in Vals
    BY <1>1, <1>2, OneValue DEF Configs
<1>4. CF!Over(c, kv) = [k \in CF!Keys |-> CF!Over(c, kv)[k]]
    BY DEF CF!Over
<1> QED
    BY <1>1, <1>3, <1>4 DEF Configs

LEMMA DisturbedIs ==
  ASSUME job \in [Handlers -> Jobs]
  PROVE  /\ CF!Disturbed \in [Handlers -> Jobs]
         /\ \A g \in Handlers : /\ CF!Disturbed[g].pc = job[g].pc /\ CF!Disturbed[g].kv = job[g].kv
                                /\ CF!Disturbed[g].rough = job[g].rough
                                /\ job[g].pc # "idle" => ~CF!Disturbed[g].alone
BY DEF CF!Disturbed, CF!InFlight, Jobs

\* A form that is refused: what it has left behind in memory is rough, and asks nothing.
LEMMA RefusedKeeps ==
  ASSUME ConfigInv, NEW h \in Handlers, NEW c \in Configs, mem' = [mem EXCEPT ![home[h]] = c],
         rough' = [rough EXCEPT ![home[h]] = @ \/ mem'[home[h]] # mem[home[h]]],
         acked' = [k \in CF!Keys |-> IF mem'[home[h]][k] # mem[home[h]][k] THEN {} ELSE acked[k]],
         job' = IF mem' = mem THEN job ELSE CF!Disturbed,
         UNCHANGED <<fromDB, env, home, up, stored, roughRow, torn>>
  PROVE  ConfigInv'
<1>1. /\ job' \in [Handlers -> Jobs]
      /\ \A g \in Handlers : job'[g].pc = job[g].pc /\ job'[g].kv = job[g].kv /\ job'[g].rough = job[g].rough
      /\ mem' = mem \/ \A g \in Handlers : job[g].pc # "idle" => ~job'[g].alone
    BY DisturbedIs DEF ConfigInv, ConfigShape
<1>2. home[h] \in ConfigProcs /\ mem' \in [ConfigProcs -> Configs] /\ mem'[home[h]] = c
      /\ \A q \in ConfigProcs : q # home[h] => mem'[q] = mem[q]
    BY DEF ConfigInv, ConfigShape
<1>3. acked' \in RowMaps /\ \A k \in CF!Keys : acked'[k] # {} => acked'[k] = acked[k] /\ c[k] = mem[home[h]][k]
    BY <1>2 DEF ConfigInv, ConfigShape, RowMaps
<1>4. /\ rough' \in [ConfigProcs -> BOOLEAN] /\ \A q \in ConfigProcs : q # home[h] => rough'[q] = rough[q]
      /\ ~rough'[home[h]] => ~rough[home[h]] /\ c = mem[home[h]]
    BY <1>2 DEF ConfigInv, ConfigShape
<1>5. ConfigShape'
  <2>1. \A g \in Handlers : job'[g].pc # "idle" => up'[home'[g]]
      BY <1>1 DEF ConfigInv, ConfigShape
  <2>2. \A g \in Handlers : job'[g].pc \in Writing => job'[g].kv["password"] # {}
      BY <1>1 DEF ConfigInv, ConfigShape, Writing
  <2>3. EnvKnown'
      BY DEF ConfigInv, ConfigShape, EnvKnown, CF!NoRows, CF!Put
  <2> QED
      BY <1>1, <1>2, <1>3, <1>4, <2>1, <2>2, <2>3 DEF ConfigInv, ConfigShape
<1>6. Starts'
  <2>1. \A p \in ConfigProcs : up'[p] /\ ~rough'[p] => Fit(env, mem'[p])
      BY <1>2, <1>4 DEF ConfigInv, Starts
  <2>2. \A g \in Handlers : job'[g].pc \in {"write", "fill"} /\ ~job'[g].rough => Kept(env, job'[g].kv)
      BY <1>1 DEF ConfigInv, Starts
  <2>3. Filling' <=> Filling
      BY <1>1 DEF Filling
  <2> QED
      BY <2>1, <2>2, <2>3 DEF ConfigInv, Starts
<1>7. Survives'
  <2>1. CASE mem' = mem
    <3>1. job' = job /\ \A k \in CF!Keys : acked'[k] = acked[k]
        BY <1>3, <2>1 DEF ConfigInv, ConfigShape, RowMaps
    <3> QED
        BY <2>1, <3>1 DEF ConfigInv, Survives, Alone, OneHome, Acked, ToAck, InMemory, InStrings, InRow, Filling
  <2>2. CASE mem' # mem
    <3>1. \A g \in Handlers : job'[g].pc # "idle" => ~job'[g].alone
        BY <1>1, <2>2
    <3>2. SUFFICES ASSUME OneHome, ~torn, NEW k \in CF!Keys, acked'[k] # {} PROVE Acked(k)'
        BY <3>1 DEF Survives, OneHome, Alone, Acked, ToAck
    <3>3. Acked(k) /\ acked'[k] = acked[k] /\ \A g \in Handlers : home[g] = home[h]
        BY <1>3, <3>2 DEF ConfigInv, Survives, OneHome
    <3>4. Filling' <=> Filling
        BY <1>1 DEF Filling
    <3>5. \A g \in Handlers : InStrings(g, k, Of(acked[k])) => InStrings(g, k, Of(acked[k]))'
        BY <1>1, <3>3 DEF InStrings, Writing
    <3>6. \A g \in Handlers : InMemory(g, k, Of(acked[k])) => InMemory(g, k, Of(acked[k]))'
        BY <1>2, <1>3, <3>2, <3>3 DEF InMemory
    <3> QED
        BY <3>2, <3>3, <3>4, <3>5, <3>6 DEF Acked, InRow
  <2> QED
      BY <2>1, <2>2
<1> QED
    BY <1>5, <1>6, <1>7 DEF ConfigInv

\* An uploaded configuration is on its way, and nothing counts as saved.
LEMMA UploadKeeps ==
  ASSUME ConfigInv, NEW h \in Handlers, up[home[h]], job[h].pc = "idle", NEW kv \in RowMaps, NEW put \in RowMaps,
         kv["password"] # {},
         job' = [CF!Disturbed EXCEPT ![h] =
                   [CF!NoJob EXCEPT !.pc = "write", !.rough = TRUE, !.alone = FALSE, !.put = put, !.kv = kv]],
         acked' = CF!NoRows,
         UNCHANGED <<fromDB, env, home, up, mem, stored, rough, roughRow, torn>>
  PROVE  ConfigInv'
<1> DEFINE new == [CF!NoJob EXCEPT !.pc = "write", !.rough = TRUE, !.alone = FALSE, !.put = put, !.kv = kv]
<1>1. new \in Jobs /\ new.pc = "write" /\ new.rough = TRUE /\ new.alone = FALSE /\ new.kv = kv
    BY NoRowsAre DEF Jobs, Writing
<1> HIDE DEF new
<1>2. /\ job' \in [Handlers -> Jobs] /\ job'[h] = new
      /\ \A g \in Handlers : g # h => job'[g].pc = job[g].pc /\ job'[g].kv = job[g].kv /\ job'[g].rough = job[g].rough
      /\ \A g \in Handlers : job'[g].pc # "idle" => ~job'[g].alone
    BY <1>1, DisturbedIs DEF new, ConfigInv, ConfigShape
<1>3. ConfigShape'
  <2>1. \A g \in Handlers : job'[g].pc # "idle" => up'[home'[g]]
      BY <1>2 DEF ConfigInv, ConfigShape
  <2>2. \A g \in Handlers : job'[g].pc \in Writing => job'[g].kv["password"] # {}
      BY <1>1, <1>2 DEF ConfigInv, ConfigShape, Writing
  <2>3. EnvKnown'
      BY DEF ConfigInv, ConfigShape, EnvKnown, CF!NoRows, CF!Put
  <2> QED
      BY <1>2, <2>1, <2>2, <2>3, NoRowsAre DEF ConfigInv, ConfigShape, CF!NoRows
<1>4. Starts'
  <2>1. \A g \in Handlers : job'[g].pc \in {"write", "fill"} /\ ~job'[g].rough => Kept(env, job'[g].kv)
      BY <1>1, <1>2 DEF ConfigInv, Starts
  <2>2. Filling' <=> Filling
      BY <1>1, <1>2 DEF Filling
  <2> QED
      BY <2>1, <2>2 DEF ConfigInv, Starts
<1>5. \A k \in CF!Keys : acked'[k] = {}
    BY NoRowsAre
<1>6. Survives'
    BY <1>2, <1>5 DEF Survives, OneHome, Alone, Acked, ToAck
<1> QED
    BY <1>3, <1>4, <1>6 DEF ConfigInv

\* persistConfig takes the strings of what is in memory.
LEMMA CollectKeeps ==
  ASSUME ConfigInv, NEW h \in Handlers, CF!Collect(h)
  PROVE  ConfigInv'
<1> DEFINE c == mem[home[h]]
<1>1. /\ job[h].pc = "collect" /\ UNCHANGED <<fromDB, env, home, up, mem, stored, rough, roughRow, torn, acked>>
      /\ job' = [job EXCEPT ![h].pc = "write", ![h].rough = rough[home[h]], ![h].kv = Strings(c)]
    BY DEF CF!Collect, Strings
<1>2. /\ home[h] \in ConfigProcs /\ c \in Configs /\ EnvKnown /\ rough[home[h]] \in BOOLEAN /\ up[home[h]]
      /\ job \in [Handlers -> Jobs]
    BY <1>1 DEF ConfigInv, ConfigShape
<1>3. /\ Strings(c) \in RowMaps
      /\ \A k \in CF!Keys : Loaded(env, k, Strings(c)[k]) = Final(fromDB, env, k, c[k])
      /\ Strings(c)["enabled"] = {c["enabled"]}
      /\ Strings(c)["password"] = {Hash(fromDB, "password", c["password"])}
    BY <1>2, StringsAre
<1>4. PICK kv \in RowMaps : kv = Strings(c)
    BY <1>3
<1>5. /\ job' \in [Handlers -> Jobs] /\ job'[h].pc = "write" /\ job'[h].rough = rough[home[h]]
      /\ job'[h].kv = kv /\ job'[h].put = job[h].put /\ job'[h].alone = job[h].alone
      /\ \A g \in Handlers : g # h => job'[g] = job[g]
    BY <1>1, <1>2, <1>4 DEF Jobs, Writing
<1>6. ConfigShape'
  <2>1. \A g \in Handlers : job'[g].pc # "idle" => up'[home'[g]]
      BY <1>1, <1>2, <1>5 DEF ConfigInv, ConfigShape
  <2>2. \A g \in Handlers : job'[g].pc \in Writing => job'[g].kv["password"] # {}
      BY <1>3, <1>4, <1>5 DEF ConfigInv, ConfigShape
  <2>3. EnvKnown'
      BY <1>1, <1>2 DEF EnvKnown, CF!NoRows, CF!Put
  <2> QED
      BY <1>1, <1>5, <2>1, <2>2, <2>3 DEF ConfigInv, ConfigShape
<1>7. Starts'
  <2>1. ~rough[home[h]] => Kept(env, kv)
    <3> SUFFICES ASSUME ~rough[home[h]] PROVE Kept(env, kv)
        OBVIOUS
    <3>1. Fit(env, c)
        BY <1>2 DEF ConfigInv, Starts
    <3>2. c["enabled"] = Loaded(env, "enabled", kv["enabled"]) /\ c["days"] = Loaded(env, "days", kv["days"])
          /\ c["feeds"] = Loaded(env, "feeds", kv["feeds"])
        BY <1>2, <1>3, <1>4, <3>1, EnvIs, KeysAre DEF Final, Hash, Pinned, Default, Fit
    <3>3. kv["enabled"] # {}
        BY <1>3, <1>4
    <3> QED
        BY <3>1, <3>2, <3>3, KeysAre
        DEF Fit, Kept, Starting, CF!Validate, CF!ValidateNightMode, CF!ValidatePostToDestinations
  <2>2. \A g \in Handlers : job'[g].pc \in {"write", "fill"} /\ ~job'[g].rough => Kept(env, job'[g].kv)
      BY <1>5, <2>1 DEF ConfigInv, Starts
  <2>3. Filling' <=> Filling
      BY <1>1, <1>5 DEF Filling
  <2> QED
      BY <1>1, <2>2, <2>3 DEF ConfigInv, Starts
<1>8. Survives'
  <2>1. Alone'
      BY <1>1, <1>5 DEF ConfigInv, Survives, Alone
  <2>2. SUFFICES ASSUME OneHome, ~torn, NEW k \in CF!Keys PROVE Acked(k)' /\ \A g \in Handlers : ToAck(g, k)'
      BY <1>1, <2>1 DEF Survives, OneHome
  <2>3. Acked(k) /\ ToAck(h, k) /\ \A g \in Handlers : ToAck(g, k)
      BY <2>2 DEF ConfigInv, Survives
  <2>4. Filling' <=> Filling
      BY <1>1, <1>5 DEF Filling
  <2>5. \A v : InMemory(h, k, v) => Loaded(env, k, kv[k]) = Final(fromDB, env, k, v)
      BY <1>3, <1>4 DEF InMemory
  <2>6. Acked(k)'
    <3> SUFFICES ASSUME acked[k] # {} PROVE Acked(k)'
        BY <1>1 DEF Acked
    <3>1. Loaded(env, k, kv[k]) = Final(fromDB, env, k, Of(acked[k]))
        BY <1>2, <2>3, <2>5 DEF Acked
    <3> QED
        BY <1>1, <1>5, <2>3, <2>4, <3>1 DEF Acked, InRow, InMemory, InStrings
  <2>7. ASSUME NEW g \in Handlers PROVE ToAck(g, k)'
    <3>1. CASE g = h
      <4>1. job[h].alone /\ job[h].put[k] # {} =>
              InMemory(h, k, Of(job[h].put[k])) /\ Loaded(env, k, kv[k]) = Final(fromDB, env, k, Of(job[h].put[k]))
          BY <1>1, <2>3, <2>5 DEF ToAck
      <4> QED
          BY <1>1, <1>5, <3>1, <4>1 DEF ToAck, InMemory, InStrings
    <3>2. CASE g # h
        BY <1>1, <1>5, <2>3, <3>2 DEF ToAck, InMemory, InStrings, InRow
    <3> QED
        BY <3>1, <3>2
  <2> QED
      BY <2>6, <2>7
<1> QED
    BY <1>6, <1>7, <1>8 DEF ConfigInv

\* A request ends.
LEMMA DoneIs ==
  ASSUME job \in [Handlers -> Jobs], NEW h \in Handlers, CF!Done(h)
  PROVE  /\ job' \in [Handlers -> Jobs] /\ job'[h].pc = "idle"
         /\ \A g \in Handlers : g # h => job'[g] = job[g]
BY NoRowsAre DEF CF!Done

\* The strings are not in the table, and an error is reported.
LEMMA FailedKeeps ==
  ASSUME ConfigInv, NEW h \in Handlers, job[h].pc = "write", CF!Done(h),
         UNCHANGED <<fromDB, env, home, up, mem, stored, rough, roughRow, torn, acked>>
  PROVE  ConfigInv'
<1>1. /\ job' \in [Handlers -> Jobs] /\ job'[h].pc = "idle"
      /\ \A g \in Handlers : g # h => job'[g] = job[g]
    BY DoneIs DEF ConfigInv, ConfigShape
<1>2. Filling' <=> Filling
    BY <1>1 DEF Filling
<1>3. ConfigShape'
  <2>1. \A g \in Handlers : job'[g].pc # "idle" => up'[home'[g]]
      BY <1>1 DEF ConfigInv, ConfigShape
  <2>2. \A g \in Handlers : job'[g].pc \in Writing => job'[g].kv["password"] # {}
      BY <1>1 DEF ConfigInv, ConfigShape, Writing
  <2>3. EnvKnown'
      BY DEF ConfigInv, ConfigShape, EnvKnown, CF!NoRows, CF!Put
  <2> QED
      BY <1>1, <2>1, <2>2, <2>3 DEF ConfigInv, ConfigShape
<1>4. Starts'
    BY <1>1, <1>2 DEF ConfigInv, Starts
<1>5. Survives'
  <2>1. Alone'
      BY <1>1 DEF ConfigInv, Survives, Alone
  <2>2. SUFFICES ASSUME OneHome, ~torn, NEW k \in CF!Keys PROVE Acked(k)' /\ \A g \in Handlers : ToAck(g, k)'
      BY <2>1 DEF Survives, OneHome
  <2>3. Acked(k) /\ \A g \in Handlers : ToAck(g, k)
      BY <2>2 DEF ConfigInv, Survives
  <2>4. Acked(k)'
      BY <1>1, <1>2, <2>3 DEF Acked, InRow, InMemory, InStrings, Writing
  <2>5. \A g \in Handlers : ToAck(g, k)'
      BY <1>1, <2>3 DEF ToAck, InRow, InMemory, InStrings
  <2> QED
      BY <2>4, <2>5
<1> QED
    BY <1>3, <1>4, <1>5 DEF ConfigInv

\* The strings are stored, and the request goes on or reports an error.
LEMMA StoredKeeps ==
  ASSUME ConfigInv, NEW h \in Handlers, job[h].pc \in {"write", "fill"},
         stored' = job[h].kv, roughRow' = job[h].rough,
         job' = [job EXCEPT ![h].pc = "back"] \/ CF!Done(h),
         UNCHANGED <<fromDB, env, home, up, mem, rough, torn, acked>>
  PROVE  ConfigInv'
<1>1. /\ job' \in [Handlers -> Jobs] /\ \A g \in Handlers : g # h => job'[g] = job[g]
      /\ \/ job'[h].pc = "idle"
         \/ /\ job'[h].pc = "back" /\ job'[h].kv = job[h].kv /\ job'[h].put = job[h].put
            /\ job'[h].alone = job[h].alone
  <2>1. CASE CF!Done(h)
      BY <2>1, DoneIs DEF ConfigInv, ConfigShape
  <2>2. CASE job' = [job EXCEPT ![h].pc = "back"]
      BY <2>2 DEF ConfigInv, ConfigShape, Jobs, Writing
  <2> QED
      BY <2>1, <2>2
<1>2. job[h].kv \in RowMaps
    BY DEF ConfigInv, ConfigShape, Jobs
<1>3. ConfigShape'
  <2>1. \A g \in Handlers : job'[g].pc # "idle" => up'[home'[g]]
      BY <1>1 DEF ConfigInv, ConfigShape
  <2>2. \A g \in Handlers : job'[g].pc \in Writing => job'[g].kv["password"] # {}
      BY <1>1 DEF ConfigInv, ConfigShape, Writing
  <2>3. EnvKnown'
      BY DEF ConfigInv, ConfigShape, EnvKnown, CF!NoRows, CF!Put
  <2> QED
      BY <1>1, <1>2, <2>1, <2>2, <2>3 DEF ConfigInv, ConfigShape
<1>4. Starts'
  <2>1. roughRow' \/ Kept(env, stored')
      BY DEF ConfigInv, Starts
  <2>2. \A g \in Handlers : job'[g].pc \in {"write", "fill"} /\ ~job'[g].rough => Kept(env, job'[g].kv)
      BY <1>1 DEF ConfigInv, Starts
  <2> QED
      BY <2>1, <2>2 DEF ConfigInv, Starts, Kept
<1>5. Survives'
  <2>1. Alone'
      BY <1>1 DEF ConfigInv, Survives, Alone
  <2>2. SUFFICES ASSUME OneHome, ~torn, NEW k \in CF!Keys PROVE Acked(k)' /\ \A g \in Handlers : ToAck(g, k)'
      BY <2>1 DEF Survives, OneHome
  <2>3. Acked(k) /\ ToAck(h, k) /\ \A g \in Handlers : g # h => job[g].pc = "idle" \/ ~job[g].alone
      BY <2>2 DEF ConfigInv, Survives, Alone
  <2>4. Acked(k)'
      BY <1>1, <2>3 DEF Acked, InRow, InMemory, InStrings, Writing
  <2>5. ASSUME NEW g \in Handlers PROVE ToAck(g, k)'
    <3>1. CASE g = h
        BY <1>1, <2>3, <3>1 DEF ToAck, InRow, InMemory, InStrings, Writing
    <3>2. CASE g # h
        BY <1>1, <2>3, <3>2 DEF ToAck
    <3> QED
        BY <3>1, <3>2
  <2> QED
      BY <2>4, <2>5
<1> QED
    BY <1>3, <1>4, <1>5 DEF ConfigInv

\* The file is emptied before it is written.
LEMMA EmptiedKeeps ==
  ASSUME ConfigInv, NEW h \in Handlers, job[h].pc = "write",
         stored' = CF!NoRows, job' = [job EXCEPT ![h].pc = "fill"],
         UNCHANGED <<fromDB, env, home, up, mem, rough, roughRow, torn, acked>>
  PROVE  ConfigInv'
<1>1. /\ job' \in [Handlers -> Jobs] /\ \A g \in Handlers : g # h => job'[g] = job[g]
      /\ job'[h].pc = "fill" /\ job'[h].kv = job[h].kv /\ job'[h].put = job[h].put
      /\ job'[h].alone = job[h].alone /\ job'[h].rough = job[h].rough
    BY DEF ConfigInv, ConfigShape, Jobs, Writing
<1>2. Filling'
    BY <1>1 DEF Filling
<1>3. ConfigShape'
  <2>1. \A g \in Handlers : job'[g].pc # "idle" => up'[home'[g]]
      BY <1>1 DEF ConfigInv, ConfigShape
  <2>2. \A g \in Handlers : job'[g].pc \in Writing => job'[g].kv["password"] # {}
      BY <1>1 DEF ConfigInv, ConfigShape, Writing
  <2>3. EnvKnown'
      BY DEF ConfigInv, ConfigShape, EnvKnown, CF!NoRows, CF!Put
  <2> QED
      BY <1>1, <2>1, <2>2, <2>3, NoRowsAre DEF ConfigInv, ConfigShape
<1>4. Starts'
  <2>1. \A g \in Handlers : job'[g].pc \in {"write", "fill"} /\ ~job'[g].rough => Kept(env, job'[g].kv)
      BY <1>1 DEF ConfigInv, Starts
  <2> QED
      BY <1>2, <2>1 DEF ConfigInv, Starts
<1>5. Survives'
  <2>1. Alone'
      BY <1>1 DEF ConfigInv, Survives, Alone
  <2>2. SUFFICES ASSUME OneHome, ~torn, NEW k \in CF!Keys PROVE Acked(k)' /\ \A g \in Handlers : ToAck(g, k)'
      BY <2>1 DEF Survives, OneHome
  <2>3. Acked(k) /\ ToAck(h, k) /\ \A g \in Handlers : g # h => job[g].pc = "idle" \/ ~job[g].alone
      BY <2>2 DEF ConfigInv, Survives, Alone
  <2>4. Acked(k)'
      BY <1>1, <1>2, <2>3 DEF Acked, InMemory, InStrings, Writing
  <2>5. ASSUME NEW g \in Handlers PROVE ToAck(g, k)'
    <3>1. CASE g = h
        BY <1>1, <2>3, <3>1 DEF ToAck, InMemory, InStrings, Writing
    <3>2. CASE g # h
        BY <1>1, <2>3, <3>2 DEF ToAck
    <3> QED
        BY <3>1, <3>2
  <2> QED
      BY <2>4, <2>5
<1> QED
    BY <1>3, <1>4, <1>5 DEF ConfigInv

\* A row that says what was saved leaves a value that says it too, once in memory.
LEMMA BackInMemory ==
  ASSUME ConfigInv, NEW h \in Handlers, job[h].pc = "back", NEW c \in Configs,
         \/ c = CF!ApplyStringMap(CF!Zero, job[h].kv)
         \/ c = [mem[home[h]] EXCEPT !.password = IF fromDB THEN Of(job[h].kv.password) ELSE @],
         NEW k \in CF!Keys, NEW v \in Vals, InMemory(h, k, v), InStrings(h, k, v)
  PROVE  Final(fromDB, env, k, c[k]) = Final(fromDB, env, k, v)
<1>1. /\ job[h].kv \in RowMaps /\ job[h].kv["password"] # {} /\ mem[home[h]] \in Configs /\ EnvKnown
    BY DEF ConfigInv, ConfigShape, Jobs, Writing
<1>2. job[h].kv[k] \in {{}} \cup {{w} : w \in Vals} /\ Loaded(env, k, job[h].kv[k]) = Final(fromDB, env, k, v)
    BY <1>1 DEF RowMaps, InStrings, Writing
<1>3. Final(fromDB, env, k, Raw(k, job[h].kv[k])) = Final(fromDB, env, k, v)
    BY <1>1, <1>2, FinalStays
<1>4. CASE c = CF!ApplyStringMap(CF!Zero, job[h].kv)
    BY <1>3, <1>4 DEF CF!ApplyStringMap, CF!Over, Raw, Of
<1>5. CASE c = [mem[home[h]] EXCEPT !.password = IF fromDB THEN Of(job[h].kv.password) ELSE @]
  <2>1. CASE k = "password" /\ fromDB
    <3>1. c[k] = Of(job[h].kv[k])
        BY <1>1, <1>5, <2>1 DEF Configs
    <3>2. c[k] = Raw(k, job[h].kv[k])
        BY <1>1, <2>1, <3>1 DEF Raw
    <3> QED
        BY <1>3, <3>2
  <2>2. CASE ~(k = "password" /\ fromDB)
    <3>1. c[k] = mem[home[h]][k]
        BY <1>1, <1>5, <2>2 DEF Configs
    <3> QED
        BY <3>1 DEF InMemory
  <2> QED
      BY <2>1, <2>2
<1> QED
    BY <1>4, <1>5

\* The answer.
LEMMA WriteBackKeeps ==
  ASSUME ConfigInv, NEW h \in Handlers, CF!WriteBack(h)
  PROVE  ConfigInv'
<1> DEFINE c == IF CF!Uploaded(h) THEN CF!ApplyStringMap(CF!Zero, job[h].kv)
                ELSE [mem[home[h]] EXCEPT !.password = IF fromDB THEN Of(job[h].kv.password) ELSE @]
<1>1. /\ job[h].pc = "back" /\ CF!Done(h) /\ UNCHANGED <<fromDB, env, home, up, stored, roughRow, torn>>
      /\ mem' = [mem EXCEPT ![home[h]] = c]
      /\ rough' = [rough EXCEPT ![home[h]] = @ \/ CF!Uploaded(h)]
      /\ acked' = IF ~job[h].alone THEN CF!NoRows
                  ELSE [k \in CF!Keys |-> IF job[h].put[k] # {} THEN job[h].put[k] ELSE acked[k]]
    BY DEF CF!WriteBack, Of
<1>2. /\ job' \in [Handlers -> Jobs] /\ job'[h].pc = "idle"
      /\ \A g \in Handlers : g # h => job'[g] = job[g]
    BY <1>1, DoneIs DEF ConfigInv, ConfigShape
<1>3. /\ job[h].kv \in RowMaps /\ job[h].put \in RowMaps /\ acked \in RowMaps /\ home[h] \in ConfigProcs
      /\ mem[home[h]] \in Configs /\ mem \in [ConfigProcs -> Configs] /\ EnvKnown
      /\ job[h].kv["password"] # {}
    BY <1>1 DEF ConfigInv, ConfigShape, Jobs, Writing
<1>4. c \in Configs
  <2>1. CF!ApplyStringMap(CF!Zero, job[h].kv) \in Configs
      BY <1>3, OverIs, ZeroIs DEF CF!ApplyStringMap
  <2>2. Of(job[h].kv.password) \in Vals
    <3>1. job[h].kv["password"] \in {{}} \cup {{v} : v \in Vals}
        BY <1>3, KeysAre DEF RowMaps
    <3>2. PICK v \in Vals : job[h].kv["password"] = {v}
        BY <1>3, <3>1
    <3> QED
        BY <3>2, OneValue
  <2> QED
      BY <1>3, <2>1, <2>2 DEF Configs
<1>5. /\ ~CF!Uploaded(h) => /\ c["enabled"] = mem[home[h]]["enabled"] /\ c["days"] = mem[home[h]]["days"]
                            /\ c["feeds"] = mem[home[h]]["feeds"]
    BY <1>3, KeysAre DEF Configs
<1>6. \/ c = CF!ApplyStringMap(CF!Zero, job[h].kv)
      \/ c = [mem[home[h]] EXCEPT !.password = IF fromDB THEN Of(job[h].kv.password) ELSE @]
    OBVIOUS
<1> HIDE DEF c
<1>7. /\ mem' \in [ConfigProcs -> Configs] /\ mem'[home[h]] = c
      /\ \A q \in ConfigProcs : q # home[h] => mem'[q] = mem[q]
    BY <1>1, <1>3, <1>4
<1>8. Filling' <=> Filling
    BY <1>1, <1>2 DEF Filling
<1>9. acked' \in RowMaps
    BY <1>1, <1>3, NoRowsAre DEF RowMaps
<1>10. /\ rough' \in [ConfigProcs -> BOOLEAN] /\ \A q \in ConfigProcs : q # home[h] => rough'[q] = rough[q]
       /\ ~rough'[home[h]] => ~rough[home[h]] /\ ~CF!Uploaded(h)
  <2>1. PICK b \in BOOLEAN : b <=> rough[home[h]] \/ CF!Uploaded(h)
      OBVIOUS
  <2>2. rough' = [rough EXCEPT ![home[h]] = b]
    <3>1. (rough[home[h]] \/ CF!Uploaded(h)) = b
        BY <1>3, <2>1 DEF ConfigInv, ConfigShape
    <3> QED
        BY <1>1, <3>1
  <2> QED
      BY <1>3, <2>1, <2>2 DEF ConfigInv, ConfigShape
<1>11. ConfigShape'
  <2>1. \A g \in Handlers : job'[g].pc # "idle" => up'[home'[g]]
      BY <1>1, <1>2 DEF ConfigInv, ConfigShape
  <2>2. \A g \in Handlers : job'[g].pc \in Writing => job'[g].kv["password"] # {}
      BY <1>2 DEF ConfigInv, ConfigShape, Writing
  <2>3. EnvKnown'
      BY <1>1, <1>3 DEF EnvKnown, CF!NoRows, CF!Put
  <2> QED
      BY <1>1, <1>2, <1>7, <1>9, <1>10, <2>1, <2>2, <2>3 DEF ConfigInv, ConfigShape
<1>12. Starts'
  <2>1. ~rough'[home[h]] /\ up[home[h]] => Fit(env, c)
      BY <1>3, <1>5, <1>10
      DEF ConfigInv, Starts, Fit, CF!Validate, CF!ValidateNightMode, CF!ValidatePostToDestinations
  <2>2. \A p \in ConfigProcs : up'[p] /\ ~rough'[p] => Fit(env, mem'[p])
      BY <1>1, <1>7, <1>10, <2>1 DEF ConfigInv, Starts
  <2>3. \A g \in Handlers : job'[g].pc \in {"write", "fill"} /\ ~job'[g].rough => Kept(env, job'[g].kv)
      BY <1>2 DEF ConfigInv, Starts
  <2> QED
      BY <1>1, <1>8, <2>2, <2>3 DEF ConfigInv, Starts
<1>13. Survives'
  <2>1. Alone'
      BY <1>2 DEF ConfigInv, Survives, Alone
  <2>2. SUFFICES ASSUME OneHome, ~torn, NEW k \in CF!Keys PROVE Acked(k)' /\ \A g \in Handlers : ToAck(g, k)'
      BY <1>1, <2>1 DEF Survives, OneHome
  <2>3. /\ Acked(k) /\ ToAck(h, k) /\ \A g \in Handlers : g # h => job[g].pc = "idle" \/ ~job[g].alone
        /\ job[h].alone => \A g \in Handlers : g # h => job[g].pc = "idle"
        /\ \A g \in Handlers : home[g] = home[h]
      BY <1>1, <2>2 DEF ConfigInv, Survives, Alone, OneHome
  <2>4. \A g \in Handlers : ToAck(g, k)'
      BY <1>2, <2>3 DEF ToAck
  <2>5. ASSUME acked'[k] # {} PROVE Acked(k)'
    <3>1. job[h].alone /\ acked'[k] = IF job[h].put[k] # {} THEN job[h].put[k] ELSE acked[k]
        BY <1>1, <2>5, NoRowsAre
    <3>2. PICK v \in Vals : acked'[k] = {v} /\ v = Of(acked'[k])
        BY <1>9, <2>5, OneValue DEF RowMaps
    <3>3. /\ Filling \/ InRow(k, v)
          /\ up[home[h]] => InMemory(h, k, v)
          /\ InStrings(h, k, v)
      <4>1. CASE job[h].put[k] # {}
          BY <1>1, <2>3, <3>1, <3>2, <4>1 DEF ToAck
      <4>2. CASE job[h].put[k] = {}
          BY <2>3, <2>5, <3>1, <3>2, <4>2 DEF Acked
      <4> QED
          BY <4>1, <4>2
    <3>4. up[home[h]]
        BY <1>1 DEF ConfigInv, ConfigShape
    <3>5. Final(fromDB, env, k, c[k]) = Final(fromDB, env, k, v)
        BY <1>1, <1>4, <1>6, <3>3, <3>4, BackInMemory
    <3>6. \A g \in Handlers : job'[g].pc = "idle"
        BY <1>2, <2>3, <3>1
    <3> QED
        BY <1>1, <1>7, <1>8, <2>3, <3>2, <3>3, <3>5, <3>6 DEF Acked, InRow, InMemory, InStrings, Writing
  <2> QED
      BY <2>4, <2>5 DEF Acked
<1> QED
    BY <1>11, <1>12, <1>13 DEF ConfigInv

\* A process starts from what is stored.
LEMMA StartKeeps ==
  ASSUME ConfigInv, NEW p \in ConfigProcs, CF!Start(p)
  PROVE  ConfigInv'
<1> DEFINE new == CF!StoredAtStart
           c == CF!Load(CF!StoredAtStart)
<1>1. /\ ~up[p] /\ CF!Startable(new) /\ stored' = new
      /\ up' = [up EXCEPT ![p] = TRUE] /\ rough' = [rough EXCEPT ![p] = FALSE]
      /\ UNCHANGED <<fromDB, env, home, job, roughRow, torn, acked>>
    BY DEF CF!Start
<1>2. mem' = [mem EXCEPT ![p] = c]
  <2>1. mem' = [mem EXCEPT ![p] = CF!Load(stored')]
      BY DEF CF!Start
  <2> QED
      BY <1>1, <2>1
<1>3. EnvKnown /\ stored \in RowMaps /\ acked \in RowMaps /\ job \in [Handlers -> Jobs]
    BY DEF ConfigInv, ConfigShape
<1>4. /\ new \in RowMaps
      /\ \A k \in CF!Keys : Loaded(env, k, new[k]) = Hash(fromDB, k, Loaded(env, k, stored[k]))
    BY <1>3, AtStart
<1>5. DOMAIN c = CF!Keys /\ \A k \in CF!Keys : c[k] = Loaded(env, k, new[k])
    BY LoadIs
<1>6. c \in Configs
  <2>1. \A k \in CF!Keys : new[k] \in {{}} \cup {{v} : v \in Vals}
      BY <1>4 DEF RowMaps
  <2>2. \A k \in CF!Keys : Raw(k, new[k]) \in Vals
      BY <2>1, ZeroIs, OneValue DEF Raw, Configs
  <2>3. \A k \in CF!Keys : \A v \in Vals : Default(k, Pinned(env, k, v)) \in Vals
      BY <1>3, ValuesAre, EnvIs, OneValue DEF Default, Pinned
  <2>4. \A k \in CF!Keys : c[k] \in Vals
      BY <1>5, <2>2, <2>3 DEF Loaded
  <2>5. c = [k \in CF!Keys |-> c[k]]
      BY LoadIs
  <2> QED
      BY <2>4, <2>5 DEF Configs
<1>7. CF!Validate(c) /\ (~fromDB => new = stored)
    BY <1>1 DEF CF!Startable, CF!StoredAtStart
<1> HIDE DEF c, new
<1>8. /\ mem' \in [ConfigProcs -> Configs] /\ mem'[p] = c /\ up' \in [ConfigProcs -> BOOLEAN] /\ up'[p]
      /\ rough' \in [ConfigProcs -> BOOLEAN]
      /\ \A q \in ConfigProcs : q # p => mem'[q] = mem[q] /\ up'[q] = up[q] /\ rough'[q] = rough[q]
    BY <1>1, <1>2, <1>6 DEF ConfigInv, ConfigShape
<1>9. \A g \in Handlers : home[g] \in ConfigProcs /\ (job[g].pc # "idle" => home[g] # p)
    BY <1>1 DEF ConfigInv, ConfigShape
<1>10. Filling' <=> Filling
    BY <1>1 DEF Filling
<1>11. ConfigShape'
  <2>1. \A g \in Handlers : job'[g].pc # "idle" => up'[home'[g]]
      BY <1>1, <1>8, <1>9 DEF ConfigInv, ConfigShape
  <2>2. EnvKnown'
      BY <1>1, <1>3 DEF EnvKnown, CF!NoRows, CF!Put
  <2> QED
      BY <1>1, <1>4, <1>8, <2>1, <2>2 DEF ConfigInv, ConfigShape
<1>12. Starts'
  <2>1. Fit(env, c)
    <3>1. env["enabled"] # {} => c["enabled"] = Of(env["enabled"])
        BY <1>5, KeysAre DEF Loaded, Pinned, Default
    <3> QED
        BY <1>7, <3>1 DEF Fit
  <2>2. Starting(env, new)
      BY <1>5, <1>7, KeysAre
      DEF Starting, CF!Validate, CF!ValidateNightMode, CF!ValidatePostToDestinations
  <2>3. \A q \in ConfigProcs : up'[q] /\ ~rough'[q] => Fit(env, mem'[q])
      BY <1>8, <2>1 DEF ConfigInv, Starts
  <2>4. roughRow \/ torn \/ Filling \/ fromDB \/ new["enabled"] # {}
      BY <1>7 DEF ConfigInv, Starts
  <2> QED
      BY <1>1, <1>10, <2>2, <2>3, <2>4 DEF ConfigInv, Starts
<1>13. Survives'
  <2>1. Alone'
      BY <1>1 DEF ConfigInv, Survives, Alone
  <2>2. SUFFICES ASSUME OneHome, ~torn, NEW k \in CF!Keys PROVE Acked(k)' /\ \A g \in Handlers : ToAck(g, k)'
      BY <1>1, <2>1 DEF Survives, OneHome
  <2>3. Acked(k) /\ \A g \in Handlers : ToAck(g, k)
      BY <2>2 DEF ConfigInv, Survives
  <2>4. ASSUME NEW v \in Vals, InRow(k, v)
        PROVE  /\ Loaded(env, k, new[k]) = Final(fromDB, env, k, v)
               /\ Final(fromDB, env, k, c[k]) = Final(fromDB, env, k, v)
    <3>1. stored[k] \in {{}} \cup {{w} : w \in Vals} /\ Loaded(env, k, stored[k]) = Final(fromDB, env, k, v)
        BY <1>3, <2>4 DEF RowMaps, InRow
    <3>2. /\ Final(fromDB, env, k, Final(fromDB, env, k, v)) = Final(fromDB, env, k, v)
          /\ Hash(fromDB, k, Loaded(env, k, stored[k])) = Final(fromDB, env, k, v)
        BY <1>3, <3>1, FinalStays
    <3> QED
        BY <1>4, <1>5, <3>2
  <2>5. ASSUME acked[k] # {} PROVE Acked(k)'
    <3>1. PICK v \in Vals : v = Of(acked[k])
      <4>1. acked[k] \in {{}} \cup {{w} : w \in Vals}
          BY <1>3 DEF RowMaps
      <4> QED
          BY <2>5, <4>1, OneValue
    <3>2. Filling => \A g \in Handlers : home[g] # p
        BY <1>9, <2>2 DEF Filling, OneHome
    <3>3. \A g \in Handlers : InStrings(g, k, v)'
        BY <1>1, <2>3, <2>5, <3>1 DEF Acked, InStrings, Writing
    <3>4. \A g \in Handlers : up'[home[g]] => InMemory(g, k, v)'
      <4> SUFFICES ASSUME NEW g \in Handlers, up'[home[g]] PROVE InMemory(g, k, v)'
          OBVIOUS
      <4>1. CASE home[g] = p
          BY <1>1, <1>8, <2>3, <2>4, <2>5, <3>1, <3>2, <4>1 DEF Acked, InMemory
      <4>2. CASE home[g] # p
          BY <1>1, <1>8, <1>9, <2>3, <2>5, <3>1, <4>2 DEF Acked, InMemory
      <4> QED
          BY <4>1, <4>2
    <3>5. Filling' \/ InRow(k, v)'
        BY <1>1, <1>10, <2>3, <2>4, <2>5, <3>1 DEF Acked, InRow
    <3> QED
        BY <1>1, <3>1, <3>3, <3>4, <3>5 DEF Acked
  <2>6. ASSUME NEW g \in Handlers PROVE ToAck(g, k)'
    <3> SUFFICES ASSUME job[g].pc # "idle", job[g].alone, job[g].put[k] # {} PROVE ToAck(g, k)'
        BY <1>1 DEF ToAck
    <3>1. PICK v \in Vals : v = Of(job[g].put[k])
      <4>1. job[g].put \in RowMaps
          BY <1>3 DEF Jobs
      <4>2. job[g].put[k] \in {{}} \cup {{w} : w \in Vals}
          BY <4>1 DEF RowMaps
      <4> QED
          BY <4>2, OneValue
    <3>2. InMemory(g, k, v) /\ InStrings(g, k, v) /\ (job[g].pc = "back" => InRow(k, v))
        BY <2>3, <3>1 DEF ToAck
    <3>3. InMemory(g, k, v)' /\ InStrings(g, k, v)'
        BY <1>1, <1>8, <1>9, <3>2 DEF InMemory, InStrings, Writing
    <3>4. job[g].pc = "back" => InRow(k, v)'
        BY <1>1, <2>4, <3>2 DEF InRow
    <3> QED
        BY <1>1, <3>1, <3>3, <3>4 DEF ToAck
  <2> QED
      BY <1>1, <2>5, <2>6 DEF Acked
<1> QED
    BY <1>11, <1>12, <1>13 DEF ConfigInv

\* A process stops, and its requests end with it.
LEMMA StopKeeps ==
  ASSUME ConfigInv, NEW p \in ConfigProcs, CF!Stop(p)
  PROVE  ConfigInv'
<1>1. /\ up' = [up EXCEPT ![p] = FALSE]
      /\ job' = [h \in Handlers |-> IF home[h] = p THEN CF!NoJob ELSE job[h]]
      /\ torn' = (torn \/ \E h \in Handlers : home[h] = p /\ job[h].pc = "fill")
      /\ UNCHANGED <<fromDB, env, home, mem, stored, rough, roughRow, acked>>
    BY DEF CF!Stop
<1>2. /\ job' \in [Handlers -> Jobs]
      /\ \A g \in Handlers : home[g] # p => job'[g] = job[g]
      /\ \A g \in Handlers : home[g] = p => job'[g].pc = "idle"
    BY <1>1, NoRowsAre DEF ConfigInv, ConfigShape
<1>3. /\ up' \in [ConfigProcs -> BOOLEAN] /\ ~up'[p]
      /\ \A q \in ConfigProcs : q # p => up'[q] = up[q]
    BY <1>1 DEF ConfigInv, ConfigShape
<1>4. ~torn' => ~torn /\ (Filling' <=> Filling)
    BY <1>1, <1>2 DEF Filling
<1>5. ConfigShape'
  <2>1. \A g \in Handlers : job'[g].pc # "idle" => up'[home'[g]]
      BY <1>1, <1>2, <1>3 DEF ConfigInv, ConfigShape
  <2>2. \A g \in Handlers : job'[g].pc \in Writing => job'[g].kv["password"] # {}
      BY <1>2 DEF ConfigInv, ConfigShape, Writing
  <2>3. EnvKnown'
      BY <1>1 DEF ConfigInv, ConfigShape, EnvKnown, CF!NoRows, CF!Put
  <2> QED
      BY <1>1, <1>2, <1>3, <2>1, <2>2, <2>3 DEF ConfigInv, ConfigShape
<1>6. Starts'
  <2>1. \A q \in ConfigProcs : up'[q] /\ ~rough'[q] => Fit(env, mem'[q])
      BY <1>1, <1>3 DEF ConfigInv, Starts
  <2>2. \A g \in Handlers : job'[g].pc \in {"write", "fill"} /\ ~job'[g].rough => Kept(env, job'[g].kv)
      BY <1>2 DEF ConfigInv, Starts
  <2> QED
      BY <1>1, <1>4, <2>1, <2>2 DEF ConfigInv, Starts
<1>7. Survives'
  <2>1. Alone'
      BY <1>2 DEF ConfigInv, Survives, Alone
  <2>2. SUFFICES ASSUME OneHome, ~torn', NEW k \in CF!Keys PROVE Acked(k)' /\ \A g \in Handlers : ToAck(g, k)'
      BY <1>1, <2>1 DEF Survives, OneHome
  <2>3. Acked(k) /\ \A g \in Handlers : ToAck(g, k)
      BY <1>4, <2>2 DEF ConfigInv, Survives
  <2>4. \A g \in Handlers : up'[home[g]] => up[home[g]] /\ job'[g] = job[g]
      BY <1>2, <1>3 DEF ConfigInv, ConfigShape
  <2>5. Acked(k)'
      BY <1>1, <1>2, <1>4, <2>2, <2>3, <2>4 DEF Acked, InRow, InMemory, InStrings, Writing
  <2>6. \A g \in Handlers : ToAck(g, k)'
      BY <1>1, <1>2, <2>3 DEF ToAck, InRow, InMemory, InStrings, Writing
  <2> QED
      BY <2>5, <2>6
<1> QED
    BY <1>5, <1>6, <1>7 DEF ConfigInv

LEMMA ConfigInvInitially == CF!Init => ConfigInv
<1> SUFFICES ASSUME CF!Init PROVE ConfigInv
    OBVIOUS
<1>1. /\ EnvKnown /\ home \in [Handlers -> ConfigProcs] /\ acked = CF!NoRows /\ roughRow = FALSE
      /\ up = [p \in ConfigProcs |-> FALSE] /\ rough = [p \in ConfigProcs |-> FALSE]
      /\ mem = [p \in ConfigProcs |-> CF!Zero] /\ job = [h \in Handlers |-> CF!NoJob]
      /\ fromDB \/ stored # CF!NoRows
    BY DEF CF!Init, EnvKnown
<1>2. \A h \in Handlers : job[h].pc = "idle"
    BY <1>1, NoRowsAre
<1> DEFINE c == [CF!Zero EXCEPT !.enabled = TRUE, !.otp = "off", !.password = "p1"]
<1>3. /\ c \in Configs /\ c["enabled"] = TRUE /\ c["days"] = {} /\ c["feeds"] = {}
    BY ZeroIs, KeysAre, ValuesAre DEF Configs, CF!Zero
<1>4. stored = CF!NoRows \/ stored = CF!ConfigToStringMap(c)
    BY DEF CF!Init
<1> HIDE DEF c
<1>5. /\ CF!ConfigToStringMap(c) \in RowMaps
      /\ CF!ConfigToStringMap(c)["enabled"] = {TRUE} /\ CF!ConfigToStringMap(c)["days"] = {}
      /\ CF!ConfigToStringMap(c)["feeds"] = {}
    BY <1>3, KeysAre DEF CF!ConfigToStringMap, RowMaps, Configs, CF!BlankKeys, CF!Zero
<1>6. /\ stored \in RowMaps /\ stored["days"] = {} /\ stored["feeds"] = {}
      /\ fromDB \/ stored["enabled"] # {}
    BY <1>1, <1>4, <1>5, NoRowsAre, KeysAre
<1>7. Starting(env, stored)
  <2>1. Loaded(env, "days", stored["days"]) = {} /\ Loaded(env, "feeds", stored["feeds"]) = {}
      BY <1>1, <1>6, EnvIs, KeysAre DEF Loaded, Raw, Pinned, Default, CF!Zero
  <2> QED
      BY <2>1, KeysAre DEF Starting, CF!Validate, CF!ValidateNightMode, CF!ValidatePostToDestinations
<1>8. ConfigShape
  <2>1. \A h \in Handlers : job[h].pc \notin Writing
      BY <1>2 DEF Writing
  <2> QED
      BY <1>1, <1>2, <1>6, <2>1, NoRowsAre, ZeroIs DEF ConfigShape
<1>9. Starts
    BY <1>1, <1>2, <1>6, <1>7 DEF Starts
<1>10. Survives
    BY <1>1, <1>2, NoRowsAre DEF Survives, Alone, Acked, ToAck
<1> QED
    BY <1>8, <1>9, <1>10 DEF ConfigInv

\* What a request can be given.
LEMMA PutIs ==
  ASSUME NEW k \in CF!Keys, NEW v \in Vals
  PROVE  /\ CF!Put(k, v) \in RowMaps /\ CF!Put(k, v)[k] = {v}
         /\ \A j \in CF!Keys : j # k => CF!Put(k, v)[j] = {}
BY NoRowsAre DEF CF!Put, RowMaps, CF!NoRows

LEMMA FormsAre == CF!FormUpdates \subseteq RowMaps
<1> SUFFICES ASSUME NEW u \in CF!FormUpdates PROVE u \in RowMaps
    OBVIOUS
<1>1. CASE \E k \in {"enabled", "days", "otp", "hours"} : \E v \in CF!Values[k] : u = CF!Put(k, v)
  <2>1. PICK k \in {"enabled", "days", "otp", "hours"} : \E v \in CF!Values[k] : u = CF!Put(k, v)
      BY <1>1
  <2>2. k \in CF!Keys /\ \E v \in Vals : u = CF!Put(k, v)
      BY <2>1, KeysAre, ValuesAre
  <2> QED
      BY <2>2, PutIs
<1>2. CASE \E pw \in {"", "p1", "p2"} : u = CF!Put("password", pw)
  <2>1. "password" \in CF!Keys /\ \E pw \in Vals : u = CF!Put("password", pw)
      BY <1>2, KeysAre, ValuesAre
  <2> QED
      BY <2>1, PutIs
<1>3. CASE \E d \in CF!Values["days"] : u = [CF!Put("enabled", TRUE) EXCEPT !.days = {d}]
  <2>1. PICK d \in CF!Values["days"] : u = [CF!Put("enabled", TRUE) EXCEPT !.days = {d}]
      BY <1>3
  <2>2. d \in Vals /\ CF!Put("enabled", TRUE) \in RowMaps
      BY KeysAre, ValuesAre, PutIs
  <2> QED
      BY <2>1, <2>2 DEF RowMaps
<1> DEFINE Single == UNION {{CF!Put(k, v) : v \in CF!Values[k]} : k \in {"enabled", "days", "otp", "hours"}}
           Password == {CF!Put("password", pw) : pw \in {"", "p1", "p2"}}
           Double == {[CF!Put("enabled", TRUE) EXCEPT !.days = {d}] : d \in CF!Values["days"]}
<1>4. CF!FormUpdates = Single \cup Password \cup Double
    BY DEF CF!FormUpdates
<1>5. CASE u \in Single
    BY <1>1, <1>5
<1>6. CASE u \in Password
    BY <1>2, <1>6
<1>7. CASE u \in Double
    BY <1>3, <1>7
<1> HIDE DEF Single, Password, Double
<1> QED
    BY <1>4, <1>5, <1>6, <1>7

LEMMA SaveFormKeeps ==
  ASSUME ConfigInv, NEW h \in Handlers, NEW u \in CF!FormUpdates, CF!SaveForm(h, u)
  PROVE  ConfigInv'
<1> DEFINE put == CF!Editable(u)
           c == CF!Over(mem[home[h]], put)
           back == CF!RolledBack(c, mem[home[h]])
<1>1. /\ up[home[h]] /\ job[h].pc = "idle"
      /\ UNCHANGED <<fromDB, env, home, up, stored, roughRow, torn>>
      /\ \/ /\ CF!Validate(c) /\ mem' = [mem EXCEPT ![home[h]] = c]
            /\ rough' = [rough EXCEPT ![home[h]] = @ /\ ~CF!EnvHolds(c)]
            /\ CF!Begin(h, put)
         \/ /\ mem' = [mem EXCEPT ![home[h]] = CF!RolledBack(c, @)]
            /\ rough' = [rough EXCEPT ![home[h]] = @ \/ mem'[home[h]] # mem[home[h]]]
            /\ acked' = [k \in CF!Keys |-> IF mem'[home[h]][k] # mem[home[h]][k] THEN {} ELSE acked[k]]
            /\ job' = IF mem' = mem THEN job ELSE CF!Disturbed
    BY DEF CF!SaveForm, CF!CanSave
<1>2. /\ home[h] \in ConfigProcs /\ mem \in [ConfigProcs -> Configs] /\ mem[home[h]] \in Configs /\ EnvKnown
      /\ rough \in [ConfigProcs -> BOOLEAN]
    BY DEF ConfigInv, ConfigShape
<1>3. put \in RowMaps /\ (env["enabled"] # {} => put["enabled"] = {})
    BY FormsAre, KeysAre DEF CF!Editable, RowMaps
<1>4. /\ c \in Configs
      /\ \A k \in CF!Keys : c[k] = IF put[k] = {} THEN mem[home[h]][k] ELSE Of(put[k])
    BY <1>2, <1>3, OverIs
<1>5. back \in Configs
  <2>1. CF!ConfigToStringMap(mem[home[h]]) \in RowMaps
      BY <1>2 DEF CF!ConfigToStringMap, RowMaps, Configs
  <2> QED
      BY <1>4, <2>1, OverIs DEF CF!RolledBack, CF!ApplyStringMap
<1>6. CF!EnvHolds(c) => (env["enabled"] # {} => c["enabled"] = Of(env["enabled"]))
    BY KeysAre DEF CF!EnvHolds, CF!ApplyEnvOverrides, CF!Over, Of
<1> HIDE DEF put, c, back
<1>7. CASE /\ CF!Validate(c) /\ mem' = [mem EXCEPT ![home[h]] = c]
           /\ rough' = [rough EXCEPT ![home[h]] = @ /\ ~CF!EnvHolds(c)]
           /\ CF!Begin(h, put)
  <2>1. PICK b \in BOOLEAN : b <=> rough[home[h]] /\ ~CF!EnvHolds(c)
      OBVIOUS
  <2>2. (rough[home[h]] /\ ~CF!EnvHolds(c)) = b
      BY <1>2, <2>1
  <2>3. rough' = [rough EXCEPT ![home[h]] = b]
      BY <1>7, <2>2
  <2>4. /\ rough' \in [ConfigProcs -> BOOLEAN] /\ rough'[home[h]] = b
        /\ \A q \in ConfigProcs : q # home[h] => rough'[q] = rough[q]
      BY <1>2, <2>1, <2>3
  <2>5. ~b => Fit(env, c)
    <3>1. ~rough[home[h]] => (env["enabled"] # {} => c["enabled"] = Of(env["enabled"]))
        BY <1>1, <1>2, <1>3, <1>4, KeysAre DEF ConfigInv, Starts, Fit
    <3> QED
        BY <1>6, <1>7, <2>1, <3>1 DEF Fit
  <2>6. PICK p \in RowMaps, m \in Configs : p = put /\ m = c
      BY <1>3, <1>4
  <2>7. /\ CF!Begin(h, p) /\ mem' = [mem EXCEPT ![home[h]] = m]
        /\ \A k \in CF!Keys : m[k] = IF p[k] = {} THEN mem[home[h]][k] ELSE Of(p[k])
        /\ ~rough'[home[h]] => Fit(env, m)
      BY <1>4, <1>7, <2>4, <2>5, <2>6
  <2> QED
    <3>1. Requested(h, p, m)
        BY <1>1, <2>4, <2>7 DEF Requested
    <3> QED
        BY <3>1, RequestKeeps
<1>8. CASE /\ mem' = [mem EXCEPT ![home[h]] = CF!RolledBack(c, @)]
           /\ rough' = [rough EXCEPT ![home[h]] = @ \/ mem'[home[h]] # mem[home[h]]]
           /\ acked' = [k \in CF!Keys |-> IF mem'[home[h]][k] # mem[home[h]][k] THEN {} ELSE acked[k]]
           /\ job' = IF mem' = mem THEN job ELSE CF!Disturbed
  <2>1. mem' = [mem EXCEPT ![home[h]] = back]
      BY <1>8 DEF back
  <2> QED
      BY <1>1, <1>5, <1>8, <2>1, RefusedKeeps
<1> QED
    BY <1>1, <1>7, <1>8

LEMMA SaveListKeeps ==
  ASSUME ConfigInv, NEW h \in Handlers, NEW f \in CF!Values["feeds"], CF!SaveList(h, f)
  PROVE  ConfigInv'
<1> DEFINE put == CF!Put("feeds", f)
           c == [mem[home[h]] EXCEPT !.feeds = f]
<1>1. /\ up[home[h]] /\ job[h].pc = "idle" /\ CF!Begin(h, put)
      /\ mem' = [mem EXCEPT ![home[h]] = c]
      /\ rough' = [rough EXCEPT ![home[h]] = @ \/ ~CF!Validate(mem'[home[h]])]
      /\ UNCHANGED <<fromDB, env, home, up, stored, roughRow, torn>>
    BY DEF CF!SaveList, CF!CanSave
<1>2. /\ home[h] \in ConfigProcs /\ mem \in [ConfigProcs -> Configs] /\ mem[home[h]] \in Configs /\ EnvKnown
      /\ rough \in [ConfigProcs -> BOOLEAN]
    BY DEF ConfigInv, ConfigShape
<1>3. f \in Vals
    BY KeysAre, ValuesAre
<1>4. put \in RowMaps /\ put["feeds"] = {f} /\ \A k \in CF!Keys : k # "feeds" => put[k] = {}
    BY <1>3, KeysAre, PutIs
<1>5. /\ c \in Configs
      /\ \A k \in CF!Keys : c[k] = IF put[k] = {} THEN mem[home[h]][k] ELSE Of(put[k])
    BY <1>2, <1>3, <1>4, KeysAre, OneValue DEF Configs
<1> HIDE DEF put, c
<1>6. PICK b \in BOOLEAN : b <=> rough[home[h]] \/ ~CF!Validate(c)
    OBVIOUS
<1>7. rough' = [rough EXCEPT ![home[h]] = b]
  <2>1. mem'[home[h]] = c
      BY <1>1, <1>2
  <2>2. (rough[home[h]] \/ ~CF!Validate(c)) = b
      BY <1>2, <1>6
  <2> QED
      BY <1>1, <2>1, <2>2
<1>8. /\ rough' \in [ConfigProcs -> BOOLEAN] /\ rough'[home[h]] = b
      /\ \A q \in ConfigProcs : q # home[h] => rough'[q] = rough[q]
    BY <1>2, <1>6, <1>7
<1>9. ~b => Fit(env, c)
    BY <1>1, <1>2, <1>4, <1>5, <1>6, KeysAre DEF ConfigInv, Starts, Fit
<1>10. PICK m \in Configs : m = c
    BY <1>5
<1>11. /\ mem' = [mem EXCEPT ![home[h]] = m] /\ (~rough'[home[h]] => Fit(env, m))
       /\ \A k \in CF!Keys : m[k] = IF put[k] = {} THEN mem[home[h]][k] ELSE Of(put[k])
    BY <1>1, <1>5, <1>8, <1>9, <1>10
<1>12. PICK p \in RowMaps : p = put
    BY <1>4
<1>13. Requested(h, p, m)
    BY <1>1, <1>4, <1>8, <1>11, <1>12 DEF Requested
<1> QED
    BY <1>13, RequestKeeps

LEMMA UploadEnvKeeps ==
  ASSUME ConfigInv, NEW h \in Handlers, NEW u \in RowMaps, CF!UploadEnv(h, u)
  PROVE  ConfigInv'
<1> DEFINE put == [u EXCEPT !.otp = {}, !.feeds = {}]
           c == CF!Over(mem[home[h]], put)
<1>1. /\ up[home[h]] /\ job[h].pc = "idle" /\ CF!Begin(h, put)
      /\ mem' = [mem EXCEPT ![home[h]] = CF!Over(@, put)]
      /\ rough' = [rough EXCEPT ![home[h]] = TRUE]
      /\ UNCHANGED <<fromDB, env, home, up, stored, roughRow, torn>>
    BY DEF CF!UploadEnv, CF!CanSave
<1>2. /\ home[h] \in ConfigProcs /\ mem \in [ConfigProcs -> Configs] /\ mem[home[h]] \in Configs
      /\ rough \in [ConfigProcs -> BOOLEAN]
    BY DEF ConfigInv, ConfigShape
<1>3. put \in RowMaps
    BY KeysAre DEF RowMaps
<1>4. /\ c \in Configs
      /\ \A k \in CF!Keys : c[k] = IF put[k] = {} THEN mem[home[h]][k] ELSE Of(put[k])
    BY <1>2, <1>3, OverIs
<1>5. mem' = [mem EXCEPT ![home[h]] = c]
    BY <1>1
<1> HIDE DEF put, c
<1>6. /\ rough' \in [ConfigProcs -> BOOLEAN] /\ rough'[home[h]]
      /\ \A q \in ConfigProcs : q # home[h] => rough'[q] = rough[q]
    BY <1>1, <1>2
<1>7. PICK m \in Configs : m = c
    BY <1>4
<1>8. /\ mem' = [mem EXCEPT ![home[h]] = m]
      /\ \A k \in CF!Keys : m[k] = IF put[k] = {} THEN mem[home[h]][k] ELSE Of(put[k])
    BY <1>4, <1>5, <1>7
<1>9. PICK p \in RowMaps : p = put
    BY <1>3
<1>10. Requested(h, p, m)
    BY <1>1, <1>3, <1>6, <1>8, <1>9 DEF Requested
<1> QED
    BY <1>10, RequestKeeps

LEMMA UploadConfigKeeps ==
  ASSUME ConfigInv, NEW h \in Handlers, NEW c \in Configs, CF!UploadConfig(h, c)
  PROVE  ConfigInv'
<1>1. /\ up[home[h]] /\ job[h].pc = "idle" /\ acked' = CF!NoRows
      /\ job' = [CF!Disturbed EXCEPT ![h] =
                   [CF!NoJob EXCEPT !.pc = "write", !.rough = TRUE, !.alone = FALSE,
                                    !.put = CF!ConfigToStringMap(c), !.kv = Strings(c)]]
      /\ UNCHANGED <<fromDB, env, home, up, mem, stored, rough, roughRow, torn>>
    BY DEF CF!UploadConfig, CF!CanSave, Strings
<1>2. CF!ConfigToStringMap(c) \in RowMaps
    BY DEF CF!ConfigToStringMap, RowMaps, Configs
<1>3. Strings(c) \in RowMaps /\ Strings(c)["password"] # {}
    BY StringsAre DEF ConfigInv, ConfigShape
<1> QED
    BY <1>1, <1>2, <1>3, UploadKeeps

LEMMA WriteKeeps ==
  ASSUME ConfigInv, NEW h \in Handlers, CF!Write(h)
  PROVE  ConfigInv'
<1>1. job[h].pc = "write" /\ UNCHANGED <<fromDB, env, home, up, mem, rough, torn, acked>>
    BY DEF CF!Write
<1>2. CASE fromDB /\ stored' = job[h].kv /\ roughRow' = job[h].rough
           /\ (job' = [job EXCEPT ![h].pc = "back"] \/ CF!Done(h))
    BY <1>1, <1>2, StoredKeeps
<1>3. CASE ~fromDB /\ stored' = CF!NoRows /\ roughRow' = roughRow /\ job' = [job EXCEPT ![h].pc = "fill"]
    BY <1>1, <1>3, EmptiedKeeps
<1>4. CASE CF!Done(h) /\ UNCHANGED <<stored, roughRow>>
    BY <1>1, <1>4, FailedKeeps
<1> QED
    BY <1>2, <1>3, <1>4 DEF CF!Write, CF!AllConfigValues

LEMMA FillKeeps ==
  ASSUME ConfigInv, NEW h \in Handlers, CF!Fill(h)
  PROVE  ConfigInv'
BY StoredKeeps DEF CF!Fill

LEMMA ConfigInvSteps == ConfigInv /\ CF!Next => ConfigInv'
<1> SUFFICES ASSUME ConfigInv, CF!Next PROVE ConfigInv'
    OBVIOUS
<1>1. ASSUME NEW h \in Handlers, NEW u \in {CF!Put("enabled", FALSE), CF!Put("days", {"bad"}), CF!Put("otp", "off")},
             CF!UploadEnv(h, u)
      PROVE  ConfigInv'
  <2>1. /\ "enabled" \in CF!Keys /\ "days" \in CF!Keys /\ "otp" \in CF!Keys
        /\ FALSE \in Vals /\ {"bad"} \in Vals /\ "off" \in Vals
      BY KeysAre, ValuesAre
  <2>2. u \in RowMaps
    <3>1. CF!Put("enabled", FALSE) \in RowMaps
        BY <2>1, PutIs
    <3>2. CF!Put("days", {"bad"}) \in RowMaps
        BY <2>1, PutIs
    <3>3. CF!Put("otp", "off") \in RowMaps
        BY <2>1, PutIs
    <3> QED
        BY <3>1, <3>2, <3>3
  <2> QED
      BY <1>1, <2>2, UploadEnvKeeps
<1>2. ASSUME NEW h \in Handlers,
             CF!UploadConfig(h, [CF!Zero EXCEPT !.enabled = TRUE, !.days = {"bad"}, !.password = "p2"])
      PROVE  ConfigInv'
  <2>1. [CF!Zero EXCEPT !.enabled = TRUE, !.days = {"bad"}, !.password = "p2"] \in Configs
      BY ZeroIs, KeysAre, ValuesAre DEF Configs
  <2> QED
      BY <1>2, <2>1, UploadConfigKeeps
<1>3. ASSUME NEW h \in Handlers, NEW u \in CF!FormUpdates, CF!SaveForm(h, u) PROVE ConfigInv'
    BY <1>3, SaveFormKeeps
<1>4. ASSUME NEW h \in Handlers, NEW f \in CF!Values["feeds"], CF!SaveList(h, f) PROVE ConfigInv'
    BY <1>4, SaveListKeeps
<1>5. ASSUME NEW h \in Handlers, CF!Collect(h) \/ CF!Write(h) \/ CF!Fill(h) \/ CF!WriteBack(h) PROVE ConfigInv'
    BY <1>5, CollectKeeps, WriteKeeps, FillKeeps, WriteBackKeeps
<1>6. ASSUME NEW p \in ConfigProcs, CF!Start(p) \/ CF!Stop(p) PROVE ConfigInv'
    BY <1>6, StartKeeps, StopKeeps
<1> QED
    BY <1>1, <1>2, <1>3, <1>4, <1>5, <1>6 DEF CF!Next

\* The faults of another part are none of the configuration's.
LEMMA ConfigInvStays == ConfigInv /\ UNCHANGED configVars => ConfigInv'
<1> SUFFICES ASSUME ConfigInv, UNCHANGED configVars PROVE ConfigInv'
    OBVIOUS
<1>1. UNCHANGED <<fromDB, env, home, up, mem, stored, job, rough, roughRow, torn, acked>>
    BY DEF configVars
<1>2. ConfigShape'
    BY <1>1 DEF ConfigInv, ConfigShape, EnvKnown, CF!NoRows, CF!Put
<1>3. Starts'
    BY <1>1 DEF ConfigInv, Starts, Filling
<1>4. Survives'
    BY <1>1 DEF ConfigInv, Survives, Alone, OneHome, Acked, ToAck, InMemory, InStrings, InRow, Filling
<1> QED
    BY <1>2, <1>3, <1>4 DEF ConfigInv

LEMMA ConfigInvHolds == ConfigInv /\ [WebNext]_webVars => ConfigInv'
BY ConfigInvSteps, ConfigInvStays DEF WebNext, webVars

\* For any number of processes and requests: a process can start again from what is stored,
\* whatever was saved at the same time, refused or lost half-way, with the exceptions that the
\* property names.  (handleSaveConfig, persistConfig, Validate)
THEOREM RestartsAreSafe == WebSpec => []StartsAgain
<1>1. ConfigInv => StartsAgain
  <2> SUFFICES ASSUME ConfigInv, ~roughRow, ~torn, ~Filling PROVE CF!Startable(CF!StoredAtStart)
      BY DEF StartsAgain, CF!StartsAgain, Filling
  <2> DEFINE new == CF!StoredAtStart
             c == CF!Load(CF!StoredAtStart)
  <2>1. Starting(env, stored) /\ (fromDB \/ stored["enabled"] # {}) /\ EnvKnown /\ stored \in RowMaps
      BY DEF ConfigInv, ConfigShape, Starts
  <2>2. \A k \in CF!Keys : c[k] = Hash(fromDB, k, Loaded(env, k, stored[k]))
      BY <2>1, AtStart, LoadIs
  <2>3. CF!Validate(c)
      BY <2>1, <2>2, KeysAre
      DEF Starting, Hash, CF!Validate, CF!ValidateNightMode, CF!ValidatePostToDestinations
  <2>4. fromDB \/ new # CF!NoRows
      BY <2>1, NoRowsAre, KeysAre DEF CF!StoredAtStart
  <2> QED
      BY <2>3, <2>4 DEF CF!Startable
<1>2. WebInit => ConfigInv
    BY ConfigInvInitially DEF WebInit
<1> QED
    BY <1>1, <1>2, ConfigInvHolds, PTL DEF WebSpec, webVars

LEMMA OneHomeIs ==
  ASSUME IsFiniteSet(ConfigProcs), home \in [Handlers -> ConfigProcs],
         ~(CF!Cardinality({home[h] : h \in Handlers}) > 1)
  PROVE  OneHome
<1> DEFINE S == {home[h] : h \in Handlers}
<1>1. CF!Cardinality(S) = Cardinality(S)
    BY DEF CF!Cardinality, Cardinality
<1>2. IsFiniteSet(S) /\ Cardinality(S) \in Nat
    BY FS_Subset, FS_CardinalityType
<1>3. SUFFICES ASSUME NEW g \in Handlers, NEW h \in Handlers, home[g] # home[h] PROVE FALSE
    BY DEF OneHome
<1>4. /\ {home[g], home[h]} \subseteq S /\ IsFiniteSet({home[g], home[h]})
      /\ Cardinality({home[g], home[h]}) <= Cardinality(S)
    BY <1>2, FS_Subset
<1>5. Cardinality({home[g], home[h]}) = 2
  <2>1. Cardinality({home[h]}) = 1 /\ IsFiniteSet({home[h]})
      BY FS_Singleton
  <2>2. home[g] \notin {home[h]} /\ {home[h]} \cup {home[g]} = {home[g], home[h]}
      BY <1>3
  <2>3. Cardinality({home[h]} \cup {home[g]}) = Cardinality({home[h]}) + 1
      BY <2>1, <2>2, FS_AddElement
  <2> QED
      BY <2>1, <2>2, <2>3
<1> QED
    BY <1>1, <1>2, <1>4, <1>5

\* For any number of processes and requests: what was reported as saved is what is loaded from
\* the table or the file from then on, whatever other forms are refused, fail or are on their
\* way, with the exceptions that the property names.  (persistConfig, SetAllConfigValues,
\* LoadFromStringMap)
THEOREM SavedIsKept ==
  ASSUME IsFiniteSet(ConfigProcs)
  PROVE  WebSpec => []AckedSurvives
<1>1. ConfigInv => AckedSurvives
  <2> SUFFICES ASSUME ConfigInv, ~torn, ~(CF!Cardinality({home[h] : h \in Handlers}) > 1), ~Filling,
                      NEW k \in CF!Keys, acked[k] # {}
               PROVE  CF!Load(stored)[k] = LET c == CF!Load(acked)[k]
                                           IN IF k = "password" /\ fromDB THEN CF!Hashed(c) ELSE c
      BY DEF AckedSurvives, CF!AckedSurvives, Filling
  <2>1. OneHome
      BY OneHomeIs DEF ConfigInv, ConfigShape
  <2>2. Loaded(env, k, stored[k]) = Final(fromDB, env, k, Of(acked[k])) /\ EnvKnown
      BY <2>1 DEF ConfigInv, ConfigShape, Survives, Acked, InRow
  <2>3. CF!Load(stored)[k] = Loaded(env, k, stored[k]) /\ CF!Load(acked)[k] = Loaded(env, k, acked[k])
      BY LoadIs
  <2>4. Final(fromDB, env, k, Of(acked[k])) = Hash(fromDB, k, Loaded(env, k, acked[k]))
    <3>1. CASE k = "password"
        BY <2>2, <3>1, EnvIs DEF Final, Loaded, Raw, Hash, Pinned, Default
    <3>2. CASE k # "password"
        BY <3>2 DEF Final, Loaded, Raw, Hash
    <3> QED
        BY <3>1, <3>2
  <2> QED
      BY <2>2, <2>3, <2>4 DEF Hash
<1>2. WebInit => ConfigInv
    BY ConfigInvInitially DEF WebInit
<1> QED
    BY <1>1, <1>2, ConfigInvHolds, PTL DEF WebSpec, webVars
=============================================================================
