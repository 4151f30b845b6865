------------------------------ MODULE OAuthProofs ------------------------------
(***************************************************************************)
(* Theorems about OAuth, for any number of workers, tasks, tokens, writes  *)
(* of metadata and failures: types and the lock, that a refresh keeps what *)
(* the user chose, that a spent refresh token is posted again only after a *)
(* loss, and that a dead grant is reported once.                           *)
(***************************************************************************)
EXTENDS OAuth, FiniteSetTheorems, TLAPS

-----------------------------------------------------------------------------
(* Types, the lock, and tokens that were issued                            *)

Issued == 1..minted
Known(r) == r = NoRow \/ (r.grant \in Issued /\ r.refresh \in Issued)

Refreshing == {"posting", "rereading", "saving"}
Reporting == {"retiring", "handling", "notifying"}
Busy == Refreshing \cup Reporting

(* The row, the caches and the tasks have tokens that were issued.         *)
KnownInv ==
  /\ Known(row) /\ flow <= minted
  /\ \A w \in Readers : cache[w] = Unset \/ Known(cache[w])
  /\ \A t \in Tasks : at[t] \in Busy => tok[t].grant \in Issued
  /\ \A t \in Tasks : at[t] \in Refreshing => tok[t].refresh \in Issued
  /\ \A t \in Tasks : at[t] \in {"posting", "rereading"} => posted[t] \in Issued
  /\ \A g \in Tokens : live[g] <= minted

TypeInv == TypeOK /\ KnownInv

TaskTypes ==
  /\ tok \in [Tasks -> Rows] /\ at \in [Tasks -> Places]
  /\ posted \in [Tasks -> 0..MaxTokens] /\ meta \in [Tasks -> 0..MaxNotes]
  /\ refusal \subseteq Turns
CacheTypes ==
  /\ cache \in [Readers -> Rows \cup {Unset}]
  /\ \A w \in Readers : cache[w] = Unset \/ Known(cache[w])
TaskKnown(t) ==
  /\ at[t] \in Busy => tok[t].grant \in Issued
  /\ at[t] \in Refreshing => tok[t].refresh \in Issued
  /\ at[t] \in {"posting", "rereading"} => posted[t] \in Issued
LockHeld == \A t \in Tasks : lock = t <=> at[t] \in Locked
Same(t) == /\ at'[t] = at[t] /\ tok'[t] = tok[t] /\ posted'[t] = posted[t]
           /\ meta'[t] = meta[t]
Others(t) == \A u \in Tasks \ {t} : Same(u)

(* The parts of the type invariant.                                        *)
Parts ==
  /\ row \in Rows /\ extra \in 0..MaxNotes /\ Known(row)
  /\ CacheTypes /\ TaskTypes /\ LockHeld
  /\ \A t \in Tasks : TaskKnown(t)
  /\ flow \in 0..MaxTokens /\ flow <= minted
  /\ minted \in 0..MaxTokens /\ stale \in 0..minted
  /\ live \in [Tokens -> 0..MaxTokens] /\ \A g \in Tokens : live[g] <= minted
  /\ chosen \in 0..MaxTokens /\ notes \in 0..MaxNotes /\ hit \in BOOLEAN
  /\ dormant \in BOOLEAN
  /\ refused \subseteq Tokens /\ replays \subseteq refused
  /\ lost \subseteq Tokens /\ untold \subseteq Tokens
  /\ told \in [Tokens -> Nat] /\ slips \in [Tokens -> Nat]
  /\ faults \in 0..MaxFaults

LEMMA TypeParts == TypeInv <=> Parts
BY DEF TypeInv, TypeOK, KnownInv, Parts, CacheTypes, TaskTypes, LockHeld, TaskKnown

LEMMA InitTypes == Init => TypeInv
<1> SUFFICES ASSUME Init PROVE Parts
  BY TypeParts
<1> USE OAuthAssumption
<1>1. NoRow \in Rows
  BY DEF NoRow, Rows, None
<1>2. CacheTypes /\ TaskTypes /\ LockHeld /\ Known(row)
  BY <1>1 DEF Init, CacheTypes, TaskTypes, LockHeld, Known, Places, Locked, None, Tasks
<1>3. \A t \in Tasks : TaskKnown(t)
  BY DEF Init, TaskKnown, Busy, Refreshing, Reporting
<1>4. /\ flow \in 0..MaxTokens /\ flow <= minted /\ minted \in 0..MaxTokens
      /\ stale \in 0..minted /\ chosen \in 0..MaxTokens /\ notes \in 0..MaxNotes
      /\ extra \in 0..MaxNotes /\ faults \in 0..MaxFaults /\ hit \in BOOLEAN
      /\ dormant \in BOOLEAN
  <2>1. /\ flow = 0 /\ minted = 0 /\ stale = 0 /\ chosen = 0 /\ notes = 0
        /\ extra = 0 /\ faults = 0
    BY DEF Init, None
  <2>2. MaxTokens \in Nat /\ MaxNotes \in Nat /\ MaxFaults \in Nat
    BY DEF OAuthAssumption
  <2>3. hit \in BOOLEAN /\ dormant \in BOOLEAN
    BY DEF Init
  <2> QED BY <2>1, <2>2, <2>3
<1>5. /\ live \in [Tokens -> 0..MaxTokens] /\ \A g \in Tokens : live[g] <= minted
      /\ told \in [Tokens -> Nat] /\ slips \in [Tokens -> Nat]
  BY DEF Init, None
<1> HIDE DEF Known
<1> QED BY <1>1, <1>2, <1>3, <1>4, <1>5 DEF Init, Parts

(* A task comes to rest, or returns a token to its turn.                   *)
LEMMA EndsIs ==
  ASSUME TypeInv, NEW t \in Tasks, Ends(t)
  PROVE  TaskTypes' /\ Others(t) /\ at'[t] = "idle"
<1>1. NoRow \in Rows
  BY OAuthAssumption DEF NoRow, Rows, None
<1> QED BY <1>1, OAuthAssumption DEF TypeInv, TypeOK, Ends, Goto, Takes, TaskTypes,
           Others, Same, Places, None

LEMMA ReturnsIs ==
  ASSUME TypeInv, NEW t \in Tasks, NEW r \in Rows, Returns(t, r),
         lock = t \/ lock = NoTask
  PROVE  /\ TaskTypes' /\ Others(t) /\ at'[t] \in {"idle", "holding"}
         /\ lock' = NoTask /\ LockHeld' /\ TaskKnown(t)'
<1>1. TaskTypes' /\ Others(t) /\ at'[t] \in {"idle", "holding"}
  <2>1. CASE Ends(t)
    BY <2>1, EndsIs
  <2>2. CASE ~Ends(t)
    BY <2>2, OAuthAssumption DEF Returns, TypeInv, TypeOK, Goto, Takes, TaskTypes,
       Others, Same, Places, None
  <2> QED BY <2>1, <2>2
<1>2. lock' = NoTask
  BY DEF Returns
<1>3. LockHeld'
  BY <1>1, <1>2, OAuthAssumption DEF TypeInv, TypeOK, Locked, LockHeld, Others, Same, Tasks
<1>4. TaskKnown(t)'
  BY <1>1 DEF TaskKnown, Busy, Refreshing, Reporting
<1> QED BY <1>1, <1>2, <1>3, <1>4

LEMMA CachesIs ==
  ASSUME TypeInv, NEW w, NEW r \in Rows \cup {Unset}, r = Unset \/ Known(r),
         Caches(w, r), minted' >= minted, minted' \in Nat
  PROVE  CacheTypes'
<1>1. cache' \in [Readers -> Rows \cup {Unset}]
  BY DEF Caches, TypeInv, TypeOK
<1>2. \A v \in Readers : cache'[v] = cache[v] \/ cache'[v] = r
  BY DEF Caches, TypeInv, TypeOK
<1>3. minted \in Nat
  BY DEF TypeInv, TypeOK
<1>4. Issued \subseteq Issued'
  BY <1>3 DEF Issued
<1>5. \A q : Known(q) => Known(q)'
  BY <1>4 DEF Known
<1> QED BY <1>1, <1>2, <1>5 DEF CacheTypes, TypeInv, KnownInv

LEMMA KnownStays ==
  ASSUME TypeInv, minted' \in Nat, minted' >= minted
  PROVE  Issued \subseteq Issued' /\ \A r : Known(r) => Known(r)'
<1>1. minted \in Nat
  BY DEF TypeInv, TypeOK
<1>2. Issued \subseteq Issued'
  BY <1>1 DEF Issued
<1> QED BY <1>2 DEF Known
LEMMA CacheStays ==
  ASSUME TypeInv, UNCHANGED cache, minted' \in Nat, minted' >= minted
  PROVE  CacheTypes'
BY KnownStays DEF TypeInv, TypeOK, KnownInv, CacheTypes
(* One task goes on, the others stay where they are.                       *)
LEMMA OneTask ==
  ASSUME TypeInv, NEW t \in Tasks, Others(t), TaskKnown(t)',
         minted' \in Nat, minted' >= minted
  PROVE  \A u \in Tasks : TaskKnown(u)'
<1> SUFFICES ASSUME NEW u \in Tasks \ {t} PROVE TaskKnown(u)'
  OBVIOUS
<1>1. Same(u)
  BY DEF Others
<1> QED BY <1>1, KnownStays DEF TypeInv, KnownInv, TaskKnown, Same
LEMMA TasksStay ==
  ASSUME TypeInv, UNCHANGED <<at, tok, posted, meta, refusal, lock>>,
         minted' \in Nat, minted' >= minted
  PROVE  TaskTypes' /\ LockHeld' /\ \A u \in Tasks : TaskKnown(u)'
<1>1. TaskTypes' /\ LockHeld'
  BY DEF TypeInv, TypeOK, TaskTypes, LockHeld
<1>2. \A u \in Tasks : TaskKnown(u)'
  BY KnownStays DEF TypeInv, KnownInv, TaskKnown
<1> QED BY <1>1, <1>2
(* The lock when a task goes on outside of it, gets it, or leaves it.      *)
LEMMA LockStays ==
  ASSUME TypeInv, NEW t \in Tasks, Others(t), lock' = lock,
         at[t] \in Locked <=> at'[t] \in Locked
  PROVE  LockHeld'
<1>1. \A u \in Tasks : at'[u] \in Locked <=> at[u] \in Locked
  BY DEF Others, Same
<1> QED BY <1>1 DEF TypeInv, TypeOK, LockHeld
LEMMA LockTaken ==
  ASSUME TypeInv, NEW t \in Tasks, Others(t), lock = NoTask, lock' = t, at'[t] \in Locked
  PROVE  LockHeld'
<1>1. \A u \in Tasks : at[u] \notin Locked
  BY OAuthAssumption DEF TypeInv, TypeOK, Tasks
<1> QED BY <1>1 DEF LockHeld, Others, Same
LEMMA LockFreed ==
  ASSUME TypeInv, NEW t \in Tasks, Others(t), lock = t, lock' = NoTask, at'[t] \notin Locked
  PROVE  LockHeld'
<1>1. \A u \in Tasks \ {t} : at[u] \notin Locked
  BY DEF TypeInv, TypeOK
<1> QED BY <1>1, OAuthAssumption DEF LockHeld, Others, Same, Tasks
(* What a step of a task that changes nothing but the task, the lock and   *)
(* the cache leaves alone.                                                 *)
Rest == <<row, extra, flow, minted, stale, live, chosen, notes, hit, dormant, refused,
          replays, lost, told, slips, untold, faults>>
LEMMA RestStays ==
  ASSUME TypeInv, UNCHANGED Rest, CacheTypes', TaskTypes', LockHeld',
         \A u \in Tasks : TaskKnown(u)'
  PROVE  TypeInv'
<1>1. Parts
  BY TypeParts
<1>2. Known(row)'
  BY <1>1 DEF Parts, Rest, Known, Issued
<1>3. Parts'
  BY <1>1, <1>2 DEF Parts, Rest
<1> QED BY <1>3, TypeParts, PTL
(* Steps outside of the lock.                                              *)
LEMMA OutsideTypes ==
  ASSUME TypeInv, NEW t \in Tasks,
         \/ GetValidToken(t) \/ Uses(t) \/ (IsRejected(t) /\ t \in Turns)
         \/ Picks(t) \/ Contended(t)
  PROVE  TypeInv'
<1> USE OAuthAssumption
<1>0. /\ Parts /\ minted \in Nat /\ row \in Rows /\ Known(row)
      /\ tok \in [Tasks -> Rows] /\ at \in [Tasks -> Places] /\ refusal \subseteq Turns
      /\ cache \in [Readers -> Rows \cup {Unset}]
  BY TypeParts DEF Parts, TaskTypes, CacheTypes
<1>1. UNCHANGED Rest /\ lock' = lock /\ minted' = minted
  BY DEF GetValidToken, Uses, IsRejected, Picks, Contended, Rest, store, provider, user,
     ghosts
<1>2. CacheTypes'
  <2>1. CASE GetValidToken(t)
    <3>1. Loaded(Home[t]) \in Rows /\ Known(Loaded(Home[t]))
      BY <1>0 DEF Loaded, Parts, CacheTypes
    <3> QED BY <2>1, <3>1, <1>0, <1>1, CachesIs DEF GetValidToken
  <2>2. CASE UNCHANGED cache
    BY <2>2, <1>0, <1>1, CacheStays
  <2> QED BY <2>1, <2>2 DEF Uses, IsRejected, Picks, Contended
<1>3. TaskTypes' /\ Others(t) /\ at'[t] \notin Busy /\ at[t] \notin Locked
  <2>1. Loaded(Home[t]) \in Rows
    BY <1>0 DEF Loaded
  <2>2. CASE GetValidToken(t)
    <3>1. \/ UNCHANGED <<at, tok>>
          \/ at' = [at EXCEPT ![t] = "locking"] /\ UNCHANGED tok
          \/ at' = [at EXCEPT ![t] = "holding"]
             /\ tok' = [tok EXCEPT ![t] = Loaded(Home[t])]
      BY <2>2 DEF GetValidToken, Goto, Takes
    <3>2. at[t] = "idle" /\ UNCHANGED <<posted, meta, refusal>>
      BY <2>2 DEF GetValidToken
    <3> HIDE DEF Loaded
    <3> QED BY <1>0, <2>1, <3>1, <3>2 DEF Parts, TaskTypes, Others, Same, Busy,
               Refreshing, Reporting, Locked, Places
  <2>3. CASE Uses(t) \/ Contended(t)
    <3>1. Ends(t) /\ at[t] \in {"holding", "locking"}
      BY <2>3 DEF Uses, Contended
    <3> QED BY <3>1, EndsIs DEF Busy, Refreshing, Reporting, Locked
  <2>4. CASE IsRejected(t) /\ t \in Turns
    BY <2>4, <1>0 DEF IsRejected, Goto, Parts, TaskTypes, Others, Same, Busy,
       Refreshing, Reporting, Locked, Places
  <2>5. CASE Picks(t)
    BY <2>5, <1>0 DEF Picks, Goto, Parts, TaskTypes, Others, Same, Busy,
       Refreshing, Reporting, Locked, Places
  <2> QED BY <2>2, <2>3, <2>4, <2>5
<1>4. LockHeld'
  BY <1>1, <1>3, LockStays DEF Busy, Refreshing, Reporting, Locked
<1>5. \A u \in Tasks : TaskKnown(u)'
  BY <1>0, <1>1, <1>3, OneTask DEF TaskKnown, Busy, Refreshing
<1> QED BY <1>1, <1>2, <1>3, <1>4, <1>5, RestStays

LEMMA LockTypes ==
  ASSUME TypeInv, NEW t \in Tasks, Lock(t)
  PROVE  TypeInv'
<1> USE OAuthAssumption
<1>0. /\ Parts /\ minted \in Nat /\ row \in Rows /\ Known(row) /\ lock = NoTask
  BY TypeParts DEF Parts, Lock
<1>1. UNCHANGED Rest /\ minted' = minted
  BY DEF Lock, Rest, store, provider, user, ghosts
<1>2. CacheTypes'
  BY <1>0, <1>1, CachesIs DEF Lock
<1>3. CASE Returns(t, row)
  <2>1. /\ TaskTypes' /\ Others(t) /\ LockHeld' /\ TaskKnown(t)'
    BY <1>0, <1>3, ReturnsIs
  <2> QED BY <1>0, <1>1, <1>2, <2>1, OneTask, RestStays
<1>4. CASE row # NoRow /\ lock' = t /\ Takes(t, row) /\ Goto(t, "posting")
           /\ posted' = [posted EXCEPT ![t] = row.refresh]
           /\ UNCHANGED <<meta, refusal>>
  <2>1. row.refresh \in 0..MaxTokens /\ row.refresh \in Issued /\ row.grant \in Issued
    BY <1>0, <1>4 DEF Known, Rows
  <2>2. TaskTypes' /\ Others(t)
    BY <1>0, <1>4, <2>1 DEF Parts, TaskTypes, Takes, Goto, Others, Same, Places, Locked
  <2>3. at'[t] = "posting" /\ tok'[t] = row /\ posted'[t] = row.refresh
    BY <1>0, <1>4 DEF Parts, TaskTypes, Takes, Goto
  <2>4. LockHeld'
    BY <1>0, <1>4, <2>2, <2>3, LockTaken DEF Locked
  <2>5. TaskKnown(t)'
    BY <1>1, <2>1, <2>3 DEF TaskKnown, Issued
  <2> QED BY <1>0, <1>1, <1>2, <2>2, <2>4, <2>5, OneTask, RestStays
<1> QED BY <1>3, <1>4 DEF Lock, Decides

(* The grant of a task that works is a token, and `tok` a row.             *)
LEMMA WorksWith ==
  ASSUME TypeInv, NEW t \in Tasks, at[t] \in Locked
  PROVE  /\ lock = t /\ tok[t] \in Rows /\ tok[t].grant \in Issued
         /\ Issued \subseteq Tokens
BY OAuthAssumption DEF TypeInv, TypeOK, KnownInv, Locked, Busy, Refreshing, Reporting,
   Issued, Tokens

LEMMA IssueIs ==
  ASSUME TypeInv, NEW t \in Tasks, NEW rotate \in BOOLEAN, Issues(t, rotate)
  PROVE  /\ minted' = minted + 1 /\ minted' \in 0..MaxTokens /\ minted' \in Issued'
         /\ minted' \in Nat /\ minted' >= minted /\ stale' = stale /\ stale \in 0..minted'
         /\ live' \in [Tokens -> 0..MaxTokens] /\ \A g \in Tokens : live'[g] <= minted'
<1>1. /\ minted \in 0..MaxTokens /\ stale \in 0..minted /\ MaxTokens \in Nat
      /\ live \in [Tokens -> 0..MaxTokens] /\ \A g \in Tokens : live[g] <= minted
  BY OAuthAssumption DEF TypeInv, TypeOK, KnownInv
<1>2. /\ minted < MaxTokens /\ minted' = minted + 1 /\ stale' = stale
      /\ live' = live \/ live' = [live EXCEPT ![tok[t].grant] = minted']
  BY DEF Issues, Mint
<1>3. minted' \in 0..MaxTokens /\ minted' \in Nat /\ minted' >= minted
  BY <1>1, <1>2
<1>4. /\ live' \in [Tokens -> 0..MaxTokens] /\ \A g \in Tokens : live'[g] <= minted'
  BY <1>1, <1>2, <1>3
<1>5. minted' \in Issued' /\ stale \in 0..minted'
  BY <1>1, <1>2, <1>3 DEF Issued
<1> QED BY <1>2, <1>3, <1>4, <1>5

LEMMA PostTypes ==
  ASSUME TypeInv, NEW t \in Tasks,
         PostAccepted(t) \/ PostRefused(t) \/ PostFails(t) \/ AnswerLost(t)
  PROVE  TypeInv'
<1> USE OAuthAssumption
<1>0. /\ Parts /\ minted \in Nat /\ at[t] = "posting" /\ at[t] \in Locked
      /\ tok[t].grant \in Issued /\ Issued \subseteq Tokens /\ lock = t
      /\ tok[t] \in Rows /\ tok[t].refresh \in Issued /\ posted[t] \in Issued
  <2>1. at[t] = "posting"
    BY DEF PostAccepted, PostRefused, PostFails, AnswerLost, Issues
  <2> QED BY <2>1, WorksWith, TypeParts DEF Parts, TypeInv, TypeOK, KnownInv, Refreshing, Locked
<1>1. NoRow \in Rows /\ Known(NoRow)
  BY DEF NoRow, Rows, None, Known
<1>a. CASE PostAccepted(t)
  <2>1. PICK rotate \in BOOLEAN :
          /\ Issues(t, rotate)
          /\ tok' = [tok EXCEPT ![t].access = minted',
                                ![t].refresh = IF rotate THEN minted' ELSE @]
    BY <1>a DEF PostAccepted
  <2>2. /\ minted' = minted + 1 /\ minted' \in 0..MaxTokens /\ minted' \in Issued'
        /\ minted' \in Nat /\ minted' >= minted /\ stale' = stale /\ stale \in 0..minted'
        /\ live' \in [Tokens -> 0..MaxTokens] /\ \A g \in Tokens : live'[g] <= minted'
    BY <2>1, IssueIs
  <2>3. /\ at' = [at EXCEPT ![t] = "rereading"]
        /\ UNCHANGED <<store, lock, posted, meta, refusal, flow, user, ghosts, faults>>
    BY <1>a DEF PostAccepted, Goto
  <2>4. CacheTypes'
    BY <1>a, <2>2, CachesIs DEF PostAccepted
  <2>5. /\ tok'[t].grant = tok[t].grant /\ tok'[t] \in Rows
        /\ tok'[t].refresh = minted' \/ tok'[t].refresh = tok[t].refresh
        /\ tok' \in [Tasks -> Rows] /\ \A u \in Tasks \ {t} : tok'[u] = tok[u]
    <3>1. tok \in [Tasks -> Rows]
      BY <1>0 DEF Parts, TaskTypes
    <3> QED BY <2>1, <2>2, <3>1 DEF Rows
  <2>6. TaskTypes' /\ Others(t) /\ at'[t] = "rereading"
    BY <1>0, <2>3, <2>5 DEF Parts, TaskTypes, Others, Same, Places, Locked
  <2>7. LockHeld'
    BY <1>0, <2>3, <2>6, LockStays DEF Locked
  <2>8. Issued \subseteq Issued' /\ Known(row)'
    <3>1. Issued \subseteq Issued' /\ \A r : Known(r) => Known(r)'
      BY <2>2, KnownStays
    <3> QED BY <1>0, <2>3, <3>1 DEF Parts, store, Known
  <2>9. TaskKnown(t)'
    BY <1>0, <2>2, <2>3, <2>5, <2>6, <2>8 DEF TaskKnown
  <2>10. \A u \in Tasks : TaskKnown(u)'
    BY <2>2, <2>6, <2>9, OneTask
  <2>11. flow <= minted'
    BY <1>0, <2>2 DEF Parts
  <2>12. Parts'
    BY <1>0, <2>2, <2>3, <2>4, <2>6, <2>7, <2>8, <2>10, <2>11
       DEF Parts, store, user, ghosts
  <2> QED BY <2>12, TypeParts, PTL
<1>b. CASE AnswerLost(t)
  <2>1. /\ Issues(t, TRUE) /\ lost' = lost \cup {tok[t].grant} /\ Returns(t, NoRow)
        /\ faults < MaxFaults /\ faults' = faults + 1
        /\ UNCHANGED <<store, cache, flow, user, refused, replays, told, slips, untold>>
    BY <1>b DEF AnswerLost, Fault, Raises
  <2>2. /\ minted' = minted + 1 /\ minted' \in 0..MaxTokens /\ minted' \in Issued'
        /\ minted' \in Nat /\ minted' >= minted /\ stale' = stale /\ stale \in 0..minted'
        /\ live' \in [Tokens -> 0..MaxTokens] /\ \A g \in Tokens : live'[g] <= minted'
    BY <2>1, IssueIs
  <2>3. CacheTypes'
    BY <2>1, <2>2, CacheStays
  <2>4. TaskTypes' /\ Others(t) /\ LockHeld' /\ TaskKnown(t)'
    BY <1>0, <1>1, <2>1, ReturnsIs
  <2>5. \A u \in Tasks : TaskKnown(u)'
    BY <2>2, <2>4, OneTask
  <2>6. Known(row)'
    <3>1. \A r : Known(r) => Known(r)'
      BY <2>2, KnownStays
    <3> QED BY <1>0, <2>1, <3>1 DEF Parts, store, Known
  <2>7. faults' \in 0..MaxFaults /\ flow <= minted'
    BY <1>0, <2>1, <2>2 DEF Parts
  <2>8. Parts'
    BY <1>0, <2>1, <2>2, <2>3, <2>4, <2>5, <2>6, <2>7 DEF Parts, store, user
  <2> QED BY <2>8, TypeParts, PTL
<1>c. CASE PostFails(t)
  <2>1. Returns(t, NoRow) /\ UNCHANGED Rest /\ UNCHANGED cache
    BY <1>c DEF PostFails, Raises, Rest, store, provider, user, ghosts
  <2>2. minted' = minted
    BY <2>1 DEF Rest
  <2>3. TaskTypes' /\ Others(t) /\ LockHeld' /\ TaskKnown(t)'
    BY <1>0, <1>1, <2>1, ReturnsIs
  <2> QED BY <1>0, <2>1, <2>2, <2>3, CacheStays, OneTask, RestStays
<1>d. CASE PostRefused(t)
  <2>1. /\ refused' = refused \cup {tok[t].grant}
        /\ replays' = replays \/ replays' = replays \cup {tok[t].grant}
        /\ at' = [at EXCEPT ![t] = "retiring"]
        /\ tok' = [tok EXCEPT ![t] = [NoRow EXCEPT !.grant = tok[t].grant]]
        /\ posted' = [posted EXCEPT ![t] = None]
        /\ UNCHANGED <<store, lock, cache, meta, refusal, flow, provider, user, lost,
                       told, slips, untold, faults>>
    BY <1>d DEF PostRefused, Goto, Takes
  <2>2. /\ [NoRow EXCEPT !.grant = tok[t].grant] \in Rows
        /\ [NoRow EXCEPT !.grant = tok[t].grant].grant = tok[t].grant
    BY <1>0 DEF NoRow, Rows, None
  <2>3. TaskTypes' /\ Others(t) /\ at'[t] = "retiring"
    BY <1>0, <2>1, <2>2 DEF Parts, TaskTypes, Others, Same, Places, Locked, None
  <2>4. tok'[t].grant = tok[t].grant
    BY <1>0, <2>1, <2>2 DEF Parts, TaskTypes
  <2>5. minted' = minted
    BY <2>1 DEF provider
  <2>6. LockHeld'
    BY <1>0, <2>1, <2>3, LockStays DEF Locked
  <2>7. TaskKnown(t)'
    BY <1>0, <2>3, <2>4, <2>5 DEF TaskKnown, Issued, Refreshing
  <2>8. /\ CacheTypes' /\ \A u \in Tasks : TaskKnown(u)'
    BY <1>0, <2>1, <2>3, <2>5, <2>7, CacheStays, OneTask
  <2>9. Known(row)'
    BY <1>0, <2>1, <2>5 DEF Parts, store, Known, Issued
  <2>10. Parts'
    BY <1>0, <2>1, <2>3, <2>6, <2>8, <2>9 DEF Parts, store, provider, user
  <2> QED BY <2>10, TypeParts, PTL
<1> QED BY <1>a, <1>b, <1>c, <1>d

LEMMA SaveTypes ==
  ASSUME TypeInv, NEW t \in Tasks, Reread(t) \/ Save(t) \/ SaveFails(t)
  PROVE  TypeInv'
<1> USE OAuthAssumption
<1>0. /\ Parts /\ minted \in Nat /\ at[t] \in {"rereading", "saving"} /\ at[t] \in Locked
      /\ tok[t].grant \in Issued /\ Issued \subseteq Tokens /\ lock = t
      /\ tok[t] \in Rows /\ tok[t].refresh \in Issued /\ row \in Rows /\ Known(row)
  <2>1. at[t] \in {"rereading", "saving"}
    BY DEF Reread, Save, SaveFails
  <2> QED BY <2>1, WorksWith, TypeParts DEF Parts, TypeInv, TypeOK, KnownInv, Refreshing, Locked
<1>1. NoRow \in Rows /\ Known(NoRow) /\ Known(tok[t])
  BY <1>0 DEF NoRow, Rows, None, Known
<1>a. CASE Reread(t)
  <2>1. UNCHANGED Rest /\ minted' = minted
    BY <1>a DEF Reread, Rest, store, provider, user, ghosts
  <2>2. CacheTypes'
    BY <1>0, <1>a, <2>1, CachesIs DEF Reread
  <2>3. CASE Returns(t, row)
    <3>1. /\ TaskTypes' /\ Others(t) /\ LockHeld' /\ TaskKnown(t)'
      BY <1>0, <2>3, ReturnsIs
    <3> QED BY <1>0, <2>1, <2>2, <3>1, OneTask, RestStays
  <2>4. CASE /\ meta' = [meta EXCEPT ![t] = extra] /\ Goto(t, "saving")
             /\ posted' = [posted EXCEPT ![t] = None] /\ UNCHANGED <<lock, tok, refusal>>
    <3>1. TaskTypes' /\ Others(t) /\ at'[t] = "saving"
      BY <1>0, <2>4 DEF Parts, TaskTypes, Goto, Others, Same, Places, Locked, None
    <3>2. LockHeld'
      BY <1>0, <2>4, <3>1, LockStays DEF Locked
    <3>3. TaskKnown(t)'
      BY <1>0, <2>1, <2>4, <3>1 DEF TaskKnown, Issued
    <3> QED BY <1>0, <2>1, <2>2, <3>1, <3>2, <3>3, OneTask, RestStays
  <2> QED BY <1>a, <2>3, <2>4 DEF Reread
<1>b. CASE Save(t)
  <2>1. /\ row' = tok[t] /\ extra' = meta[t] /\ Returns(t, tok[t])
        /\ UNCHANGED <<flow, provider, user, ghosts, faults>>
    BY <1>b DEF Save
  <2>2. minted' = minted
    BY <2>1 DEF provider
  <2>3. CacheTypes'
    BY <1>0, <1>b, <2>2, CachesIs DEF Save
  <2>4. /\ TaskTypes' /\ Others(t) /\ LockHeld' /\ TaskKnown(t)'
    BY <1>0, <2>1, ReturnsIs
  <2>5. \A u \in Tasks : TaskKnown(u)'
    BY <1>0, <2>2, <2>4, OneTask
  <2>6. extra' \in 0..MaxNotes /\ row' \in Rows /\ Known(row)'
    BY <1>0, <1>1, <2>1, <2>2 DEF Parts, TaskTypes, Known, Issued
  <2>7. Parts'
    BY <1>0, <2>1, <2>3, <2>4, <2>5, <2>6 DEF Parts, provider, user, ghosts
  <2> QED BY <2>7, TypeParts, PTL
<1>c. CASE SaveFails(t)
  <2>1. /\ lost' = lost \cup {tok[t].grant} /\ Returns(t, NoRow)
        /\ faults < MaxFaults /\ faults' = faults + 1
        /\ UNCHANGED <<store, cache, flow, provider, user, refused, replays, told,
                       slips, untold>>
    BY <1>c DEF SaveFails, Fault, Raises
  <2>2. minted' = minted
    BY <2>1 DEF provider
  <2>3. CacheTypes'
    BY <1>0, <2>1, <2>2, CacheStays
  <2>4. /\ TaskTypes' /\ Others(t) /\ LockHeld' /\ TaskKnown(t)'
    BY <1>0, <1>1, <2>1, ReturnsIs
  <2>5. \A u \in Tasks : TaskKnown(u)'
    BY <1>0, <2>2, <2>4, OneTask
  <2>6. faults' \in 0..MaxFaults /\ Known(row)'
    BY <1>0, <2>1, <2>2 DEF Parts, store, Known, Issued
  <2>7. Parts'
    BY <1>0, <2>1, <2>3, <2>4, <2>5, <2>6 DEF Parts, store, provider, user
  <2> QED BY <2>7, TypeParts, PTL
<1> QED BY <1>a, <1>b, <1>c

LEMMA DeletesIs ==
  ASSUME TypeInv, NEW t, Deletes(t), minted' = minted
  PROVE  row' = NoRow /\ row' \in Rows /\ Known(row)' /\ extra' \in 0..MaxNotes /\ CacheTypes'
<1>1. minted \in Nat
  BY DEF TypeInv, TypeOK
<1> QED BY <1>1, OAuthAssumption, CachesIs DEF Deletes, NoRow, Rows, None, Known

LEMMA ReportTypes ==
  ASSUME TypeInv, NEW t \in Tasks, Retire(t) \/ Handle(t) \/ Notify(t)
  PROVE  TypeInv'
<1> USE OAuthAssumption
<1>0. /\ Parts /\ minted \in Nat /\ at[t] \in Reporting /\ tok[t].grant \in Tokens
      /\ tok[t].grant \in Issued /\ faults \in 0..MaxFaults
  <2>1. at[t] \in Reporting
    BY DEF Retire, Handle, Notify, Reporting
  <2>2. /\ Parts /\ minted \in 0..MaxTokens /\ MaxTokens \in Nat /\ faults \in 0..MaxFaults
        /\ TaskKnown(t)
    BY TypeParts DEF Parts
  <2>3. tok[t].grant \in Issued
    BY <2>1, <2>2 DEF TaskKnown, Busy
  <2> QED BY <2>1, <2>2, <2>3 DEF Issued, Tokens
<1>a. CASE Retire(t) \/ Handle(t)
  <2>1. /\ at[t] \in {"retiring", "handling"}
        /\ at' = [at EXCEPT ![t] = "handling"] \/ at' = [at EXCEPT ![t] = "notifying"]
        /\ \/ Retire(t) /\ at[t] = "retiring" /\ lock' = NoTask
           \/ Handle(t) /\ at[t] = "handling" /\ lock' = lock
        /\ UNCHANGED <<tok, posted, meta, refusal, flow, provider, user, refused,
                       replays, lost, told, untold>>
        /\ minted' = minted
    BY <1>a DEF Retire, Handle, Goto, provider, ghosts
  <2>2. TaskTypes' /\ Others(t) /\ at'[t] \in {"handling", "notifying"}
    BY <1>0, <2>1 DEF Parts, TaskTypes, Others, Same, Places
  <2>3. LockHeld'
    BY <1>0, <2>1, <2>2, WorksWith, LockFreed, LockStays DEF Locked
  <2>4. TaskKnown(t)'
    BY <1>0, <2>1, <2>2 DEF TaskKnown, Issued, Refreshing
  <2>5. \A u \in Tasks : TaskKnown(u)'
    BY <1>0, <2>1, <2>2, <2>4, OneTask
  <2>6. Deletes(t) \/ UNCHANGED <<store, cache>>
    BY <1>a DEF Retire, Handle
  <2>7. row' \in Rows /\ Known(row)' /\ extra' \in 0..MaxNotes /\ CacheTypes'
    <3>1. CASE UNCHANGED <<store, cache>>
      BY <1>0, <2>1, <3>1, CacheStays DEF Parts, store, Known, Issued
    <3> QED BY <2>1, <2>6, <3>1, DeletesIs
  <2>8. faults' \in 0..MaxFaults
    BY <1>0, <1>a DEF Retire, Handle, Fault
  <2>9. slips' \in [Tokens -> Nat]
    BY <1>0, <1>a DEF Retire, Handle, ghosts, Parts
  <2>10. Parts'
    BY <1>0, <2>1, <2>2, <2>3, <2>5, <2>7, <2>8, <2>9 DEF Parts, provider, user
  <2> QED BY <2>10, TypeParts, PTL
<1>b. CASE Notify(t)
  <2>1. /\ at[t] = "notifying" /\ Ends(t) /\ minted' = minted
        /\ UNCHANGED <<store, lock, cache, flow, provider, user, refused, replays,
                       lost, slips>>
    BY <1>b DEF Notify, provider
  <2>2. TaskTypes' /\ Others(t) /\ at'[t] = "idle"
    BY <2>1, EndsIs
  <2>3. LockHeld'
    BY <2>1, <2>2, LockStays DEF Locked
  <2>4. \A u \in Tasks : TaskKnown(u)'
    BY <1>0, <2>1, <2>2, OneTask DEF TaskKnown, Busy, Refreshing, Reporting
  <2>5. CacheTypes' /\ Known(row)'
    BY <1>0, <2>1, CacheStays DEF Parts, store, Known, Issued
  <2>6. told' \in [Tokens -> Nat] /\ untold' \subseteq Tokens
    BY <1>0, <1>b DEF Notify, Parts
  <2>7. faults' \in 0..MaxFaults
    BY <1>0, <1>b DEF Notify, Fault
  <2>8. Parts'
    BY <1>0, <2>1, <2>2, <2>3, <2>4, <2>5, <2>6, <2>7 DEF Parts, store, provider, user
  <2> QED BY <2>8, TypeParts, PTL
<1> QED BY <1>a, <1>b

(* Some tasks end where they are.                                          *)
LEMMA DropTypes ==
  ASSUME TypeInv, NEW dropped \in SUBSET Tasks, Drop(dropped), CacheTypes',
         flow' \in {flow, None}
  PROVE  TypeInv'
<1> USE OAuthAssumption
<1>0. /\ Parts /\ minted \in Nat /\ faults \in 0..MaxFaults /\ NoRow \in Rows
      /\ flow \in 0..MaxTokens /\ flow <= minted
  BY TypeParts DEF Parts, NoRow, Rows, None
<1>1. /\ minted' = minted /\ faults < MaxFaults /\ faults' = faults + 1
      /\ UNCHANGED <<store, provider, user, refused, replays, told, slips>>
  BY DEF Drop, Fault, provider
<1>2. /\ TaskTypes'
      /\ \A u \in Tasks : \/ u \in dropped /\ at'[u] = "idle"
                          \/ u \notin dropped /\ Same(u)
  BY <1>0 DEF Drop, Parts, TaskTypes, Same, Places, None
<1>3. \A u \in Tasks : TaskKnown(u)'
  BY <1>0, <1>1, <1>2 DEF Parts, TaskKnown, Same, Busy, Refreshing, Reporting, Issued
<1>4. lock' = IF lock \in dropped THEN NoTask ELSE lock
  BY DEF Drop
<1>5. LockHeld'
  BY <1>0, <1>2, <1>4 DEF Parts, LockHeld, Same, Locked, Tasks
<1>6. GrantsAt(dropped, {"rereading", "saving"}) \subseteq Tokens
      /\ GrantsAt(dropped, {"retiring", "handling", "notifying"}) \subseteq Tokens
  BY <1>0 DEF GrantsAt, Parts, TaskKnown, Busy, Refreshing, Reporting, Issued, Tokens
<1>7. lost' \subseteq Tokens /\ untold' \subseteq Tokens
  BY <1>0, <1>6 DEF Drop, Parts
<1>8. Known(row)' /\ faults' \in 0..MaxFaults /\ flow' \in 0..MaxTokens /\ flow' <= minted
  BY <1>0, <1>1 DEF Parts, store, Known, Issued, None
<1>9. Parts'
  BY <1>0, <1>1, <1>2, <1>3, <1>5, <1>7, <1>8 DEF Parts, store, provider, user
<1> QED BY <1>9, TypeParts, PTL

LEMMA OneCell ==
  ASSUME MaxTokens \in Nat, NEW m \in 0..MaxTokens, NEW n \in 0..m,
         NEW f \in [Tokens -> 0..MaxTokens], \A k \in Tokens : f[k] <= m,
         NEW c, NEW g, g = [f EXCEPT ![c] = n]
  PROVE  g \in [Tokens -> 0..MaxTokens] /\ \A k \in Tokens : g[k] <= m
<1>1. n \in 0..MaxTokens /\ n <= m
  OBVIOUS
<1>2. \A k \in Tokens : g[k] = f[k] \/ g[k] = n
  OBVIOUS
<1>3. g \in [Tokens -> 0..MaxTokens]
  BY <1>1
<1> QED BY <1>1, <1>2, <1>3

LEMMA UserTypes ==
  ASSUME TypeInv,
         \/ Expires \/ Revoke \/ Callback \/ WriteExtra \/ FallsSilent \/ ComesBack
         \/ \E w \in Workers : Connect(w) \/ Disconnect(w) \/ CacheExpires(w)
  PROVE  TypeInv'
<1> USE OAuthAssumption
<1>0. /\ Parts /\ minted \in 0..MaxTokens /\ stale \in 0..minted /\ MaxTokens \in Nat
      /\ flow \in 0..MaxTokens /\ flow <= minted /\ notes \in 0..MaxNotes
      /\ live \in [Tokens -> 0..MaxTokens] /\ \A g \in Tokens : live[g] <= minted
      /\ NoRow \in Rows /\ Known(NoRow) /\ row \in Rows /\ Known(row)
  BY TypeParts DEF Parts, NoRow, Rows, None, Known
<1>1. UNCHANGED <<at, tok, posted, meta, refusal, lock>>
  BY DEF Expires, Revoke, Callback, WriteExtra, FallsSilent, ComesBack, Connect, Disconnect,
     CacheExpires, tasks
<1>2. minted' \in Nat /\ minted' >= minted /\ minted' \in 0..MaxTokens
  BY <1>0 DEF Expires, Revoke, Callback, WriteExtra, FallsSilent, ComesBack, Connect,
     Disconnect, CacheExpires, Mint, provider
<1>3. TaskTypes' /\ LockHeld' /\ \A u \in Tasks : TaskKnown(u)'
  BY <1>1, <1>2, TasksStay
<1>4. CacheTypes'
  <2>1. CASE UNCHANGED cache
    BY <1>2, <2>1, CacheStays
  <2>2. CASE \E w \in Workers : Caches(w, Unset)
    BY <1>2, <2>2, CachesIs
  <2> QED BY <2>1, <2>2 DEF Expires, Revoke, Callback, WriteExtra, FallsSilent,
             ComesBack, Connect, Disconnect, CacheExpires
<1>5. row' \in Rows /\ Known(row)' /\ extra' \in 0..MaxNotes /\ hit' \in BOOLEAN
      /\ dormant' \in BOOLEAN /\ chosen' \in 0..MaxTokens /\ notes' \in 0..MaxNotes
  <2>0. dormant' \in BOOLEAN
    BY <1>0 DEF Parts, Expires, Revoke, Callback, WriteExtra, FallsSilent, ComesBack,
       Connect, Disconnect, CacheExpires, user
  <2>1. \A r : Known(r) => Known(r)'
    BY <1>2, KnownStays
  <2>2. ASSUME NEW w \in Workers, Connect(w)
        PROVE  /\ row' = [grant |-> flow, access |-> flow, refresh |-> flow]
               /\ flow \in Issued /\ extra' = 0 /\ chosen' = flow /\ notes' = 0
               /\ hit' = InWindow
    BY <1>0, <2>2 DEF Connect, Issued, None
  <2>3. CASE \E w \in Workers : Connect(w)
    <3>1. row' \in Rows /\ Known(row') /\ extra' \in 0..MaxNotes
          /\ chosen' \in 0..MaxTokens /\ notes' \in 0..MaxNotes
      BY <1>0, <2>2, <2>3 DEF Rows, Known
    <3>2. hit' \in BOOLEAN
      BY <2>2, <2>3 DEF InWindow
    <3>3. Known(row)'
      BY <2>1, <3>1 DEF Known
    <3> QED BY <2>0, <3>1, <3>2, <3>3
  <2>4. CASE \E w \in Workers : Disconnect(w)
    <3>1. row' = NoRow /\ extra' = 0 /\ chosen' = 0 /\ notes' = 0 /\ hit' = InWindow
      BY <2>4 DEF Disconnect, None
    <3>2. Known(row)' /\ hit' \in BOOLEAN
      BY <3>1 DEF Known, InWindow
    <3> QED BY <1>0, <2>0, <3>1, <3>2
  <2>5. CASE WriteExtra
    <3>1. /\ extra' = notes + 1 /\ notes' = notes + 1 /\ notes < MaxNotes
          /\ UNCHANGED <<row, chosen>> /\ hit' = (hit \/ InWindow)
      BY <2>5 DEF WriteExtra
    <3>2. hit' \in BOOLEAN
      BY <3>1 DEF InWindow
    <3>3. Known(row)'
      BY <1>0, <2>1, <3>1 DEF Known
    <3> QED BY <1>0, <2>0, <3>1, <3>2, <3>3 DEF Parts
  <2>6. CASE UNCHANGED <<store, chosen, notes, hit>>
    <3>1. Known(row)'
      BY <1>0, <2>1, <2>6 DEF store, Known
    <3> QED BY <1>0, <2>0, <2>6, <3>1 DEF Parts, store
  <2> QED BY <2>0, <2>3, <2>4, <2>5, <2>6 DEF Expires, Revoke, Callback, FallsSilent,
             ComesBack, CacheExpires, user
<1>6. /\ stale' \in 0..minted' /\ live' \in [Tokens -> 0..MaxTokens]
      /\ \A g \in Tokens : live'[g] <= minted'
      /\ flow' \in 0..MaxTokens /\ flow' <= minted'
  <2>1. CASE Callback
    <3>1. /\ minted' = minted + 1 /\ flow' = minted' /\ stale' = stale
          /\ live' = [live EXCEPT ![minted'] = minted']
      BY <2>1 DEF Callback, Mint
    <3>2. minted' \in 0..minted' /\ \A g \in Tokens : live[g] <= minted'
      BY <1>0, <1>2, <3>1
    <3>3. live' \in [Tokens -> 0..MaxTokens] /\ \A g \in Tokens : live'[g] <= minted'
      BY <1>0, <1>2, <3>1, <3>2, OneCell
    <3> QED BY <1>0, <1>2, <3>1, <3>3
  <2>2. CASE Expires
    <3>1. stale < minted /\ stale' = stale + 1 /\ UNCHANGED <<minted, live, flow>>
      BY <2>2 DEF Expires
    <3> QED BY <1>0, <3>1
  <2>3. CASE Revoke
    <3>1. live' = [live EXCEPT ![chosen] = None] /\ UNCHANGED <<minted, stale, flow>>
      BY <2>3 DEF Revoke
    <3>2. None \in 0..minted
      BY <1>0 DEF None
    <3>3. live' \in [Tokens -> 0..MaxTokens] /\ \A g \in Tokens : live'[g] <= minted
      BY <1>0, <3>1, <3>2, OneCell
    <3> QED BY <1>0, <3>1, <3>3
  <2>4. CASE /\ UNCHANGED provider
             /\ flow' = flow \/ flow' = None
    BY <1>0, <2>4 DEF provider, None
  <2> QED BY <2>1, <2>2, <2>3, <2>4 DEF WriteExtra, FallsSilent, ComesBack, Connect,
             Disconnect, CacheExpires
<1>7. UNCHANGED <<ghosts, faults>>
  BY DEF Expires, Revoke, Callback, WriteExtra, FallsSilent, ComesBack, Connect,
     Disconnect, CacheExpires
<1>8. Parts'
  BY <1>0, <1>2, <1>3, <1>4, <1>5, <1>6, <1>7 DEF Parts, ghosts
<1> QED BY <1>8, TypeParts, PTL

LEMMA NextTypes == TypeInv /\ [Next]_vars => TypeInv'
<1> SUFFICES ASSUME TypeInv, [Next]_vars PROVE TypeInv'
  OBVIOUS
<1>0. minted \in Nat
  BY DEF TypeInv, TypeOK
<1>1. ASSUME NEW t \in Turns, Cancel(t) PROVE TypeInv'
  <2>1. {t} \in SUBSET Tasks /\ Drop({t}) /\ UNCHANGED <<cache, flow>> /\ minted' = minted
    BY <1>1 DEF Cancel, Tasks, Drop, provider
  <2> QED BY <1>0, <2>1, CacheStays, DropTypes
<1>2. ASSUME NEW w \in Workers, Crash(w) PROVE TypeInv'
  <2>1. /\ {t \in Tasks : Home[t] = w} \in SUBSET Tasks
        /\ Drop({t \in Tasks : Home[t] = w})
        /\ Caches(w, Unset) /\ flow' \in {flow, None} /\ minted' = minted
    BY <1>2 DEF Crash, Drop, provider
  <2> QED BY <1>0, <2>1, CachesIs, DropTypes
<1>3. CASE UNCHANGED vars
  <2>1. /\ UNCHANGED Rest /\ minted' = minted
        /\ UNCHANGED <<at, tok, posted, meta, refusal, lock, cache>>
    BY <1>3 DEF vars, Rest, store, tasks, provider, user, ghosts
  <2> QED BY <1>0, <2>1, TasksStay, CacheStays, RestStays
<1> QED BY <1>1, <1>2, <1>3, OutsideTypes, LockTypes, PostTypes, SaveTypes, ReportTypes,
           UserTypes DEF Next, Refreshes, Tasks

(* Types; and at any place of the critical section is the one task that    *)
(* holds the advisory lock, whoever crashes or is cancelled.               *)
THEOREM TypeCorrect == Spec => []TypeOK
<1>1. TypeInv => TypeOK
  BY DEF TypeInv
<1> QED BY InitTypes, NextTypes, <1>1, PTL DEF Spec

-----------------------------------------------------------------------------
(* What the user chose                                                     *)

(* A grant that is not saved yet is known to nobody else.                  *)
FlowInv ==
  flow # None =>
    /\ row.grant # flow /\ row.refresh # flow
    /\ \A t \in Tasks : at[t] \in Busy => tok[t].grant # flow
    /\ \A t \in Tasks : at[t] \in Refreshing => tok[t].refresh # flow
    /\ \A t \in Tasks : at[t] \in {"posting", "rereading"} => posted[t] # flow

(* The row is of the grant that is being refreshed exactly while it holds  *)
(* the refresh token that was posted.                                      *)
PostInv ==
  \A t \in Tasks : at[t] \in {"posting", "rereading"} =>
    (row.refresh = posted[t] <=> row.grant = tok[t].grant)

(* What is about to be saved is what the user chose, unless the change     *)
(* came since the second look.                                             *)
SavingInv ==
  \A t \in Tasks :
    at[t] = "saving" => hit \/ (tok[t].grant = chosen /\ meta[t] = notes)

KeepInv == FlowInv /\ PostInv /\ SavingInv /\ KeepsChoice

LEMMA InitKeeps == Init => KeepInv
BY DEF Init, KeepInv, FlowInv, PostInv, SavingInv, KeepsChoice, Busy, Refreshing,
   Reporting

(* A task stays, leaves the critical section, or goes on to report.        *)
Onward(u) ==
  \/ at'[u] \notin Busy
  \/ Same(u)
  \/ at'[u] \in Reporting /\ at[u] \in Busy /\ tok'[u].grant = tok[u].grant

(* Steps that change nothing but the ways of the tasks, or clear the row.  *)
Quiet ==
  /\ UNCHANGED <<chosen, notes, hit>> /\ flow' \in {flow, None}
  /\ UNCHANGED <<row, extra>> \/ row' = NoRow
  /\ \A u \in Tasks : Onward(u)

Posts(t) ==
  /\ lock = NoTask /\ row # NoRow
  /\ at' = [at EXCEPT ![t] = "posting"] /\ tok' = [tok EXCEPT ![t] = row]
  /\ posted' = [posted EXCEPT ![t] = row.refresh]
  /\ UNCHANGED <<store, meta, flow, provider, user, ghosts>>

Rereads(t) ==
  /\ at[t] = "rereading" /\ row # NoRow /\ row.refresh = posted[t]
  /\ at' = [at EXCEPT ![t] = "saving"] /\ meta' = [meta EXCEPT ![t] = extra]
  /\ posted' = [posted EXCEPT ![t] = None]
  /\ UNCHANGED <<store, tok, flow, provider, user, ghosts>>

LEMMA OthersOnward ==
  ASSUME NEW t \in Tasks, Others(t), at'[t] \notin Busy
  PROVE  \A u \in Tasks : Onward(u)
BY DEF Others, Onward

LEMMA DropOnward ==
  ASSUME NEW dropped, Drop(dropped)
  PROVE  \A u \in Tasks : Onward(u)
BY DEF Drop, Onward, Same, Busy, Refreshing, Reporting

(* The kinds of steps.                                                     *)
LEMMA StepKinds ==
  ASSUME TypeInv, [Next]_vars
  PROVE  \/ Quiet
         \/ \E t \in Tasks : Posts(t) \/ PostAccepted(t) \/ Rereads(t) \/ Save(t)
         \/ Callback \/ WriteExtra
         \/ \E w \in Workers : Connect(w) \/ Disconnect(w)
<1> USE OAuthAssumption
<1>0. /\ at \in [Tasks -> Places] /\ tok \in [Tasks -> Rows] /\ row \in Rows /\ NoRow \in Rows
  BY DEF TypeInv, TypeOK, NoRow, Rows, None
<1>1. ASSUME NEW t \in Tasks, NEW r \in Rows, Returns(t, r), lock = t \/ lock = NoTask
      PROVE  \A u \in Tasks : Onward(u)
  BY <1>1, ReturnsIs, OthersOnward DEF Busy, Refreshing, Reporting
<1>a. ASSUME NEW t \in Turns, GetValidToken(t) PROVE Quiet
  <2>1. /\ UNCHANGED <<store, flow, user>> /\ t \in Tasks
        /\ \/ UNCHANGED <<at, tok>>
           \/ at' = [at EXCEPT ![t] = "locking"] /\ UNCHANGED tok
           \/ at' = [at EXCEPT ![t] = "holding"]
             /\ tok' = [tok EXCEPT ![t] = Loaded(Home[t])]
        /\ UNCHANGED <<posted, meta>>
    BY <1>a DEF GetValidToken, Goto, Takes, Tasks
  <2>2. \A u \in Tasks : Onward(u)
    BY <1>0, <2>1 DEF Onward, Same, Busy, Refreshing, Reporting
  <2> QED BY <2>1, <2>2 DEF Quiet, store, user
<1>b. ASSUME NEW t \in Tasks, Uses(t) \/ Contended(t) \/ Notify(t) PROVE Quiet
  <2>1. Ends(t) /\ UNCHANGED <<store, flow, user>>
    BY <1>b DEF Uses, Contended, Notify
  <2> QED BY <2>1, EndsIs, OthersOnward DEF Quiet, store, user, Busy, Refreshing, Reporting
<1>c. ASSUME NEW t \in Tasks, IsRejected(t) \/ Picks(t) PROVE Quiet
  <2>1. /\ at' = [at EXCEPT ![t] = "locking"]
        /\ UNCHANGED <<store, flow, user, tok, posted, meta>>
    BY <1>c DEF IsRejected, Picks, Goto
  <2>2. \A u \in Tasks : Onward(u)
    BY <1>0, <2>1 DEF Onward, Same, Busy, Refreshing, Reporting
  <2> QED BY <2>1, <2>2 DEF Quiet, store, user
<1>d. ASSUME NEW t \in Tasks, Lock(t) PROVE Quiet \/ Posts(t)
  <2>1. CASE Returns(t, row)
    BY <1>0, <1>1, <1>d, <2>1 DEF Lock, Quiet, store, user
  <2>2. CASE /\ row # NoRow /\ Takes(t, row) /\ Goto(t, "posting")
             /\ posted' = [posted EXCEPT ![t] = row.refresh]
             /\ UNCHANGED <<meta, refusal>>
    BY <1>d, <2>2 DEF Lock, Posts, Takes, Goto
  <2> QED BY <1>d, <2>1, <2>2 DEF Lock, Decides
<1>e. ASSUME NEW t \in Tasks, PostFails(t) \/ AnswerLost(t) \/ SaveFails(t) PROVE Quiet
  <2>1. at[t] \in Locked /\ Returns(t, NoRow) /\ UNCHANGED <<store, flow, user>>
    BY <1>e DEF PostFails, AnswerLost, SaveFails, Raises, Locked, Issues
  <2>2. lock = t
    BY <2>1, WorksWith
  <2> QED BY <1>0, <1>1, <2>1, <2>2 DEF Quiet, store, user
<1>f. ASSUME NEW t \in Tasks, PostRefused(t) PROVE Quiet
  <2>1. /\ at[t] = "posting" /\ at' = [at EXCEPT ![t] = "retiring"]
        /\ tok' = [tok EXCEPT ![t] = [NoRow EXCEPT !.grant = tok[t].grant]]
        /\ posted' = [posted EXCEPT ![t] = None]
        /\ UNCHANGED <<store, flow, user, meta>>
    BY <1>f DEF PostRefused, Goto, Takes
  <2>2. [NoRow EXCEPT !.grant = tok[t].grant].grant = tok[t].grant
    BY DEF NoRow
  <2>3. at'[t] = "retiring" /\ tok'[t].grant = tok[t].grant
    BY <1>0, <2>1, <2>2
  <2>4. Onward(t)
    BY <2>1, <2>3 DEF Onward, Busy, Refreshing, Reporting
  <2>5. \A u \in Tasks \ {t} : Same(u)
    BY <1>0, <2>1 DEF Same, TypeInv, TypeOK
  <2> QED BY <2>1, <2>4, <2>5 DEF Quiet, store, user, Onward
<1>g. ASSUME NEW t \in Tasks, Reread(t) PROVE Quiet \/ Rereads(t)
  <2>1. CASE Returns(t, row)
    <3>1. lock = t
      BY <1>g, WorksWith DEF Reread, Locked
    <3> QED BY <1>0, <1>1, <1>g, <2>1, <3>1 DEF Reread, Quiet, store, user
  <2>2. CASE /\ row # NoRow /\ row.refresh = posted[t]
             /\ meta' = [meta EXCEPT ![t] = extra] /\ Goto(t, "saving")
             /\ posted' = [posted EXCEPT ![t] = None]
             /\ UNCHANGED <<lock, tok, refusal>>
    BY <1>g, <2>2 DEF Reread, Rereads, Goto
  <2> QED BY <1>g, <2>1, <2>2 DEF Reread
<1>h. ASSUME NEW t \in Tasks, Retire(t) \/ Handle(t) PROVE Quiet
  <2>1. /\ at[t] \in Reporting
        /\ at' = [at EXCEPT ![t] = "handling"] \/ at' = [at EXCEPT ![t] = "notifying"]
        /\ UNCHANGED <<tok, posted, meta, flow, user>>
        /\ UNCHANGED store \/ row' = NoRow
    BY <1>h DEF Retire, Handle, Goto, Deletes, Reporting
  <2>2. \A u \in Tasks : Onward(u)
    BY <1>0, <2>1 DEF Onward, Same, Busy, Reporting
  <2> QED BY <2>1, <2>2 DEF Quiet, store, user
<1>i. ASSUME NEW t \in Turns, Cancel(t) PROVE Quiet
  BY <1>i, DropOnward DEF Cancel, Drop, Quiet, store, user
<1>j. ASSUME NEW w \in Workers, Crash(w) PROVE Quiet
  BY <1>j, DropOnward DEF Crash, Drop, Quiet, store, user
<1>k. ASSUME UNCHANGED <<row, extra, chosen, notes, hit, tasks, flow>> PROVE Quiet
  BY <1>k DEF tasks, Quiet, Onward, Same
<1>l. ASSUME NEW w \in Workers, CacheExpires(w) PROVE Quiet
  <2>1. UNCHANGED <<row, extra, chosen, notes, hit, tasks, flow>>
    BY <1>l DEF CacheExpires, store, user
  <2> QED BY <1>k, <2>1
<1>m. CASE Expires \/ Revoke \/ FallsSilent \/ ComesBack
  BY <1>k, <1>m DEF Expires, Revoke, FallsSilent, ComesBack, store, user
<1>n. CASE UNCHANGED vars
  BY <1>k, <1>n DEF vars, store, user
<1> QED BY <1>a, <1>b, <1>c, <1>d, <1>e, <1>f, <1>g, <1>h, <1>i, <1>j, <1>l, <1>m, <1>n
       DEF Next, Refreshes, Tasks

(* Where a task stays or goes on to report, its part of the invariants     *)
(* stays, if the row does or is cleared.                                   *)
LEMMA QuietKeeps ==
  ASSUME TypeInv, KeepInv, Quiet
  PROVE  KeepInv'
<1>1. UNCHANGED <<chosen, notes, hit>> /\ flow' \in {flow, None}
  BY DEF Quiet
<1>2. FlowInv'
  <2>1. row' = row \/ row' = NoRow
    BY DEF Quiet
  <2>2. flow' # None => flow' = flow /\ NoRow.grant # flow /\ NoRow.refresh # flow
    BY <1>1 DEF NoRow
  <2>3. ASSUME flow' # None, NEW t \in Tasks
        PROVE  /\ at'[t] \in Busy => tok'[t].grant # flow
               /\ at'[t] \in Refreshing => tok'[t].refresh # flow
               /\ at'[t] \in {"posting", "rereading"} => posted'[t] # flow
    BY <2>2, <2>3 DEF Quiet, Onward, Same, KeepInv, FlowInv, Busy, Refreshing, Reporting
  <2> QED BY <2>1, <2>2, <2>3 DEF KeepInv, FlowInv
<1>3. PostInv'
  <2> SUFFICES ASSUME NEW t \in Tasks, at'[t] \in {"posting", "rereading"}
               PROVE  row'.refresh = posted'[t] <=> row'.grant = tok'[t].grant
    BY DEF PostInv
  <2>1. Same(t)
    BY DEF Quiet, Onward, Busy, Refreshing, Reporting
  <2>2. posted[t] \in Issued /\ tok[t].grant \in Issued
    BY <2>1 DEF Same, TypeInv, KnownInv, Busy, Refreshing
  <2>3. NoRow.refresh \notin Issued /\ NoRow.grant \notin Issued
    BY DEF NoRow, None, Issued
  <2> QED BY <2>1, <2>2, <2>3 DEF Quiet, KeepInv, PostInv, Same
<1>4. SavingInv'
  <2> SUFFICES ASSUME NEW t \in Tasks, at'[t] = "saving"
               PROVE  hit' \/ (tok'[t].grant = chosen' /\ meta'[t] = notes')
    BY DEF SavingInv
  <2>1. Same(t)
    BY DEF Quiet, Onward, Busy, Refreshing, Reporting
  <2> QED BY <1>1, <2>1 DEF KeepInv, SavingInv, Same
<1>5. KeepsChoice'
  BY <1>1 DEF Quiet, KeepInv, KeepsChoice
<1> QED BY <1>2, <1>3, <1>4, <1>5 DEF KeepInv

(* A refresh begins, is answered, and looks at the row again.              *)
LEMMA RefreshKeeps ==
  ASSUME TypeInv, KeepInv, NEW t \in Tasks, Posts(t) \/ PostAccepted(t) \/ Rereads(t)
  PROVE  KeepInv'
<1>0. /\ at \in [Tasks -> Places] /\ tok \in [Tasks -> Rows]
      /\ posted \in [Tasks -> 0..MaxTokens] /\ meta \in [Tasks -> 0..MaxNotes]
      /\ UNCHANGED <<row, extra, flow, chosen, notes, hit>>
  BY DEF TypeInv, TypeOK, Posts, PostAccepted, Rereads, store, user
<1>1. Others(t)
  BY <1>0 DEF Posts, PostAccepted, Rereads, Others, Same, Goto
<1>2. CASE Posts(t)
  <2>1. at'[t] = "posting" /\ tok'[t] = row /\ posted'[t] = row.refresh
    BY <1>0, <1>2 DEF Posts
  <2> QED BY <1>0, <1>1, <2>1 DEF KeepInv, FlowInv, PostInv, SavingInv, KeepsChoice,
             Others, Same, Busy, Refreshing, Reporting
<1>3. CASE PostAccepted(t)
  <2>1. /\ at[t] = "posting" /\ at'[t] = "rereading" /\ posted'[t] = posted[t]
        /\ minted' = minted + 1
    BY <1>0, <1>3 DEF PostAccepted, Issues, Mint, Goto
  <2>2. tok'[t].grant = tok[t].grant /\ tok'[t].refresh \in {tok[t].refresh, minted'}
    BY <1>0, <1>3 DEF PostAccepted, Rows
  <2>3. minted' # flow
    BY <2>1 DEF TypeInv, TypeOK, KnownInv
  <2>4. FlowInv'
    BY <1>0, <1>1, <2>1, <2>2, <2>3 DEF KeepInv, FlowInv, Others, Same, Busy, Refreshing,
       Reporting
  <2>5. PostInv'
    BY <1>0, <1>1, <2>1, <2>2 DEF KeepInv, PostInv, Others, Same
  <2>6. SavingInv'
    BY <1>0, <1>1, <2>1 DEF KeepInv, SavingInv, Others, Same
  <2> QED BY <1>0, <2>4, <2>5, <2>6 DEF KeepInv, KeepsChoice
<1>4. CASE Rereads(t)
  <2>1. /\ at[t] = "rereading" /\ at'[t] = "saving" /\ tok' = tok /\ meta'[t] = extra
        /\ row # NoRow /\ row.refresh = posted[t]
    BY <1>0, <1>4 DEF Rereads
  <2>2. row.grant = tok[t].grant
    BY <2>1 DEF KeepInv, PostInv
  <2>3. FlowInv'
    BY <1>0, <1>1, <2>1 DEF KeepInv, FlowInv, Others, Same, Busy, Refreshing, Reporting
  <2>4. PostInv'
    BY <1>0, <1>1, <2>1 DEF KeepInv, PostInv, Others, Same
  <2>5. SavingInv'
    BY <1>0, <1>1, <2>1, <2>2 DEF KeepInv, SavingInv, KeepsChoice, Others, Same
  <2> QED BY <1>0, <2>3, <2>4, <2>5 DEF KeepInv, KeepsChoice
<1> QED BY <1>2, <1>3, <1>4

(* The save comes after the second look, and no other task is in the       *)
(* critical section.                                                       *)
LEMMA SaveKeeps ==
  ASSUME TypeInv, KeepInv, NEW t \in Tasks, Save(t)
  PROVE  KeepInv'
<1>1. /\ at[t] = "saving" /\ lock = t /\ tok[t] \in Rows
      /\ row' = tok[t] /\ extra' = meta[t] /\ Returns(t, tok[t])
      /\ UNCHANGED <<flow, chosen, notes, hit>>
  BY WorksWith DEF Save, Locked, user
<1>2. Others(t) /\ at'[t] \notin Busy
  BY <1>1, ReturnsIs DEF Busy, Refreshing, Reporting
<1>3. \A u \in Tasks : at'[u] \notin Refreshing
  BY <1>1, <1>2, WorksWith DEF Others, Same, Busy, Refreshing, Locked
<1>4. FlowInv'
  BY <1>1, <1>2, <1>3 DEF KeepInv, FlowInv, Others, Same, Busy, Refreshing, Reporting
<1>5. PostInv' /\ SavingInv'
  BY <1>3 DEF PostInv, SavingInv, Refreshing
<1>6. KeepsChoice'
  BY <1>1 DEF KeepInv, SavingInv, KeepsChoice
<1> QED BY <1>4, <1>5, <1>6 DEF KeepInv

(* The user connects, disconnects and writes metadata at any time.         *)
LEMMA UserKeeps ==
  ASSUME TypeInv, KeepInv,
         \/ Callback \/ WriteExtra
         \/ \E w \in Workers : Connect(w) \/ Disconnect(w)
  PROVE  KeepInv'
<1>1. UNCHANGED <<at, tok, posted, meta>>
  BY DEF Callback, WriteExtra, Connect, Disconnect, tasks
<1>2. CASE Callback
  <2>1. minted' = minted + 1 /\ flow' = minted' /\ UNCHANGED <<row, extra, chosen, notes, hit>>
    BY <1>2 DEF Callback, Mint, store, user
  <2>2. flow' \notin Issued /\ flow' # 0
    BY <2>1 DEF TypeInv, TypeOK, Issued
  <2>3. row.grant # flow' /\ row.refresh # flow'
    BY <2>2 DEF TypeInv, KnownInv, Known, NoRow, None
  <2>4. FlowInv'
    BY <1>1, <2>1, <2>2, <2>3 DEF TypeInv, KnownInv, FlowInv
  <2>5. PostInv' /\ SavingInv' /\ KeepsChoice'
    BY <1>1, <2>1 DEF KeepInv, PostInv, SavingInv, KeepsChoice
  <2> QED BY <2>4, <2>5 DEF KeepInv
<1>3. CASE WriteExtra
  <2>1. UNCHANGED <<row, flow, chosen>> /\ extra' = notes' /\ hit' = (hit \/ InWindow)
    BY <1>3 DEF WriteExtra
  <2>2. FlowInv' /\ PostInv'
    BY <1>1, <2>1 DEF KeepInv, FlowInv, PostInv
  <2>3. SavingInv' /\ KeepsChoice'
    BY <1>1, <2>1 DEF KeepInv, SavingInv, KeepsChoice, InWindow
  <2> QED BY <2>2, <2>3 DEF KeepInv
<1>4. ASSUME NEW w \in Workers, Connect(w)
      PROVE  KeepInv'
  <2>1. /\ flow # None /\ row'.grant = flow /\ row'.refresh = flow /\ extra' = 0
        /\ flow' = None /\ chosen' = flow /\ notes' = 0 /\ hit' = InWindow
    BY <1>4 DEF Connect
  <2>2. FlowInv'
    BY <2>1 DEF FlowInv
  <2>3. PostInv'
    BY <1>1, <2>1 DEF KeepInv, FlowInv, PostInv, Busy, Refreshing
  <2>4. SavingInv' /\ KeepsChoice'
    BY <1>1, <2>1 DEF SavingInv, KeepsChoice, InWindow
  <2> QED BY <2>2, <2>3, <2>4 DEF KeepInv
<1>5. ASSUME NEW w \in Workers, Disconnect(w)
      PROVE  KeepInv'
  <2>1. /\ row' = NoRow /\ extra' = 0 /\ notes' = 0 /\ hit' = InWindow /\ flow' = flow
        /\ NoRow.grant = None /\ NoRow.refresh = None
    BY <1>5 DEF Disconnect, NoRow
  <2>2. FlowInv'
    BY <1>1, <2>1 DEF KeepInv, FlowInv
  <2>3. None \notin Issued
    BY DEF None, Issued
  <2>4. PostInv'
    BY <1>1, <2>1, <2>3 DEF TypeInv, KnownInv, PostInv, Busy, Refreshing
  <2>5. SavingInv' /\ KeepsChoice'
    BY <1>1, <2>1 DEF SavingInv, KeepsChoice, InWindow
  <2> QED BY <2>2, <2>4, <2>5 DEF KeepInv
<1> QED BY <1>2, <1>3, <1>4, <1>5

LEMMA NextKeeps == TypeInv /\ KeepInv /\ [Next]_vars => KeepInv'
BY StepKinds, QuietKeeps, RefreshKeeps, SaveKeeps, UserKeeps

(* A refresh puts back neither a connection the user removed or replaced,  *)
(* nor older metadata, unless the change fell after its second look.       *)
THEOREM ChoiceIsKept == Spec => []KeepsChoice
<1>1. KeepInv => KeepsChoice
  BY DEF KeepInv
<1> QED BY InitTypes, NextTypes, InitKeeps, NextKeeps, <1>1, PTL DEF Spec

-----------------------------------------------------------------------------
(* Spent refresh tokens                                                    *)

(* The provider accepts the refresh token of r or refuses the grant, or    *)
(* the newest one got lost.                                                *)
Fresh(r) == r.grant \in lost \/ live[r.grant] \in {None, r.refresh}

Answered == {"rereading", "saving"}

(* The row has the newest refresh token, or the task with the advisory     *)
(* lock has it.                                                            *)
LossInv ==
  /\ row # NoRow =>
       Fresh(row) \/ \E t \in Tasks : at[t] \in Answered /\ tok[t].grant = row.grant
  /\ \A t \in Tasks : at[t] \in Refreshing => Fresh(tok[t])
  /\ \A t \in Tasks : at[t] = "posting" => tok[t].refresh = posted[t]
  /\ flow # None => live[flow] \in {None, flow}

LEMMA InitLoss == Init => LossInv /\ ReplayNeedsLoss
BY DEF Init, LossInv, ReplayNeedsLoss, Refreshing

(* A task stays, or leaves with nothing the row lacks, unless it is lost.  *)
Leaves(u) ==
  \/ Same(u)
  \/ /\ at'[u] \notin Refreshing
     /\ at[u] \in Answered =>
          tok[u].grant \in lost' \/ row = NoRow \/ tok[u].grant # row.grant

Ebbs ==
  /\ live' = live /\ lost \subseteq lost'
  /\ row' \in {row, NoRow} /\ flow' \in {flow, None}
  /\ \A u \in Tasks : Leaves(u)

LEMMA EbbsLoss ==
  ASSUME TypeInv, LossInv, Ebbs
  PROVE  LossInv'
<1>1. \A r : Fresh(r) => Fresh(r)'
  BY DEF Ebbs, Fresh
<1>2. \A t \in Tasks : at'[t] \in Refreshing => Same(t) /\ Fresh(tok[t])
  BY DEF Ebbs, Leaves, LossInv, Same
<1>3. ASSUME row' # NoRow
      PROVE  Fresh(row)' \/ \E t \in Tasks : at'[t] \in Answered /\ tok'[t].grant = row'.grant
  <2>1. row' = row /\ row # NoRow
    BY <1>3 DEF Ebbs
  <2>2. CASE Fresh(row)
    BY <2>1, <2>2 DEF Ebbs, Fresh
  <2>3. ASSUME NEW t \in Tasks, at[t] \in Answered, tok[t].grant = row.grant
        PROVE  row.grant \in lost' \/ (at'[t] \in Answered /\ tok'[t].grant = row.grant)
    BY <2>1, <2>3 DEF Ebbs, Leaves, Same
  <2> QED BY <2>1, <2>2, <2>3 DEF LossInv, Fresh
<1>4. \A t \in Tasks : at'[t] \in Refreshing => Fresh(tok[t])'
  BY <1>2 DEF Ebbs, Fresh, Same
<1>5. \A t \in Tasks : at'[t] = "posting" => tok'[t].refresh = posted'[t]
  BY <1>2 DEF LossInv, Same, Refreshing
<1>6. flow' # None => live'[flow'] \in {None, flow'}
  BY DEF Ebbs, LossInv
<1> QED BY <1>3, <1>4, <1>5, <1>6 DEF LossInv

LEMMA OneLeaves ==
  ASSUME NEW t \in Tasks, Others(t), at'[t] \notin Refreshing,
         at[t] \in Answered =>
           tok[t].grant \in lost' \/ row = NoRow \/ tok[t].grant # row.grant
  PROVE  \A u \in Tasks : Leaves(u)
BY DEF Others, Leaves

(* The steps that issue no token and save none.                            *)
LEMMA EbbKinds ==
  ASSUME TypeInv, KeepInv, [Next]_vars
  PROVE  \/ Ebbs
         \/ \E t \in Tasks : \/ Posts(t) \/ PostAccepted(t) \/ AnswerLost(t)
                             \/ Rereads(t) \/ Save(t)
         \/ Callback \/ Revoke
         \/ \E w \in Workers : Connect(w)
<1> USE OAuthAssumption
<1>0. /\ at \in [Tasks -> Places] /\ tok \in [Tasks -> Rows] /\ row \in Rows /\ NoRow \in Rows
      /\ posted \in [Tasks -> 0..MaxTokens]
  BY DEF TypeInv, TypeOK, NoRow, Rows, None
<1>a. ASSUME NEW t \in Turns, GetValidToken(t) PROVE Ebbs
  <2>1. /\ UNCHANGED <<store, flow, provider, ghosts>> /\ t \in Tasks /\ at[t] = "idle"
        /\ \/ UNCHANGED <<at, tok>>
           \/ at' = [at EXCEPT ![t] = "locking"] /\ UNCHANGED tok
           \/ at' = [at EXCEPT ![t] = "holding"]
             /\ tok' = [tok EXCEPT ![t] = Loaded(Home[t])]
        /\ UNCHANGED <<posted, meta>>
    BY <1>a DEF GetValidToken, Goto, Takes, Tasks
  <2>2. \A u \in Tasks : Leaves(u)
    BY <1>0, <2>1 DEF Leaves, Same, Refreshing, Answered
  <2> QED BY <2>1, <2>2 DEF Ebbs, store, provider, ghosts
<1>b. ASSUME NEW t \in Tasks, Uses(t) \/ Contended(t) \/ Notify(t) PROVE Ebbs
  <2>1. Ends(t) /\ UNCHANGED <<store, flow, provider, lost>>
        /\ at[t] \in {"holding", "locking", "notifying"}
    BY <1>b DEF Uses, Contended, Notify, ghosts
  <2> QED BY <2>1, EndsIs, OneLeaves DEF Ebbs, store, provider, Refreshing, Answered
<1>c. ASSUME NEW t \in Tasks, IsRejected(t) \/ Picks(t) PROVE Ebbs
  <2>1. /\ at' = [at EXCEPT ![t] = "locking"] /\ at[t] \in {"holding", "idle"}
        /\ UNCHANGED <<store, flow, provider, ghosts, tok, posted, meta>>
    BY <1>c DEF IsRejected, Picks, Goto
  <2>2. \A u \in Tasks : Leaves(u)
    BY <1>0, <2>1 DEF Leaves, Same, Refreshing, Answered
  <2> QED BY <2>1, <2>2 DEF Ebbs, store, provider, ghosts
<1>d. ASSUME NEW t \in Tasks, Lock(t) PROVE Ebbs \/ Posts(t)
  <2>1. CASE Returns(t, row)
    <3>1. /\ Others(t) /\ at'[t] \notin Refreshing /\ at[t] = "locking"
          /\ UNCHANGED <<store, flow, provider, ghosts>>
      BY <1>0, <1>d, <2>1, ReturnsIs DEF Lock, Refreshing
    <3> QED BY <3>1, OneLeaves DEF Ebbs, store, provider, ghosts, Answered
  <2>2. CASE /\ row # NoRow /\ Takes(t, row) /\ Goto(t, "posting")
             /\ posted' = [posted EXCEPT ![t] = row.refresh]
             /\ UNCHANGED <<meta, refusal>>
    BY <1>d, <2>2 DEF Lock, Posts, Takes, Goto
  <2> QED BY <1>d, <2>1, <2>2 DEF Lock, Decides
<1>e. ASSUME NEW t \in Tasks, PostFails(t) \/ SaveFails(t) PROVE Ebbs
  <2>1. /\ at[t] = "posting" \/ (at[t] = "saving" /\ lost' = lost \cup {tok[t].grant})
        /\ Returns(t, NoRow) /\ UNCHANGED <<store, flow, provider>> /\ lost \subseteq lost'
    BY <1>e DEF PostFails, SaveFails, Raises, ghosts
  <2>2. lock = t
    BY <2>1, WorksWith DEF Locked
  <2>3. Others(t) /\ at'[t] \notin Refreshing
    BY <1>0, <2>1, <2>2, ReturnsIs DEF Refreshing
  <2> QED BY <2>1, <2>3, OneLeaves DEF Ebbs, store, provider, Answered
<1>f. ASSUME NEW t \in Tasks, PostRefused(t) PROVE Ebbs
  <2>1. /\ at[t] = "posting" /\ at' = [at EXCEPT ![t] = "retiring"]
        /\ tok' = [tok EXCEPT ![t] = [NoRow EXCEPT !.grant = tok[t].grant]]
        /\ posted' = [posted EXCEPT ![t] = None]
        /\ UNCHANGED <<store, flow, provider, meta, lost>>
    BY <1>f DEF PostRefused, Goto, Takes
  <2>2. Others(t) /\ at'[t] \notin Refreshing
    BY <1>0, <2>1 DEF Others, Same, Refreshing
  <2> QED BY <2>1, <2>2, OneLeaves DEF Ebbs, store, provider, Answered
<1>g. ASSUME NEW t \in Tasks, Reread(t) PROVE Ebbs \/ Rereads(t)
  <2>1. CASE Returns(t, row) /\ (row = NoRow \/ row.refresh # posted[t])
    <3>1. lock = t /\ at[t] = "rereading" /\ UNCHANGED <<store, flow, provider, ghosts>>
      BY <1>g, WorksWith DEF Reread, Locked
    <3>2. Others(t) /\ at'[t] \notin Refreshing
      BY <1>0, <2>1, <3>1, ReturnsIs DEF Refreshing
    <3>3. row = NoRow \/ tok[t].grant # row.grant
      BY <2>1, <3>1 DEF KeepInv, PostInv
    <3> QED BY <3>1, <3>2, <3>3, OneLeaves DEF Ebbs, store, provider, ghosts
  <2>2. CASE /\ row # NoRow /\ row.refresh = posted[t]
             /\ meta' = [meta EXCEPT ![t] = extra] /\ Goto(t, "saving")
             /\ posted' = [posted EXCEPT ![t] = None]
             /\ UNCHANGED <<lock, tok, refusal>>
    BY <1>g, <2>2 DEF Reread, Rereads, Goto
  <2> QED BY <1>g, <2>1, <2>2 DEF Reread
<1>h. ASSUME NEW t \in Tasks, Retire(t) \/ Handle(t) PROVE Ebbs
  <2>1. /\ at[t] \in {"retiring", "handling"}
        /\ at' = [at EXCEPT ![t] = "handling"] \/ at' = [at EXCEPT ![t] = "notifying"]
        /\ UNCHANGED <<tok, posted, meta, flow, provider, lost>>
        /\ UNCHANGED store \/ row' = NoRow
    BY <1>h DEF Retire, Handle, Goto, Deletes, ghosts
  <2>2. \A u \in Tasks : Leaves(u)
    BY <1>0, <2>1 DEF Leaves, Same, Refreshing, Answered
  <2> QED BY <2>1, <2>2 DEF Ebbs, store, provider
<1>i. ASSUME NEW dropped, Drop(dropped) PROVE \A u \in Tasks : Leaves(u)
  <2>1. \A u \in Tasks : u \in dropped /\ at[u] \in Answered => tok[u].grant \in lost'
    BY <1>i DEF Drop, GrantsAt, Answered
  <2> QED BY <1>i, <2>1 DEF Drop, Leaves, Same, Refreshing
<1>j. ASSUME NEW t \in Turns, Cancel(t) PROVE Ebbs
  BY <1>i, <1>j DEF Cancel, Drop, Ebbs, store, provider
<1>k. ASSUME NEW w \in Workers, Crash(w) PROVE Ebbs
  BY <1>i, <1>k DEF Crash, Drop, Ebbs, store, provider
<1>l. ASSUME UNCHANGED <<tasks, flow, live, lost>>, row' \in {row, NoRow} PROVE Ebbs
  BY <1>l DEF tasks, Ebbs, Leaves, Same
<1>m. ASSUME NEW w \in Workers, CacheExpires(w) \/ Disconnect(w) PROVE Ebbs
  <2>1. UNCHANGED <<tasks, flow, live, lost>> /\ row' \in {row, NoRow}
    BY <1>m DEF CacheExpires, Disconnect, store, provider, ghosts
  <2> QED BY <1>l, <2>1
<1>n. ASSUME Expires \/ WriteExtra \/ FallsSilent \/ ComesBack \/ UNCHANGED vars PROVE Ebbs
  <2>1. UNCHANGED <<tasks, flow, live, lost>> /\ row' = row
    BY <1>n DEF Expires, WriteExtra, FallsSilent, ComesBack, store, provider, ghosts, vars
  <2> QED BY <1>l, <2>1
<1> QED BY <1>a, <1>b, <1>c, <1>d, <1>e, <1>f, <1>g, <1>h, <1>j, <1>k, <1>m, <1>n
       DEF Next, Refreshes, Tasks

(* With the advisory lock no other task refreshes.                         *)
LEMMA Alone ==
  ASSUME TypeInv, NEW t \in Tasks, at[t] \in Locked \/ lock = NoTask, Others(t)
  PROVE  \A u \in Tasks \ {t} : at[u] \notin Refreshing /\ at'[u] \notin Refreshing
<1>1. \A u \in Tasks : at[u] \in Locked => lock = u
  BY WorksWith
<1>2. \A u \in Tasks \ {t} : at[u] \notin Locked
  BY <1>1, WorksWith, OAuthAssumption DEF Tasks
<1> QED BY <1>2 DEF Others, Same, Refreshing, Locked

(* A refresh begins, looks again and saves: the token it has is fresh.     *)
LEMMA HandsOn ==
  ASSUME TypeInv, KeepInv, LossInv, NEW t \in Tasks, Posts(t) \/ Rereads(t) \/ Save(t)
  PROVE  LossInv'
<1>0. /\ at \in [Tasks -> Places] /\ tok \in [Tasks -> Rows] /\ row \in Rows
      /\ posted \in [Tasks -> 0..MaxTokens]
  BY DEF TypeInv, TypeOK
<1>1. UNCHANGED <<live, lost, flow>>
  BY DEF Posts, Rereads, Save, provider, ghosts
<1>2. \A r : Fresh(r)' <=> r'.grant \in lost \/ live[r'.grant] \in {None, r'.refresh}
  BY <1>1 DEF Fresh
<1>3. CASE Posts(t)
  <2>1. /\ at'[t] = "posting" /\ tok'[t] = row /\ posted'[t] = row.refresh
        /\ row # NoRow /\ lock = NoTask /\ row' = row /\ Others(t)
    BY <1>0, <1>3 DEF Posts, store, Others, Same
  <2>2. \A u \in Tasks \ {t} : at'[u] \notin Refreshing
    BY <2>1, Alone
  <2>3. \A u \in Tasks : at[u] \notin Answered
    BY <2>1, OAuthAssumption, WorksWith DEF Answered, Locked, Tasks
  <2>4. Fresh(row)
    BY <2>1, <2>3 DEF LossInv
  <2> QED BY <1>1, <2>1, <2>2, <2>4 DEF LossInv, Fresh, Refreshing
<1>4. CASE Rereads(t)
  <2>1. /\ at[t] = "rereading" /\ at'[t] = "saving" /\ tok' = tok /\ row' = row /\ Others(t)
    BY <1>0, <1>4 DEF Rereads, store, Others, Same
  <2>2. \A u \in Tasks \ {t} : at'[u] \notin Refreshing
    BY <2>1, Alone DEF Locked
  <2>3. Fresh(tok[t])
    BY <2>1 DEF LossInv, Refreshing
  <2>4. row' # NoRow => Fresh(row)' \/ \E u \in Tasks : at'[u] \in Answered
                                                   /\ tok'[u].grant = row'.grant
    <3>1. \A u \in Tasks : at[u] \in Answered => at'[u] \in Answered
      BY <2>1 DEF Others, Same, Answered
    <3> QED BY <1>1, <2>1, <3>1 DEF LossInv, Fresh
  <2> QED BY <1>1, <2>1, <2>2, <2>3, <2>4 DEF LossInv, Fresh, Refreshing
<1>5. CASE Save(t)
  <2>1. /\ at[t] = "saving" /\ lock = t /\ row' = tok[t] /\ Returns(t, tok[t])
    BY <1>5, WorksWith DEF Save, Locked
  <2>2. Others(t) /\ at'[t] \notin Refreshing
    BY <1>0, <2>1, ReturnsIs DEF Refreshing
  <2>3. \A u \in Tasks : at'[u] \notin Refreshing
    BY <2>1, <2>2, Alone DEF Locked
  <2>4. Fresh(tok[t])
    BY <2>1 DEF LossInv, Refreshing
  <2> QED BY <1>1, <2>1, <2>3, <2>4 DEF LossInv, Fresh, Refreshing
<1> QED BY <1>3, <1>4, <1>5

(* The provider rotates the refresh token or keeps it; the answer arrives  *)
(* or is lost.                                                             *)
LEMMA AnswersLoss ==
  ASSUME TypeInv, KeepInv, LossInv, NEW t \in Tasks, PostAccepted(t) \/ AnswerLost(t)
  PROVE  LossInv'
<1> DEFINE g == tok[t].grant
<1>0. /\ at \in [Tasks -> Places] /\ tok \in [Tasks -> Rows] /\ row \in Rows
      /\ live \in [Tokens -> 0..MaxTokens]
  BY DEF TypeInv, TypeOK
<1>1. /\ at[t] = "posting" /\ lock = t /\ g \in Tokens /\ live[g] = posted[t]
      /\ tok[t].refresh = posted[t]
  <2>1. at[t] = "posting" /\ IsLive(t)
    BY DEF PostAccepted, AnswerLost, Issues
  <2> QED BY <2>1, WorksWith DEF Locked, IsLive, LossInv
<1>2. UNCHANGED <<row, flow>> /\ lost \subseteq lost'
  BY DEF PostAccepted, AnswerLost, store, ghosts
<1>3. \A k \in Tokens \ {g} : live'[k] = live[k]
  BY <1>0 DEF PostAccepted, AnswerLost, Issues
<1>4. row # NoRow => row.grant \in Tokens
  BY OAuthAssumption DEF TypeInv, TypeOK, KnownInv, Known, Issued, Tokens
<1>5. flow # None => flow \in Tokens /\ flow # g
  <2>1. flow # None => flow \in Tokens
    BY OAuthAssumption DEF TypeInv, TypeOK, Tokens, None
  <2>2. flow # None => flow # g
    BY <1>1 DEF KeepInv, FlowInv, Busy, Refreshing
  <2> QED BY <2>1, <2>2
<1>6. flow' # None => live'[flow'] \in {None, flow'}
  BY <1>2, <1>3, <1>5 DEF LossInv
<1>7. Others(t) => \A u \in Tasks : at[u] \notin Answered
  <2>1. Others(t) => \A u \in Tasks \ {t} : at[u] \notin Refreshing
    BY <1>1, Alone DEF Locked
  <2> QED BY <1>1, <2>1 DEF Refreshing, Answered
<1>8. Others(t) /\ row # NoRow /\ row.grant # g => Fresh(row)'
  <2>1. Others(t) /\ row # NoRow => Fresh(row)
    BY <1>7 DEF LossInv
  <2> QED BY <1>2, <1>3, <1>4, <2>1 DEF Fresh
<1>9. Others(t) => \A u \in Tasks \ {t} : at'[u] \notin Refreshing
  BY <1>1, Alone DEF Locked
<1>a. CASE PostAccepted(t)
  <2>1. PICK rotate \in BOOLEAN :
          /\ Issues(t, rotate)
          /\ tok' = [tok EXCEPT ![t].access = minted',
                                ![t].refresh = IF rotate THEN minted' ELSE @]
    BY <1>a DEF PostAccepted
  <2>2. at'[t] = "rereading" /\ Others(t)
    BY <1>0, <1>a DEF PostAccepted, Goto, Others, Same
  <2>3. tok'[t].grant = g /\ tok'[t].refresh = (IF rotate THEN minted' ELSE posted[t])
    BY <1>0, <1>1, <2>1 DEF Rows
  <2>4. live'[g] = IF rotate THEN minted' ELSE posted[t]
    BY <1>0, <1>1, <2>1 DEF Issues
  <2>5. Fresh(tok[t])'
    BY <2>3, <2>4 DEF Fresh
  <2>6. row' # NoRow => Fresh(row)' \/ \E u \in Tasks : at'[u] \in Answered
                                                   /\ tok'[u].grant = row'.grant
    BY <1>2, <1>8, <2>2, <2>3 DEF Answered
  <2> QED BY <1>6, <1>9, <2>2, <2>5, <2>6 DEF LossInv, Refreshing
<1>b. CASE AnswerLost(t)
  <2>1. NoRow \in Rows
    BY OAuthAssumption DEF NoRow, Rows, None
  <2>2. Returns(t, NoRow) /\ g \in lost'
    BY <1>b DEF AnswerLost, Raises
  <2>3. Others(t) /\ at'[t] \notin Refreshing
    BY <1>1, <2>1, <2>2, ReturnsIs DEF Refreshing
  <2>4. row' # NoRow => Fresh(row)'
    BY <1>2, <1>8, <2>2, <2>3 DEF Fresh
  <2> QED BY <1>6, <1>9, <2>3, <2>4 DEF LossInv, Refreshing
<1> QED BY <1>a, <1>b

(* A new grant begins with its first token; a revoked one accepts none.    *)
LEMMA UserLoss ==
  ASSUME TypeInv, LossInv, Callback \/ Revoke \/ \E w \in Workers : Connect(w)
  PROVE  LossInv'
<1>0. /\ tok \in [Tasks -> Rows] /\ row \in Rows /\ live \in [Tokens -> 0..MaxTokens]
      /\ minted \in 0..MaxTokens /\ MaxTokens \in Nat
  BY OAuthAssumption DEF TypeInv, TypeOK
<1>1. UNCHANGED <<at, tok, posted, lost>>
  BY DEF Callback, Revoke, Connect, tasks, ghosts
<1>2. /\ row # NoRow => row.grant \in Issued
      /\ \A t \in Tasks : at[t] \in Refreshing => tok[t].grant \in Issued
  BY DEF TypeInv, KnownInv, Known, Busy
<1>3. ASSUME NEW r, r.grant \in Issued, Fresh(r), Callback \/ Revoke
      PROVE  r.grant \in lost \/ live'[r.grant] \in {None, r.refresh}
  <2>1. CASE Callback
    <3>1. minted' = minted + 1 /\ live' = [live EXCEPT ![minted'] = minted']
      BY <2>1 DEF Callback, Mint
    <3>2. r.grant # minted'
      BY <1>0, <1>3, <3>1 DEF Issued
    <3>3. live'[r.grant] = live[r.grant]
      BY <1>0, <1>3, <3>1, <3>2 DEF Issued, Tokens
    <3> QED BY <1>3, <3>3 DEF Fresh
  <2>2. CASE Revoke
    <3>1. live' = [live EXCEPT ![chosen] = None] /\ r.grant \in Tokens
      BY <1>0, <1>3, <2>2 DEF Revoke, Issued, Tokens
    <3>2. live'[r.grant] = live[r.grant] \/ live'[r.grant] = None
      BY <1>0, <3>1
    <3> QED BY <1>3, <3>2 DEF Fresh
  <2> QED BY <1>3, <2>1, <2>2
<1>4. CASE Callback
  <2>1. /\ minted' = minted + 1 /\ live' = [live EXCEPT ![minted'] = minted']
        /\ flow' = minted' /\ minted < MaxTokens /\ row' = row
    BY <1>4 DEF Callback, Mint, store
  <2>2. live'[flow'] = flow'
    BY <1>0, <2>1 DEF Tokens
  <2>3. \A t \in Tasks : at'[t] \in Refreshing => Fresh(tok[t])'
    BY <1>1, <1>2, <1>3, <1>4 DEF LossInv, Fresh
  <2>4. row' # NoRow => Fresh(row)' \/ \E u \in Tasks : at'[u] \in Answered
                                                   /\ tok'[u].grant = row'.grant
    BY <1>1, <1>2, <1>3, <1>4, <2>1 DEF LossInv, Fresh
  <2> QED BY <1>1, <2>2, <2>3, <2>4 DEF LossInv
<1>5. CASE Revoke
  <2>1. live' = [live EXCEPT ![chosen] = None] /\ flow' = flow /\ row' = row
    BY <1>5 DEF Revoke, store
  <2>2. flow # None => live'[flow] \in {None, flow}
    <3>1. flow # None => flow \in Tokens
      BY <1>0 DEF TypeInv, TypeOK, Tokens, None
    <3> QED BY <1>0, <2>1, <3>1 DEF LossInv
  <2>3. \A t \in Tasks : at'[t] \in Refreshing => Fresh(tok[t])'
    BY <1>1, <1>2, <1>3, <1>5 DEF LossInv, Fresh
  <2>4. row' # NoRow => Fresh(row)' \/ \E u \in Tasks : at'[u] \in Answered
                                                   /\ tok'[u].grant = row'.grant
    BY <1>1, <1>2, <1>3, <1>5, <2>1 DEF LossInv, Fresh
  <2> QED BY <1>1, <2>1, <2>2, <2>3, <2>4 DEF LossInv
<1>6. ASSUME NEW w \in Workers, Connect(w)
      PROVE  LossInv'
  <2>1. /\ flow # None /\ row'.grant = flow /\ row'.refresh = flow /\ live' = live
        /\ flow' = None
    BY <1>6 DEF Connect, provider
  <2>2. Fresh(row)'
    BY <2>1 DEF LossInv, Fresh
  <2>3. \A t \in Tasks : at'[t] \in Refreshing => Fresh(tok[t])'
    BY <1>1, <2>1 DEF LossInv, Fresh
  <2> QED BY <1>1, <2>1, <2>2, <2>3 DEF LossInv
<1> QED BY <1>4, <1>5, <1>6

LEMMA NextLoss == TypeInv /\ KeepInv /\ LossInv /\ [Next]_vars => LossInv'
BY EbbKinds, EbbsLoss, HandsOn, AnswersLoss, UserLoss

(* Only PostRefused counts a replay, and by then the newest refresh token  *)
(* of the grant is lost.                                                   *)
LEMMA NextReplays ==
  TypeInv /\ LossInv /\ ReplayNeedsLoss /\ [Next]_vars => ReplayNeedsLoss'
<1> SUFFICES ASSUME TypeInv, LossInv, ReplayNeedsLoss, [Next]_vars PROVE ReplayNeedsLoss'
  OBVIOUS
<1>1. ASSUME NEW t \in Tasks, PostRefused(t) PROVE ReplayNeedsLoss'
  <2>1. /\ at[t] = "posting" /\ live[tok[t].grant] # posted[t] /\ lost' = lost
        /\ replays' = IF live[tok[t].grant] = None THEN replays
                      ELSE replays \cup {tok[t].grant}
    BY <1>1 DEF PostRefused, IsLive
  <2>2. Fresh(tok[t]) /\ tok[t].refresh = posted[t]
    BY <2>1 DEF LossInv, Refreshing
  <2>3. tok[t].grant \in lost \/ live[tok[t].grant] = None
    BY <2>1, <2>2 DEF Fresh
  <2> QED BY <2>1, <2>3 DEF ReplayNeedsLoss
<1>2. ASSUME replays' = replays, lost \subseteq lost' PROVE ReplayNeedsLoss'
  BY <1>2 DEF ReplayNeedsLoss
<1>3. ASSUME NEW t \in Tasks, Refreshes(t) PROVE ReplayNeedsLoss'
  <2>1. CASE Lock(t) \/ Contended(t) \/ PostAccepted(t) \/ PostFails(t) \/ Reread(t)
             \/ Save(t) \/ Retire(t) \/ Handle(t) \/ Notify(t)
    <3>1. replays' = replays /\ lost \subseteq lost'
      BY <2>1 DEF Lock, Contended, PostAccepted, PostFails, Reread, Save, Retire, Handle,
         Notify, ghosts
    <3> QED BY <1>2, <3>1
  <2> QED BY <1>1, <1>3, <2>1 DEF Refreshes
<1>4. ASSUME NEW t \in Tasks, AnswerLost(t) \/ SaveFails(t) PROVE ReplayNeedsLoss'
  <2>1. replays' = replays /\ lost \subseteq lost'
    BY <1>4 DEF AnswerLost, SaveFails
  <2> QED BY <1>2, <2>1
<1>5. ASSUME \/ Expires \/ Revoke \/ Callback \/ WriteExtra
             \/ FallsSilent \/ ComesBack \/ UNCHANGED vars
             \/ \E w \in Workers : Connect(w) \/ Disconnect(w) \/ CacheExpires(w)
             \/ \E t \in Turns : GetValidToken(t) \/ Uses(t) \/ IsRejected(t)
             \/ \E t \in Sweeps : Picks(t)
      PROVE ReplayNeedsLoss'
  <2>1. UNCHANGED ghosts
    BY <1>5 DEF Expires, Revoke, Callback, WriteExtra, FallsSilent, ComesBack, vars,
       Connect, Disconnect, CacheExpires, GetValidToken, Uses, IsRejected, Picks
  <2> QED BY <1>2, <2>1 DEF ghosts
<1>6. ASSUME NEW dropped, Drop(dropped) PROVE ReplayNeedsLoss'
  BY <1>2, <1>6 DEF Drop
<1> QED BY <1>3, <1>4, <1>5, <1>6 DEF Next, Cancel, Crash

(* A refresh token that the provider has replaced is posted again only if  *)
(* an answer or a save of that grant got lost.                             *)
THEOREM ReplaysNeedLoss == Spec => []ReplayNeedsLoss
BY InitTypes, NextTypes, InitKeeps, NextKeeps, InitLoss, NextLoss, NextReplays, PTL
   DEF Spec

-----------------------------------------------------------------------------
(* Notices                                                                 *)

Informing == {"handling", "notifying"}
Pending(g) == {t \in Tasks : at[t] \in Informing /\ tok[t].grant = g}

(* The grant is, or may still become, that of the row or of a refresh.     *)
Alive(g) ==
  \/ row.grant = g \/ flow = g \/ g > minted
  \/ \E t \in Tasks : at[t] \in Locked /\ tok[t].grant = g

(* A grant is retired once, and not while it is alive, except for deletes  *)
(* that failed under the lock.                                             *)
ToldInv ==
  \A g \in Tokens :
    /\ told[g] + Cardinality(Pending(g)) <= 1 + slips[g]
    /\ Alive(g) => told[g] + Cardinality(Pending(g)) <= slips[g]

HeardInv ==
  \A g \in Tokens : g \in refused => told[g] >= 1 \/ g \in untold \/ Telling(g)

LEMMA PendingIsFinite ==
  \A g : IsFiniteSet(Pending(g)) /\ Cardinality(Pending(g)) \in Nat
<1> SUFFICES ASSUME NEW g PROVE IsFiniteSet(Pending(g)) /\ Cardinality(Pending(g)) \in Nat
  OBVIOUS
<1>1. Pending(g) \subseteq Tasks /\ IsFiniteSet(Tasks)
  BY OAuthAssumption DEF Pending, Tasks
<1>2. IsFiniteSet(Pending(g))
  BY <1>1, FS_Subset
<1> QED BY <1>2, FS_CardinalityType

LEMMA InitTold == Init => ToldInv /\ HeardInv
<1> SUFFICES ASSUME Init PROVE ToldInv /\ HeardInv
  OBVIOUS
<1>1. \A g : Pending(g) = {}
  BY DEF Init, Pending, Informing
<1>2. \A g : Cardinality(Pending(g)) = 0
  BY <1>1, FS_EmptySet
<1>3. \A g \in Tokens : told[g] = 0 /\ slips[g] = 0
  BY DEF Init
<1> QED BY <1>2, <1>3 DEF ToldInv, HeardInv, Init

(* A task begins no report, works with no other grant but that of the row, *)
(* and stays in its report unless the notice is lost.                      *)
Calms(u) ==
  /\ at'[u] \in Informing => at[u] \in Informing /\ tok'[u].grant = tok[u].grant
  /\ at'[u] \in Locked => \/ at[u] \in Locked /\ tok'[u].grant = tok[u].grant
                          \/ tok'[u].grant = row.grant
  /\ at[u] \in Reporting => \/ at'[u] \in Reporting /\ tok'[u].grant = tok[u].grant
                            \/ tok[u].grant \in untold'

Calm ==
  /\ UNCHANGED <<told, slips>> /\ untold \subseteq untold'
  /\ \A g \in refused' : g \in refused
                         \/ \E t \in Tasks : at'[t] = "retiring" /\ tok'[t].grant = g
  /\ minted' \in Nat /\ minted' >= minted
  /\ flow' \in {flow, None} \/ flow' > minted
  /\ \/ row'.grant \in {row.grant, None, flow}
     \/ \E t \in Tasks : at[t] \in Locked /\ row'.grant = tok[t].grant
  /\ \A u \in Tasks : Calms(u)

LEMMA AliveFades ==
  ASSUME TypeInv, NEW g \in Tokens,
         minted' \in Nat, minted' >= minted, flow' \in {flow, None} \/ flow' > minted,
         \/ row'.grant \in {row.grant, None, flow}
         \/ \E t \in Tasks : at[t] \in Locked /\ row'.grant = tok[t].grant,
         \A u \in Tasks : at'[u] \in Locked => \/ at[u] \in Locked /\ tok'[u].grant = tok[u].grant
                                               \/ tok'[u].grant = row.grant,
         Alive(g)'
  PROVE  Alive(g)
<1>0. g # None /\ g \in Nat /\ minted \in Nat
  BY OAuthAssumption DEF Tokens, None, TypeInv, TypeOK
<1>1. CASE row'.grant = g
  BY <1>0, <1>1 DEF Alive
<1>2. CASE flow' = g
  BY <1>0, <1>2 DEF Alive
<1>3. CASE g > minted'
  BY <1>0, <1>3 DEF Alive
<1>4. CASE \E t \in Tasks : at'[t] \in Locked /\ tok'[t].grant = g
  BY <1>4 DEF Alive
<1> QED BY <1>1, <1>2, <1>3, <1>4 DEF Alive

LEMMA CalmTold ==
  ASSUME TypeInv, ToldInv, HeardInv, Calm
  PROVE  ToldInv' /\ HeardInv'
<1>1. ASSUME NEW g \in Tokens
      PROVE  /\ told'[g] + Cardinality(Pending(g)') <= 1 + slips'[g]
             /\ Alive(g)' => told'[g] + Cardinality(Pending(g)') <= slips'[g]
  <2>1. Pending(g)' \subseteq Pending(g)
    BY DEF Calm, Calms, Pending
  <2>2. Cardinality(Pending(g)') <= Cardinality(Pending(g))
        /\ Cardinality(Pending(g)') \in Nat /\ Cardinality(Pending(g)) \in Nat
    BY <2>1, PendingIsFinite, FS_Subset, FS_CardinalityType
  <2>3. Alive(g)' => Alive(g)
    BY AliveFades DEF Calm, Calms
  <2>4. told'[g] = told[g] /\ slips'[g] = slips[g] /\ told[g] \in Nat /\ slips[g] \in Nat
    BY DEF Calm, TypeInv, TypeOK
  <2> HIDE DEF Alive, Pending
  <2> QED BY <2>2, <2>3, <2>4 DEF ToldInv
<1>2. ASSUME NEW g \in Tokens, g \in refused'
      PROVE  told'[g] >= 1 \/ g \in untold' \/ Telling(g)'
  <2>1. CASE \E t \in Tasks : at'[t] = "retiring" /\ tok'[t].grant = g
    BY <2>1 DEF Telling
  <2>2. CASE g \in refused
    <3>1. Telling(g) => Telling(g)' \/ g \in untold'
      BY DEF Telling, Calm, Calms, Reporting
    <3>2. told' = told /\ untold \subseteq untold'
      BY DEF Calm
    <3> QED BY <2>2, <3>1, <3>2 DEF HeardInv
  <2> QED BY <1>2, <2>1, <2>2 DEF Calm
<1>3. ToldInv'
  BY <1>1 DEF ToldInv
<1> QED BY <1>2, <1>3 DEF HeardInv

(* The report: under the lock the grant is at its end, unless the delete   *)
(* fails; the notice is sent once by each task that reports.               *)
LEMMA RetireTold ==
  ASSUME TypeInv, KeepInv, ToldInv, HeardInv, NEW t \in Tasks, Retire(t)
  PROVE  ToldInv' /\ HeardInv'
<1>h. PICK h : h = tok[t].grant
  OBVIOUS
<1>0. /\ at \in [Tasks -> Places] /\ at[t] = "retiring" /\ h \in Tokens /\ h \in Issued
      /\ lock = t /\ lock' = NoTask /\ minted \in Nat
      /\ told \in [Tokens -> Nat] /\ slips \in [Tokens -> Nat]
  BY <1>h, WorksWith DEF Retire, TypeInv, TypeOK, Locked
<1>1. /\ at' = [at EXCEPT ![t] = "handling"]
      /\ UNCHANGED <<tok, posted, meta, flow, minted, refused, told, untold>>
      /\ \/ row'.grant = None /\ slips' = slips
         \/ row' = row /\ slips' = [slips EXCEPT ![h] = @ + 1]
  BY <1>h DEF Retire, Goto, Deletes, store, provider, NoRow
<1>2. \A u \in Tasks : at'[u] \notin Locked
  <2>1. \A u \in Tasks \ {t} : at[u] \notin Locked
    BY <1>0, WorksWith
  <2> QED BY <1>0, <1>1, <2>1 DEF Locked
<1>3. Pending(h)' = Pending(h) \cup {t} /\ t \notin Pending(h)
  BY <1>h, <1>0, <1>1 DEF Pending, Informing
<1>4. \A g \in Tokens \ {h} : Pending(g)' = Pending(g)
  BY <1>h, <1>0, <1>1 DEF Pending, Informing
<1>5. Cardinality(Pending(h)') = Cardinality(Pending(h)) + 1
  BY <1>3, PendingIsFinite, FS_AddElement
<1>6. ASSUME NEW g \in Tokens, Alive(g)' PROVE Alive(g)
  BY <1>0, <1>1, <1>2, <1>6, AliveFades DEF None
<1>7. Alive(h) /\ (slips' = slips => ~Alive(h)')
  <2>1. Alive(h)
    BY <1>h, <1>0 DEF Alive, Locked
  <2>2. h # None /\ flow # h /\ ~(h > minted)
    <3>1. h # None /\ ~(h > minted)
      BY <1>0 DEF Issued, None
    <3>2. flow # h
      BY <1>h, <1>0, <3>1 DEF KeepInv, FlowInv, Busy, Reporting
    <3> QED BY <3>1, <3>2
  <2>3. slips' = slips => row'.grant = None
    <3>1. [slips EXCEPT ![h] = @ + 1] # slips
      <4>1. [slips EXCEPT ![h] = @ + 1][h] = slips[h] + 1 /\ slips[h] \in Nat
        BY <1>0
      <4> QED BY <4>1
    <3> QED BY <1>1, <3>1
  <2> QED BY <1>1, <1>2, <2>1, <2>2, <2>3 DEF Alive
<1>8. ASSUME NEW g \in Tokens
      PROVE  /\ told'[g] + Cardinality(Pending(g)') <= 1 + slips'[g]
             /\ Alive(g)' => told'[g] + Cardinality(Pending(g)') <= slips'[g]
  <2>1. told'[g] = told[g] /\ told[g] \in Nat /\ slips[g] \in Nat
        /\ Cardinality(Pending(g)) \in Nat
    BY <1>0, <1>1, PendingIsFinite
  <2>2. CASE g = h
    <3>1. told[g] + Cardinality(Pending(g)) <= slips[g]
      BY <1>7, <2>2 DEF ToldInv
    <3>2. slips'[g] = slips[g] + 1 \/ (slips'[g] = slips[g] /\ ~Alive(g)')
      BY <1>0, <1>1, <1>7, <2>2
    <3>3. Cardinality(Pending(g)') = Cardinality(Pending(g)) + 1
      BY <1>5, <2>2
    <3> QED BY <2>1, <3>1, <3>2, <3>3
  <2>3. CASE g # h
    <3>1. slips'[g] = slips[g]
      BY <1>0, <1>1, <2>3
    <3>2. Cardinality(Pending(g)') = Cardinality(Pending(g))
      BY <1>4, <2>3
    <3>3. /\ told[g] + Cardinality(Pending(g)) <= 1 + slips[g]
          /\ Alive(g) => told[g] + Cardinality(Pending(g)) <= slips[g]
      BY DEF ToldInv
    <3> QED BY <1>6, <2>1, <3>1, <3>2, <3>3
  <2> QED BY <2>2, <2>3
<1>9. ToldInv'
  BY <1>8 DEF ToldInv
<1>a. \A g : Telling(g) => Telling(g)'
  BY <1>0, <1>1 DEF Telling
<1> QED BY <1>1, <1>9, <1>a DEF HeardInv

LEMMA NotifyTold ==
  ASSUME TypeInv, ToldInv, HeardInv, NEW t \in Tasks, Notify(t)
  PROVE  ToldInv' /\ HeardInv'
<1>h. PICK h : h = tok[t].grant
  OBVIOUS
<1>0. /\ at[t] = "notifying" /\ h \in Tokens
      /\ told \in [Tokens -> Nat] /\ slips \in [Tokens -> Nat] /\ minted \in Nat
  <2>1. at[t] = "notifying" /\ tok[t].grant \in 1..minted
    BY DEF Notify, TypeInv, KnownInv, Busy, Reporting, Issued
  <2>2. minted \in 0..MaxTokens /\ MaxTokens \in Nat
        /\ told \in [Tokens -> Nat] /\ slips \in [Tokens -> Nat]
    BY OAuthAssumption DEF TypeInv, TypeOK
  <2> QED BY <1>h, <2>1, <2>2 DEF Tokens
<1>1. /\ Others(t) /\ at'[t] = "idle"
      /\ UNCHANGED <<row, flow, minted, refused, slips>>
      /\ \/ told' = [told EXCEPT ![h] = @ + 1] /\ untold' = untold
         \/ told' = told /\ untold' = untold \cup {h}
  BY <1>h, EndsIs DEF Notify, store, provider
<1>2. Pending(h)' = Pending(h) \ {t} /\ t \in Pending(h)
  BY <1>h, <1>0, <1>1 DEF Pending, Informing, Others, Same
<1>3. Cardinality(Pending(h)') = Cardinality(Pending(h)) - 1
  BY <1>2, PendingIsFinite, FS_RemoveElement
<1>4. \A g \in Tokens \ {h} : Pending(g)' = Pending(g)
  BY <1>h, <1>0, <1>1 DEF Pending, Informing, Others, Same
<1>5. ASSUME NEW g \in Tokens, Alive(g)' PROVE Alive(g)
  <2>1. \A u \in Tasks : at'[u] \in Locked => at[u] \in Locked /\ tok'[u].grant = tok[u].grant
    BY <1>1 DEF Others, Same, Locked
  <2> QED BY <1>0, <1>1, <1>5, <2>1, AliveFades
<1>6. ASSUME NEW g \in Tokens
      PROVE  /\ told'[g] + Cardinality(Pending(g)') <= 1 + slips'[g]
             /\ Alive(g)' => told'[g] + Cardinality(Pending(g)') <= slips'[g]
  <2>1. told[g] \in Nat /\ slips'[g] = slips[g] /\ slips[g] \in Nat
        /\ Cardinality(Pending(g)) \in Nat
    BY <1>0, <1>1, PendingIsFinite
  <2>2. \/ told'[g] \in {told[g], told[g] + 1}
           /\ Cardinality(Pending(g)') = Cardinality(Pending(g)) - 1
        \/ told'[g] = told[g] /\ Cardinality(Pending(g)') = Cardinality(Pending(g))
    <3>1. CASE g = h
      BY <1>0, <1>1, <1>3, <3>1
    <3>2. CASE g # h
      BY <1>0, <1>1, <1>4, <3>2
    <3> QED BY <3>1, <3>2
  <2>3. /\ told[g] + Cardinality(Pending(g)) <= 1 + slips[g]
        /\ Alive(g) => told[g] + Cardinality(Pending(g)) <= slips[g]
    BY DEF ToldInv
  <2> QED BY <1>5, <2>1, <2>2, <2>3
<1>7. ToldInv'
  BY <1>6 DEF ToldInv
<1>8. ASSUME NEW g \in Tokens, g \in refused
      PROVE  told'[g] >= 1 \/ g \in untold' \/ Telling(g)'
  <2>1. CASE g = h
    BY <1>0, <1>1, <2>1
  <2>2. CASE g # h
    <3>1. Telling(g) => Telling(g)'
      BY <1>h, <1>1, <2>2 DEF Telling, Others, Same
    <3>2. told'[g] = told[g] /\ untold \subseteq untold'
      BY <1>0, <1>1, <2>2
    <3> QED BY <1>8, <3>1, <3>2 DEF HeardInv
  <2> QED BY <2>1, <2>2
<1> QED BY <1>1, <1>7, <1>8 DEF HeardInv

LEMMA OneCalm ==
  ASSUME NEW t \in Tasks, Others(t), at'[t] \notin Busy, at[t] \notin Reporting
  PROVE  \A u \in Tasks : Calms(u)
BY DEF Others, Same, Calms, Busy, Refreshing, Reporting, Informing, Locked

(* What a step leaves alone that is about the notices.                     *)
Silent == UNCHANGED <<told, slips, untold, refused>>

LEMMA SilentCalm ==
  ASSUME TypeInv, Silent, UNCHANGED minted, flow' \in {flow, None},
         \/ row'.grant \in {row.grant, None, flow}
         \/ \E t \in Tasks : at[t] \in Locked /\ row'.grant = tok[t].grant,
         \A u \in Tasks : Calms(u)
  PROVE  Calm
<1>1. minted \in Nat
  BY DEF TypeInv, TypeOK
<1> QED BY <1>1 DEF Silent, Calm

LEMMA CalmKinds ==
  ASSUME TypeInv, [Next]_vars
  PROVE  Calm \/ \E t \in Tasks : Retire(t) \/ Notify(t)
<1> USE OAuthAssumption
<1>0. /\ at \in [Tasks -> Places] /\ tok \in [Tasks -> Rows] /\ row \in Rows /\ NoRow \in Rows
      /\ posted \in [Tasks -> 0..MaxTokens] /\ minted \in Nat /\ NoRow.grant = None
  BY DEF TypeInv, TypeOK, NoRow, Rows, None
<1>a. ASSUME NEW t \in Turns, GetValidToken(t) PROVE Calm
  <2>1. /\ UNCHANGED <<row, flow, minted, told, slips, untold, refused>> /\ t \in Tasks
        /\ at[t] = "idle"
        /\ \/ UNCHANGED <<at, tok>>
           \/ at' = [at EXCEPT ![t] = "locking"] /\ UNCHANGED tok
           \/ at' = [at EXCEPT ![t] = "holding"]
             /\ tok' = [tok EXCEPT ![t] = Loaded(Home[t])]
    BY <1>a DEF GetValidToken, Goto, Takes, Tasks, store, provider, ghosts
  <2>2. \A u \in Tasks : Calms(u)
    BY <1>0, <2>1 DEF Calms, Informing, Reporting, Locked
  <2> QED BY <2>1, <2>2, SilentCalm DEF Silent
<1>b. ASSUME NEW t \in Tasks, Uses(t) \/ Contended(t) PROVE Calm
  <2>1. Ends(t) /\ UNCHANGED <<row, flow, minted, told, slips, untold, refused>>
        /\ at[t] \in {"holding", "locking"}
    BY <1>b DEF Uses, Contended, store, provider, ghosts
  <2>2. \A u \in Tasks : Calms(u)
    BY <2>1, EndsIs, OneCalm DEF Busy, Refreshing, Reporting
  <2> QED BY <2>1, <2>2, SilentCalm DEF Silent
<1>c. ASSUME NEW t \in Tasks, IsRejected(t) \/ Picks(t) PROVE Calm
  <2>1. /\ at' = [at EXCEPT ![t] = "locking"] /\ at[t] \in {"holding", "idle"}
        /\ UNCHANGED <<row, flow, minted, told, slips, untold, refused, tok>>
    BY <1>c DEF IsRejected, Picks, Goto, store, provider, ghosts
  <2>2. \A u \in Tasks : Calms(u)
    BY <1>0, <2>1 DEF Calms, Informing, Reporting, Locked
  <2> QED BY <2>1, <2>2, SilentCalm DEF Silent
<1>d. ASSUME NEW t \in Tasks, Lock(t) PROVE Calm
  <2>1. UNCHANGED <<row, flow, minted, told, slips, untold, refused>> /\ at[t] = "locking"
        /\ lock = NoTask
    BY <1>d DEF Lock, store, provider, ghosts
  <2>2. CASE Returns(t, row)
    <3>1. \A u \in Tasks : Calms(u)
      BY <1>0, <2>1, <2>2, ReturnsIs, OneCalm DEF Busy, Refreshing, Reporting
    <3> QED BY <2>1, <3>1, SilentCalm DEF Silent
  <2>3. CASE Takes(t, row) /\ Goto(t, "posting")
    <3>1. at' = [at EXCEPT ![t] = "posting"] /\ tok' = [tok EXCEPT ![t] = row]
      BY <2>3 DEF Takes, Goto
    <3>2. \A u \in Tasks : Calms(u)
      BY <1>0, <2>1, <3>1 DEF Calms, Informing, Reporting, Locked
    <3> QED BY <2>1, <3>2, SilentCalm DEF Silent
  <2> QED BY <1>d, <2>2, <2>3 DEF Lock, Decides
<1>e. ASSUME NEW t \in Tasks,
             PostFails(t) \/ SaveFails(t) \/ AnswerLost(t) \/ Save(t)
      PROVE  Calm
  <2>1. /\ at[t] \in {"posting", "saving"} /\ \E r \in Rows : Returns(t, r)
        /\ UNCHANGED <<flow, told, slips, untold, refused>>
        /\ row' = row \/ row' = tok[t]
    BY <1>0, <1>e DEF PostFails, SaveFails, AnswerLost, Save, Raises, Issues, store, ghosts
  <2>2. lock = t
    BY <2>1, WorksWith DEF Locked
  <2>3. \A u \in Tasks : Calms(u)
    BY <2>1, <2>2, ReturnsIs, OneCalm DEF Busy, Refreshing, Reporting
  <2>4. minted' \in Nat /\ minted' >= minted
    <3>1. CASE AnswerLost(t)
      <4>1. Issues(t, TRUE) /\ TRUE \in BOOLEAN
        BY <3>1 DEF AnswerLost
      <4> QED BY <4>1, IssueIs
    <3>2. CASE minted' = minted
      BY <1>0, <3>2
    <3> QED BY <1>e, <3>1, <3>2 DEF PostFails, SaveFails, Save, provider
  <2>5. row'.grant = row.grant \/ (at[t] \in Locked /\ row'.grant = tok[t].grant)
    BY <2>1 DEF Locked
  <2> QED BY <2>1, <2>3, <2>4, <2>5 DEF Calm
<1>f. ASSUME NEW t \in Tasks, PostAccepted(t) PROVE Calm
  <2>1. /\ at[t] = "posting" /\ at' = [at EXCEPT ![t] = "rereading"]
        /\ UNCHANGED <<row, flow, told, slips, untold, refused>>
    BY <1>f DEF PostAccepted, Issues, Goto, store, ghosts
  <2>2. minted' \in Nat /\ minted' >= minted
    BY <1>f, IssueIs DEF PostAccepted
  <2>3. tok'[t].grant = tok[t].grant /\ \A u \in Tasks \ {t} : tok'[u] = tok[u]
    BY <1>0, <1>f DEF PostAccepted, Rows
  <2>4. \A u \in Tasks : Calms(u)
    BY <1>0, <2>1, <2>3 DEF Calms, Informing, Reporting, Locked
  <2> QED BY <2>1, <2>2, <2>4 DEF Calm
<1>g. ASSUME NEW t \in Tasks, PostRefused(t) PROVE Calm
  <2>1. /\ at[t] = "posting" /\ at' = [at EXCEPT ![t] = "retiring"]
        /\ tok' = [tok EXCEPT ![t] = [NoRow EXCEPT !.grant = tok[t].grant]]
        /\ UNCHANGED <<row, flow, minted, told, slips, untold>>
        /\ refused' = refused \cup {tok[t].grant}
    BY <1>g DEF PostRefused, Goto, Takes, store, provider
  <2>2. [NoRow EXCEPT !.grant = tok[t].grant].grant = tok[t].grant
    BY DEF NoRow
  <2>3. at'[t] = "retiring" /\ tok'[t].grant = tok[t].grant
    BY <1>0, <2>1, <2>2
  <2>4. \A u \in Tasks \ {t} : at'[u] = at[u] /\ tok'[u] = tok[u]
    BY <1>0, <2>1
  <2>5. \A u \in Tasks : Calms(u)
    BY <2>1, <2>3, <2>4 DEF Calms, Informing, Reporting, Locked
  <2> QED BY <1>0, <2>1, <2>3, <2>5 DEF Calm
<1>h. ASSUME NEW t \in Tasks, Reread(t) PROVE Calm
  <2>1. UNCHANGED <<row, flow, minted, told, slips, untold, refused>> /\ at[t] = "rereading"
    BY <1>h DEF Reread, store, provider, ghosts
  <2>2. CASE Returns(t, row)
    <3>1. lock = t
      BY <2>1, WorksWith DEF Locked
    <3>2. \A u \in Tasks : Calms(u)
      BY <1>0, <2>1, <2>2, <3>1, ReturnsIs, OneCalm DEF Busy, Refreshing, Reporting
    <3> QED BY <2>1, <3>2, SilentCalm DEF Silent
  <2>3. CASE Goto(t, "saving") /\ UNCHANGED tok
    <3>1. \A u \in Tasks : Calms(u)
      BY <1>0, <2>1, <2>3 DEF Goto, Calms, Informing, Reporting, Locked
    <3> QED BY <2>1, <3>1, SilentCalm DEF Silent
  <2> QED BY <1>h, <2>2, <2>3 DEF Reread
<1>i. ASSUME NEW t \in Tasks, Handle(t) PROVE Calm
  <2>1. /\ at[t] = "handling" /\ at' = [at EXCEPT ![t] = "notifying"]
        /\ UNCHANGED <<tok, flow, minted, told, slips, untold, refused>>
        /\ row' \in {row, NoRow}
    BY <1>i DEF Handle, Goto, Deletes, store, provider, ghosts
  <2>2. \A u \in Tasks : Calms(u)
    BY <1>0, <2>1 DEF Calms, Informing, Reporting, Locked
  <2>3. row'.grant \in {row.grant, None}
    BY <1>0, <2>1
  <2> QED BY <2>1, <2>2, <2>3, SilentCalm DEF Silent
<1>j. ASSUME NEW dropped, Drop(dropped), flow' \in {flow, None} PROVE Calm
  <2>1. \A u \in Tasks : u \in dropped /\ at[u] \in Reporting => tok[u].grant \in untold'
    BY <1>j DEF Drop, GrantsAt, Reporting
  <2>2. \A u \in Tasks : Calms(u)
    BY <1>j, <2>1 DEF Drop, Calms, Informing, Locked
  <2>3. UNCHANGED <<row, minted, told, slips, refused>> /\ untold \subseteq untold'
    BY <1>j DEF Drop, store, provider
  <2> QED BY <1>0, <1>j, <2>2, <2>3 DEF Calm
<1>k. ASSUME NEW t \in Turns, Cancel(t) PROVE Calm
  BY <1>j, <1>k DEF Cancel
<1>l. ASSUME NEW w \in Workers, Crash(w) PROVE Calm
  BY <1>j, <1>l DEF Crash
<1>m. ASSUME UNCHANGED <<at, tok>> PROVE \A u \in Tasks : Calms(u)
  BY <1>m DEF Calms
<1>n. ASSUME NEW w \in Workers, Connect(w) \/ Disconnect(w) \/ CacheExpires(w) PROVE Calm
  <2>1. /\ UNCHANGED <<at, tok, minted, told, slips, untold, refused>>
        /\ flow' \in {flow, None} /\ row'.grant \in {row.grant, None, flow}
    BY <1>0, <1>n DEF Connect, Disconnect, CacheExpires, tasks, store, provider, ghosts
  <2> QED BY <1>m, <2>1, SilentCalm DEF Silent
<1>o. ASSUME Expires \/ Revoke \/ WriteExtra \/ FallsSilent \/ ComesBack \/ UNCHANGED vars
      PROVE  Calm
  <2>1. /\ UNCHANGED <<at, tok, minted, told, slips, untold, refused, flow, row>>
    BY <1>o DEF Expires, Revoke, WriteExtra, FallsSilent, ComesBack, vars, tasks, store,
       provider, ghosts
  <2> QED BY <1>m, <2>1, SilentCalm DEF Silent
<1>p. ASSUME Callback PROVE Calm
  <2>1. /\ UNCHANGED <<at, tok, told, slips, untold, refused, row>>
        /\ minted' = minted + 1 /\ flow' = minted'
    BY <1>p DEF Callback, Mint, tasks, store, ghosts
  <2>2. minted' \in Nat /\ minted' >= minted /\ flow' > minted
    BY <1>0, <2>1
  <2> QED BY <1>m, <2>1, <2>2 DEF Calm
<1> QED BY <1>a, <1>b, <1>c, <1>d, <1>e, <1>f, <1>g, <1>h, <1>i, <1>k, <1>l, <1>n, <1>o, <1>p
       DEF Next, Refreshes, Tasks

LEMMA NextTold == TypeInv /\ KeepInv /\ ToldInv /\ HeardInv /\ [Next]_vars
                  => ToldInv' /\ HeardInv'
BY CalmKinds, CalmTold, RetireTold, NotifyTold

(* When the provider refuses a grant the user is told, and once, unless    *)
(* the notice got lost or the row could not be deleted under the lock.     *)
THEOREM EachIsToldOnce == Spec => []ToldOnce
<1>1. TypeInv /\ ToldInv /\ HeardInv => ToldOnce
  <2> SUFFICES ASSUME TypeInv, ToldInv, HeardInv, NEW g \in Tokens
               PROVE  /\ told[g] <= 1 + slips[g]
                      /\ g \in refused => told[g] >= 1 \/ g \in untold \/ Telling(g)
    BY DEF ToldOnce
  <2>1. told[g] \in Nat /\ slips[g] \in Nat /\ Cardinality(Pending(g)) \in Nat
    BY PendingIsFinite DEF TypeInv, TypeOK
  <2>2. told[g] + Cardinality(Pending(g)) <= 1 + slips[g]
    BY DEF ToldInv
  <2>3. told[g] <= 1 + slips[g]
    BY <2>1, <2>2
  <2> QED BY <2>3 DEF HeardInv
<1> QED BY InitTypes, NextTypes, InitKeeps, NextKeeps, InitTold, NextTold, <1>1, PTL
       DEF Spec

================================================================================
