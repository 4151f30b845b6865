--------------------------------- MODULE OAuth ---------------------------------
(***************************************************************************)
(* Token life cycle of one connection, a pair of a user and an integration *)
(* (backend/app/services/oauth.py): the row of oauth_tokens, the cache     *)
(* each worker keeps of it, refreshes under an advisory lock of the        *)
(* database by turns and by the background sweep, connecting again,        *)
(* disconnecting and retiring a grant that the provider refuses.           *)
(*                                                                         *)
(*   oauth_tokens             row                                          *)
(*   pg_try_advisory_lock     lock                                         *)
(*   _token_cache             cache[w]   (worker w)                        *)
(*   a call of the service    at, tok, posted, refusal                     *)
(*   handle_callback          flow                                         *)
(*   the provider (external)  minted, stale, live                          *)
(*                                                                         *)
(* Tokens are numbered in the order they are issued; a grant is named by   *)
(* its first token.  The provider may rotate the refresh token, and then   *)
(* it accepts the newest one of the grant only.  Every token has a refresh *)
(* token and expires, in the order of issue.  A step is the code between   *)
(* two awaits, except that reading the row, storing what was read in the   *)
(* cache and deciding upon it are one step, and so is the release of the   *)
(* lock with what comes before it.                                         *)
(***************************************************************************)
EXTENDS Naturals, FiniteSets

CONSTANTS
  Workers,
  Turns,       (* calls by a turn: get_valid_token, refresh_rejected_token *)
  Sweeps,      (* the sweep loops                                          *)
  Home,        (* Home[t]: the worker of t                                 *)
  NoTask,
  MaxTokens,   (* bound: tokens the provider issues                        *)
  MaxNotes,    (* bound: writes of the connection's metadata               *)
  MaxFaults    (* bound: failures, cancellations and crashes               *)

ASSUME OAuthAssumption ==
  /\ Turns \cap Sweeps = {} /\ NoTask \notin Turns \cup Sweeps
  /\ IsFiniteSet(Turns \cup Sweeps)
  /\ Home \in [Turns \cup Sweeps -> Workers]
  /\ MaxTokens \in Nat /\ MaxNotes \in Nat /\ MaxFaults \in Nat

(* load_token is called by turns only: the caches that matter.             *)
Readers == {Home[t] : t \in Turns}
Tasks == Turns \cup Sweeps
Tokens == 1..MaxTokens
None == 0
NoRow == [grant |-> None, access |-> None, refresh |-> None]
Unset == [grant |-> None, access |-> None, refresh |-> 1]

VARIABLES
  row,       (* the tokens of the row, or NoRow                            *)
  extra,     (* its metadata, extra_json: the number of the write          *)
  lock,      (* the task that holds the advisory lock, or NoTask           *)
  cache,     (* [worker of a turn]: what load_token answers, or Unset      *)
  at,        (* where each task is                                         *)
  tok,       (* [task]: the token it works with                            *)
  posted,    (* [task]: the refresh token it posted                        *)
  meta,      (* [task]: the metadata to be saved                           *)
  refusal,   (* tasks whose call was refused with their token              *)
  flow,      (* a grant whose code was exchanged and that is not saved yet *)
  minted,    (* tokens issued so far                                       *)
  stale,     (* tokens up to this one are expired                          *)
  live,      (* [grant]: the refresh token the provider accepts            *)
  chosen,    (* the connection the user made last, None after disconnect   *)
  notes,     (* writes of its metadata                                     *)
  hit,       (* the user's last change fell between re-read and save       *)
  dormant,   (* the user has sent no message for 14 days                   *)
  refused,   (* grants the provider refused                                *)
  replays,   (* grants whose spent refresh token was posted again          *)
  lost,      (* grants whose newest refresh token got lost on its way      *)
  told,      (* [grant]: reconnect notices                                 *)
  slips,     (* [grant]: failed deletes under the lock                     *)
  untold,    (* grants whose notice got lost                               *)
  faults

store == <<row, extra>>
tasks == <<at, tok, posted, meta, refusal>>
provider == <<minted, stale, live>>
user == <<chosen, notes, hit, dormant>>
ghosts == <<refused, replays, lost, told, slips, untold>>
vars == <<store, lock, cache, tasks, flow, provider, user, ghosts, faults>>

Locked == {"posting", "rereading", "saving", "retiring"}
Places == Locked \cup {"idle", "holding", "locking", "handling", "notifying"}
Rows == [grant : 0..MaxTokens, access : 0..MaxTokens, refresh : 0..MaxTokens]

Goto(t, place) == at' = [at EXCEPT ![t] = place]
Takes(t, r) == tok' = [tok EXCEPT ![t] = r]
Caches(w, r) ==
  cache' = IF w \in Readers THEN [cache EXCEPT ![w] = r] ELSE cache

(* OAuthTokenData.is_expired, with its buffer of five minutes.             *)
IsExpired(r) == r.access # None /\ r.access <= stale

(* The call is over.                                                       *)
Ends(t) ==
  /\ Goto(t, "idle") /\ Takes(t, NoRow)
  /\ posted' = [posted EXCEPT ![t] = None] /\ meta' = [meta EXCEPT ![t] = 0]
  /\ refusal' = refusal \ {t}

Fault == faults < MaxFaults /\ faults' = faults + 1

-----------------------------------------------------------------------------
(* The provider, and the user at its site                                  *)

Mint == minted < MaxTokens /\ minted' = minted + 1

(* Time passes.                                                            *)
Expires ==
  /\ stale < minted
  /\ stale' = stale + 1
  /\ UNCHANGED <<store, lock, cache, tasks, flow, minted, live, user, ghosts,
                 faults>>

Revoke ==
  /\ chosen # None /\ live[chosen] # None
  /\ live' = [live EXCEPT ![chosen] = None]
  /\ UNCHANGED <<store, lock, cache, tasks, flow, minted, stale, user, ghosts,
                 faults>>

-----------------------------------------------------------------------------
(* Connecting.  handle_callback does not take the lock.                    *)

(* A refresh has looked at the row for the last time before its save.      *)
InWindow == \E t \in Tasks : at[t] = "saving"

(* The pending state is popped and the code exchanged; when that fails     *)
(* nothing is left of the flow.                                            *)
Callback ==
  /\ flow = None /\ Mint
  /\ flow' = minted'
  /\ live' = [live EXCEPT ![minted'] = minted']
  /\ UNCHANGED <<store, lock, cache, tasks, stale, user, ghosts, faults>>

(* save_token after the look-up of the account's address.                  *)
Connect(w) ==
  /\ flow # None
  /\ row' = [grant |-> flow, access |-> flow, refresh |-> flow] /\ extra' = 0
  /\ Caches(w, Unset)
  /\ flow' = None
  /\ chosen' = flow /\ notes' = 0 /\ hit' = InWindow
  /\ UNCHANGED <<lock, tasks, provider, dormant, ghosts, faults>>

(* delete_token, from the settings page or the chat.                       *)
Disconnect(w) ==
  /\ row # NoRow
  /\ row' = NoRow /\ extra' = 0
  /\ Caches(w, Unset)
  /\ chosen' = None /\ notes' = 0 /\ hit' = InWindow
  /\ UNCHANGED <<lock, tasks, flow, provider, dormant, ghosts, faults>>

(* An integration writes extra_json, without the lock.                     *)
WriteExtra ==
  /\ row # NoRow /\ notes < MaxNotes
  /\ extra' = notes + 1
  /\ notes' = notes + 1 /\ hit' = (hit \/ InWindow)
  /\ UNCHANGED <<row, lock, cache, tasks, flow, provider, chosen, dormant,
                 ghosts, faults>>

(* The last message falls out of the window of the sweep (bound: while     *)
(* nobody works on the connection); another one arrives.  Turns go on in   *)
(* between: the heartbeat's need no message.                               *)
FallsSilent ==
  /\ \A t \in Tasks : at[t] = "idle"
  /\ ~dormant /\ dormant' = TRUE
  /\ UNCHANGED <<store, lock, cache, tasks, flow, provider, chosen, notes, hit,
                 ghosts, faults>>

ComesBack ==
  /\ dormant /\ dormant' = FALSE
  /\ UNCHANGED <<store, lock, cache, tasks, flow, provider, chosen, notes, hit,
                 ghosts, faults>>

-----------------------------------------------------------------------------
(* get_valid_token, and the calls that use its token                       *)

(* load_token: the entry of the cache, or the row.                         *)
Loaded(w) ==
  IF w \in Readers /\ cache[w] # Unset THEN cache[w] ELSE row

GetValidToken(t) ==
  LET r == Loaded(Home[t]) IN
  /\ at[t] = "idle"
  /\ Caches(Home[t], r)
  /\ \/ r = NoRow /\ UNCHANGED <<at, tok>>
     \/ r # NoRow /\ IsExpired(r) /\ Goto(t, "locking") /\ UNCHANGED tok
     \/ r # NoRow /\ ~IsExpired(r) /\ Goto(t, "holding") /\ Takes(t, r)
  /\ UNCHANGED <<store, lock, posted, meta, refusal, flow, provider, user,
                 ghosts, faults>>

(* The time to live of an entry is over, at any time.                      *)
CacheExpires(w) ==
  /\ w \in Readers /\ cache[w] # Unset
  /\ Caches(w, Unset)
  /\ UNCHANGED <<store, lock, tasks, flow, provider, user, ghosts, faults>>

Uses(t) ==
  /\ at[t] = "holding"
  /\ Ends(t)
  /\ UNCHANGED <<store, lock, cache, flow, provider, user, ghosts, faults>>

(* 401: refresh_rejected_token.                                            *)
IsRejected(t) ==
  /\ at[t] = "holding"
  /\ refusal' = refusal \cup {t}
  /\ Goto(t, "locking")
  /\ UNCHANGED <<store, lock, cache, tok, posted, meta, flow, provider, user,
                 ghosts, faults>>

(* OAuthRefreshScheduler.sweep, of a token near its expiry: at any time,   *)
(* but only for a user who has been active.                                *)
Picks(t) ==
  /\ at[t] = "idle"
  /\ row # NoRow /\ ~dormant
  /\ Goto(t, "locking")
  /\ UNCHANGED <<store, lock, cache, tok, posted, meta, refusal, flow,
                 provider, user, ghosts, faults>>

-----------------------------------------------------------------------------
(* refresh_token                                                           *)

(* It returns the token r, or NoRow for nothing; `finally` frees the lock. *)
(* A call that was refused is made once more and is over.                  *)
Returns(t, r) ==
  /\ lock' = NoTask
  /\ IF r # NoRow /\ t \in Turns \ refusal
     THEN /\ Takes(t, r) /\ Goto(t, "holding")
          /\ posted' = [posted EXCEPT ![t] = None]
          /\ meta' = [meta EXCEPT ![t] = 0] /\ UNCHANGED refusal
     ELSE Ends(t)

Raises(t) == Returns(t, NoRow)

(* Mutant: an expiry is enough, even if it is past.                        *)
HasExpiry(t, r) ==
  IF t \in refusal THEN r.access # tok[t].access ELSE r.access # None

(* A refresh by somebody else has made this one unnecessary.               *)
PeerRefreshed(t, r) ==
  IF t \in refusal THEN r.access # tok[t].access ELSE ~IsExpired(r)

(* The body, for the row r read under the lock.                            *)
Decides(t, r) ==
  \/ /\ r = NoRow \/ PeerRefreshed(t, r)
     /\ Returns(t, r)
  \/ /\ r # NoRow /\ ~PeerRefreshed(t, r)
     /\ lock' = t
     /\ Takes(t, r) /\ Goto(t, "posting")
     /\ posted' = [posted EXCEPT ![t] = r.refresh]
     /\ UNCHANGED <<meta, refusal>>

(* Mutant: the lock is not waited for.                                     *)
LockAnyway(t) ==
  /\ at[t] = "locking"
  /\ Caches(Home[t], row)
  /\ Decides(t, row)
  /\ UNCHANGED <<store, flow, provider, user, ghosts, faults>>

(* Mutant: load_token instead of load_token_uncached.                      *)
LockCached(t) ==
  /\ at[t] = "locking" /\ lock = NoTask
  /\ Caches(Home[t], Loaded(Home[t]))
  /\ Decides(t, Loaded(Home[t]))
  /\ UNCHANGED <<store, flow, provider, user, ghosts, faults>>

(* load_token_uncached under the lock.                                     *)
Lock(t) ==
  /\ at[t] = "locking" /\ lock = NoTask
  /\ Caches(Home[t], row)
  /\ Decides(t, row)
  /\ UNCHANGED <<store, flow, provider, user, ghosts, faults>>

(* _LOCK_MAX_WAIT_S is over.                                               *)
Contended(t) ==
  /\ at[t] = "locking" /\ lock # NoTask
  /\ Ends(t)
  /\ UNCHANGED <<store, lock, cache, flow, provider, user, ghosts, faults>>

IsLive(t) == live[tok[t].grant] = posted[t]

(* A new token; `rotate`: and a new refresh token in the place of the old. *)
Issues(t, rotate) ==
  /\ at[t] = "posting" /\ IsLive(t)
  /\ Mint /\ UNCHANGED stale
  /\ live' = IF rotate THEN [live EXCEPT ![tok[t].grant] = minted'] ELSE live

PostAccepted(t) ==
  /\ \E rotate \in BOOLEAN :
       /\ Issues(t, rotate)
       /\ tok' = [tok EXCEPT ![t].access = minted',
                             ![t].refresh = IF rotate THEN minted' ELSE @]
  /\ Goto(t, "rereading")
  /\ Caches(Home[t], Unset)
  /\ UNCHANGED <<store, lock, posted, meta, refusal, flow, user, ghosts,
                 faults>>

(* The provider answers, and the answer does not arrive.                   *)
AnswerLost(t) ==
  /\ Fault /\ Issues(t, TRUE)
  /\ lost' = lost \cup {tok[t].grant}
  /\ Raises(t)
  /\ UNCHANGED <<store, cache, flow, user, refused, replays, told, slips,
                 untold>>

(* 5xx, network.                                                           *)
PostFails(t) ==
  /\ at[t] = "posting"
  /\ Raises(t)
  /\ UNCHANGED <<store, cache, flow, provider, user, ghosts, faults>>

(* invalid_grant.                                                          *)
PostRefused(t) ==
  /\ at[t] = "posting" /\ ~IsLive(t)
  /\ refused' = refused \cup {tok[t].grant}
  /\ replays' = IF live[tok[t].grant] = None THEN replays
                ELSE replays \cup {tok[t].grant}
  /\ Goto(t, "retiring") /\ Takes(t, [NoRow EXCEPT !.grant = tok[t].grant])
  /\ posted' = [posted EXCEPT ![t] = None]
  /\ UNCHANGED <<store, lock, cache, meta, refusal, flow, provider, user,
                 lost, told, slips, untold, faults>>

(* Mutant: no second look.                                                 *)
RereadSkipped(t) ==
  /\ at[t] = "rereading"
  /\ Goto(t, "saving")
  /\ UNCHANGED <<store, lock, cache, tok, posted, meta, refusal, flow,
                 provider, user, ghosts, faults>>

(* The user disconnected, reconnected, or did neither; then the metadata   *)
(* is that of now.                                                         *)
Reread(t) ==
  /\ at[t] = "rereading"
  /\ Caches(Home[t], row)
  /\ IF row = NoRow \/ row.refresh # posted[t] THEN Returns(t, row)
     ELSE /\ meta' = [meta EXCEPT ![t] = extra] /\ Goto(t, "saving")
          /\ posted' = [posted EXCEPT ![t] = None]
          /\ UNCHANGED <<lock, tok, refusal>>
  /\ UNCHANGED <<store, flow, provider, user, ghosts, faults>>

Save(t) ==
  /\ at[t] = "saving"
  /\ row' = tok[t] /\ extra' = meta[t]
  /\ Caches(Home[t], Unset)
  /\ Returns(t, tok[t])
  /\ UNCHANGED <<flow, provider, user, ghosts, faults>>

SaveFails(t) ==
  /\ at[t] = "saving" /\ Fault
  /\ lost' = lost \cup {tok[t].grant}
  /\ Raises(t)
  /\ UNCHANGED <<store, cache, flow, provider, user, refused, replays, told,
                 slips, untold>>

-----------------------------------------------------------------------------
(* A dead grant                                                            *)

(* delete_token, of whatever the row holds by now.                         *)
Deletes(t) == row' = NoRow /\ extra' = 0 /\ Caches(Home[t], Unset)

(* Mutant: the row is left to handle_permanent_refresh_failure.            *)
RetireLater(t) ==
  /\ at[t] = "retiring"
  /\ Goto(t, "handling") /\ lock' = NoTask
  /\ UNCHANGED <<store, cache, tok, posted, meta, refusal, flow, provider,
                 user, ghosts, faults>>

(* Under the lock, before it is released.                                  *)
Retire(t) ==
  /\ at[t] = "retiring"
  /\ Goto(t, "handling") /\ lock' = NoTask
  /\ \/ Deletes(t) /\ UNCHANGED <<slips, faults>>
     \/ /\ Fault
        /\ slips' = [slips EXCEPT ![tok[t].grant] = @ + 1]
        /\ UNCHANGED <<store, cache>>
  /\ UNCHANGED <<tok, posted, meta, refusal, flow, provider, user, refused,
                 replays, lost, told, untold>>

(* handle_permanent_refresh_failure.                                       *)
Handle(t) ==
  /\ at[t] = "handling"
  /\ Goto(t, "notifying")
  /\ \/ Deletes(t) /\ UNCHANGED faults
     \/ Fault /\ UNCHANGED <<store, cache>>
  /\ UNCHANGED <<lock, tok, posted, meta, refusal, flow, provider, user,
                 ghosts>>

(* Publishing failed, or the user has no enabled route: nobody is told.    *)
Notify(t) ==
  /\ at[t] = "notifying"
  /\ Ends(t)
  /\ \/ /\ told' = [told EXCEPT ![tok[t].grant] = @ + 1]
        /\ UNCHANGED <<untold, faults>>
     \/ /\ Fault
        /\ untold' = untold \cup {tok[t].grant}
        /\ UNCHANGED told
  /\ UNCHANGED <<store, lock, cache, flow, provider, user, refused, replays,
                 lost, slips>>

-----------------------------------------------------------------------------
(* Tasks that stop in the middle                                           *)

GrantsAt(dropped, places) ==
  {tok[t].grant : t \in {d \in dropped : at[d] \in places}}

Drop(dropped) ==
  /\ Fault
  /\ at' = [t \in Tasks |-> IF t \in dropped THEN "idle" ELSE at[t]]
  /\ tok' = [t \in Tasks |-> IF t \in dropped THEN NoRow ELSE tok[t]]
  /\ posted' = [t \in Tasks |-> IF t \in dropped THEN None ELSE posted[t]]
  /\ meta' = [t \in Tasks |-> IF t \in dropped THEN 0 ELSE meta[t]]
  /\ refusal' = refusal \ dropped
  /\ lock' = IF lock \in dropped THEN NoTask ELSE lock
  /\ lost' = lost \cup GrantsAt(dropped, {"rereading", "saving"})
  /\ untold' = untold
       \cup GrantsAt(dropped, {"retiring", "handling", "notifying"})
  /\ UNCHANGED <<store, provider, user, refused, replays, told, slips>>

(* The turn's deadline.  A refresh after a refused call is shielded.       *)
Cancel(t) ==
  /\ at[t] # "idle" /\ t \notin refusal
  /\ Drop({t})
  /\ UNCHANGED <<cache, flow>>

(* The worker restarts; the database frees the lock of its connection.     *)
Crash(w) ==
  /\ Drop({t \in Tasks : Home[t] = w})
  /\ Caches(w, Unset)
  /\ flow' \in {flow, None}

-----------------------------------------------------------------------------
Init ==
  /\ row = NoRow /\ extra = 0 /\ lock = NoTask
  /\ cache = [w \in Readers |-> Unset]
  /\ at = [t \in Tasks |-> "idle"] /\ tok = [t \in Tasks |-> NoRow]
  /\ posted = [t \in Tasks |-> None]
  /\ meta = [t \in Tasks |-> 0] /\ refusal = {}
  /\ flow = None
  /\ minted = 0 /\ stale = 0
  /\ live = [g \in Tokens |-> None]
  /\ chosen = None /\ notes = 0 /\ hit = FALSE /\ dormant = FALSE
  /\ refused = {} /\ replays = {} /\ lost = {} /\ untold = {}
  /\ told = [g \in Tokens |-> 0] /\ slips = [g \in Tokens |-> 0]
  /\ faults = 0

Refreshes(t) ==
  \/ Lock(t) \/ Contended(t)
  \/ PostAccepted(t) \/ PostRefused(t) \/ PostFails(t)
  \/ Reread(t) \/ Save(t) \/ Retire(t) \/ Handle(t) \/ Notify(t)

Next ==
  \/ Expires \/ Revoke \/ Callback \/ WriteExtra \/ FallsSilent \/ ComesBack
  \/ \E w \in Workers : \/ Connect(w) \/ Disconnect(w)
                        \/ CacheExpires(w) \/ Crash(w)
  \/ \E t \in Turns : \/ GetValidToken(t) \/ Uses(t) \/ IsRejected(t)
                      \/ Cancel(t)
  \/ \E t \in Sweeps : Picks(t)
  \/ \E t \in Tasks : Refreshes(t) \/ AnswerLost(t) \/ SaveFails(t)

Spec == Init /\ [][Next]_vars

(* The sweep comes back every two minutes and takes the tokens of active   *)
(* users, a task that can go on does, and the provider does not fail for   *)
(* ever.                                                                   *)
Fairness ==
  /\ \A t \in Tasks : /\ WF_vars(Refreshes(t))
                     /\ SF_vars(PostAccepted(t) \/ PostRefused(t))
  /\ \A t \in Sweeps : WF_vars(Picks(t))

FairSpec == Spec /\ Fairness

-----------------------------------------------------------------------------
(* Properties                                                              *)

(* Types; and the lock is held by the only task that is at a place of the  *)
(* critical section of refresh_token.                                      *)
TypeOK ==
  /\ row \in Rows /\ extra \in 0..MaxNotes
  /\ cache \in [Readers -> Rows \cup {Unset}]
  /\ meta \in [Tasks -> 0..MaxNotes]
  /\ tok \in [Tasks -> Rows] /\ at \in [Tasks -> Places]
  /\ posted \in [Tasks -> 0..MaxTokens]
  /\ refusal \subseteq Turns
  /\ flow \in 0..MaxTokens
  /\ minted \in 0..MaxTokens
  /\ stale \in 0..minted
  /\ live \in [Tokens -> 0..MaxTokens]
  /\ chosen \in 0..MaxTokens /\ notes \in 0..MaxNotes
  /\ hit \in BOOLEAN /\ dormant \in BOOLEAN
  /\ refused \subseteq Tokens /\ replays \subseteq refused
  /\ lost \subseteq Tokens /\ untold \subseteq Tokens
  /\ told \in [Tokens -> Nat] /\ slips \in [Tokens -> Nat]
  /\ faults \in 0..MaxFaults
  /\ \A t \in Tasks : lock = t <=> at[t] \in Locked

(* A refresh token that the provider has replaced is posted again only if  *)
(* an answer or a save got lost: with rotating refresh tokens the second   *)
(* post kills the connection.  The lock and the reload that goes around    *)
(* the cache are what keeps two workers from it.                           *)
ReplayNeedsLoss == replays \subseteq lost

(* The row is what the user last chose, with the metadata that was written *)
(* to it: a refresh puts back neither a connection that was removed or     *)
(* replaced while the provider answered, nor older metadata, unless the    *)
(* change fell between its second look at the row and its save.            *)
KeepsChoice ==
  row # NoRow => hit \/ (row.grant = chosen /\ extra = notes)

Telling(g) ==
  \E t \in Tasks : tok[t].grant = g
                   /\ at[t] \in {"retiring", "handling", "notifying"}

(* When the provider refuses a grant the user is told, and once, unless    *)
(* the notice got lost or the row could not be deleted under the lock.     *)
ToldOnce ==
  \A g \in Tokens :
    /\ told[g] <= 1 + slips[g]
    /\ g \in refused => told[g] >= 1 \/ g \in untold \/ Telling(g)

(* A stale token does not stay while its user is active: the sweep         *)
(* refreshes or retires it.  Only a dormant user's may stay, so that the   *)
(* provider can end it (_REFRESH_ACTIVITY_WINDOW_DAYS).  (minted =         *)
(* MaxTokens is the end of the instance.)                                  *)
StaleIsRefreshed ==
  (row # NoRow /\ IsExpired(row) /\ ~dormant)
    ~> (row = NoRow \/ ~IsExpired(row) \/ dormant \/ minted = MaxTokens)

(* "Retire the dead grant before releasing the lock": a connection that    *)
(* the user made disappears only when the provider refused it.             *)
RetiresRefused == chosen # None /\ row = NoRow => chosen \in refused
===============================================================================
