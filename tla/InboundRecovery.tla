---------------------------- MODULE InboundRecovery ----------------------------
(***************************************************************************)
(* What becomes of a message when the worker dies: the idempotency keys,   *)
(* the persisted rows, and the start-up sweep that dispatches orphans.     *)
(*                                                                         *)
(*   handle_webhook_inbound   channels/base.py           seen, refused     *)
(*   inbound consumer         channels/manager.py        intake            *)
(*   messages table           agent/session_db.py        inbound, outbound *)
(*   batcher, lock, turn      agent/ingestion.py         pending .. covers *)
(*   recovery sweep           agent/inbound_recovery.py  orphans, sweeping *)
(*                                                                         *)
(* One user, one messaging channel, one worker at a time.  The keys and    *)
(* the two sets of rows survive a crash; everything else is lost with the  *)
(* process.  TurnDispatch has the detail of a turn; here a turn is what    *)
(* the sweep can tell apart: taken, replied and stored, or ended without   *)
(* a row.                                                                  *)
(***************************************************************************)
EXTENDS Integers, Sequences, FiniteSets

CONSTANTS
  Messages,       (* what the user sends                                   *)
  NoMessage,
  MaxCrashes,     (* bound: crashes of the worker                          *)
  MaxHeartbeats,  (* bound: proactive messages                             *)
  MaxFailures     (* bound: intakes that raise                             *)

ASSUME RecoveryAssumption ==
  /\ NoMessage \notin Messages
  /\ MaxCrashes \in Nat /\ MaxHeartbeats \in Nat /\ MaxFailures \in Nat

VARIABLES
  seen,       (* idempotency_keys                                          *)
  inbound,    (* inbound rows: [msg, seq]                                  *)
  outbound,   (* outbound rows: [for, seq], `for` being what they answer   *)
  top,        (* the largest seq of the session                            *)
  age,        (* of a row: fresh (under 5 s), recent, old (over 30 min)    *)
  refused,    (* messages delivered again and refused as duplicates        *)
  apologised, (* messages whose intake or turn ended with an error reply   *)
  up,         (* the worker: down, starting (before the sweep), up         *)
  intake,     (* accepted, not persisted yet                               *)
  pending,    (* in the batcher                                            *)
  queue,      (* dispatches that wait for the user lock: [own, batch]      *)
  phase, own, (* the turn that holds the lock, and its message             *)
  covers,     (* the messages it answers                                   *)
  orphans,    (* found by the sweep, still to dispatch                     *)
  sweeping,   (* dispatched by the sweep, not ended yet                    *)
  turns,      (* how many turns this worker took each message into         *)
  ended,      (* messages of turns that came to an end                     *)
  crashes, heartbeats, failures

durable == <<seen, inbound, outbound, top, age>>
answers == <<refused, apologised, ended>>
turn == <<phase, own, covers>>
sweep == <<orphans, sweeping>>
counters == <<crashes, heartbeats, failures>>
vars == <<durable, answers, up, intake, pending, queue, turn, sweep, turns,
          counters>>

Persisted == {r.msg : r \in inbound}
Row(m) == CHOOSE r \in inbound : r.msg = m
Masked(m) == \E r \in inbound, o \in outbound : r.msg = m /\ o.seq > r.seq
Queued == {queue[i].own : i \in DOMAIN queue}
Batches == UNION {queue[i].batch : i \in DOMAIN queue}

(* Dispatched from this worker's memory.                                   *)
Live == pending \cup Batches \cup covers

-----------------------------------------------------------------------------
(* Deliveries: webhooks, their retries, and the replays of a channel that  *)
(* asks its server for what it missed (run_startup_backfill)               *)

(* Mutant: the key is not looked at.                                       *)
AcceptAgain(m) ==
  /\ up # "down"
  /\ seen' = seen \cup {m}
  /\ intake' = intake \cup {m}
  /\ UNCHANGED <<inbound, outbound, top, age, answers, up, pending, queue,
                 turn, sweep, turns, counters>>

TryMarkSeen(m) == m \notin seen /\ seen' = seen \cup {m}

Accept(m) ==
  /\ up # "down"
  /\ TryMarkSeen(m)
  /\ intake' = intake \cup {m}
  /\ UNCHANGED <<inbound, outbound, top, age, answers, up, pending, queue,
                 turn, sweep, turns, counters>>

Refuse(m) ==
  /\ up # "down"
  /\ m \in seen \ refused
  /\ refused' = refused \cup {m}
  /\ UNCHANGED <<durable, apologised, ended, up, intake, pending, queue, turn,
                 sweep, turns, counters>>

-----------------------------------------------------------------------------
(* process_inbound_from_bus                                                *)

(* The row, then the batcher.                                              *)
Persist(m) ==
  /\ m \in intake
  /\ intake' = intake \ {m}
  /\ top' = top + 1
  /\ inbound' = inbound \cup {[msg |-> m, seq |-> top + 1]}
  /\ age' = [age EXCEPT ![m] = "fresh"]
  /\ pending' = pending \cup {m}
  /\ UNCHANGED <<seen, outbound, answers, up, queue, turn, sweep, turns,
                 counters>>

(* An exception before the row: _handle_inbound says sorry.                *)
IntakeFails(m) ==
  /\ m \in intake
  /\ failures < MaxFailures
  /\ failures' = failures + 1
  /\ intake' = intake \ {m}
  /\ apologised' = apologised \cup {m}
  /\ UNCHANGED <<durable, refused, ended, up, pending, queue, turn, sweep,
                 turns, crashes, heartbeats>>

(* The batch window is shorter than the freshness floor of the sweep.      *)
Flush ==
  /\ \E m \in pending :
       /\ \A n \in pending : Row(n).seq <= Row(m).seq
       /\ queue' = Append(queue, [own |-> m, batch |-> pending])
  /\ pending' = {}
  /\ UNCHANGED <<durable, answers, up, intake, turn, sweep, turns, counters>>

-----------------------------------------------------------------------------
(* The turn                                                                *)

Takes(S) == turns' = [m \in Messages |-> IF m \in S THEN turns[m] + 1
                                         ELSE turns[m]]

(* The lock is first come first served.                                    *)
Begin ==
  /\ phase = "idle" /\ queue # << >>
  /\ phase' = "loading"
  /\ own' = Head(queue).own
  /\ covers' = Head(queue).batch
  /\ queue' = Tail(queue)
  /\ Takes(Head(queue).batch)
  /\ UNCHANGED <<durable, answers, up, intake, pending, sweep, counters>>

(* A fold takes the whole queue; a folded dispatch of the sweep is over.   *)
CallModel ==
  /\ phase \in {"loading", "thinking"}
  /\ phase' = "thinking"
  /\ covers' = covers \cup Batches
  /\ Takes(Batches)
  /\ sweeping' = IF sweeping \in Queued THEN NoMessage ELSE sweeping
  /\ queue' = << >>
  /\ UNCHANGED <<durable, answers, up, intake, pending, own, orphans,
                 counters>>

Release ==
  /\ phase' = "idle" /\ own' = NoMessage /\ covers' = {}
  /\ sweeping' = IF sweeping = own THEN NoMessage ELSE sweeping
  /\ ended' = ended \cup covers
  /\ UNCHANGED <<seen, inbound, age, refused, up, intake, pending, queue,
                 turns, counters>>

(* dispatch_reply_step, then persist_outbound_step.                        *)
Publish ==
  /\ phase = "thinking"
  /\ phase' = "storing"
  /\ UNCHANGED <<durable, answers, up, intake, pending, queue, own, covers,
                 sweep, turns, counters>>

Store ==
  /\ phase = "storing"
  /\ top' = top + 1
  /\ outbound' = outbound \cup {[for |-> covers, seq |-> top + 1]}
  /\ Release
  /\ UNCHANGED <<apologised, orphans>>

(* An empty reply or an error fallback: nothing is stored.                 *)
EndUnstored ==
  /\ phase = "thinking"
  /\ Release
  /\ UNCHANGED <<outbound, top, apologised, orphans>>

(* Mutant: a failed dispatch ends the sweep.                               *)
TurnFailsSweep ==
  /\ phase # "idle"
  /\ Release
  /\ apologised' = apologised \cup {own}
  /\ orphans' = IF sweeping = own THEN {} ELSE orphans
  /\ UNCHANGED <<outbound, top>>

(* The turn raised or ran out of time; _send_error_fallback.               *)
TurnFails ==
  /\ phase # "idle"
  /\ Release
  /\ apologised' = apologised \cup {own}
  /\ UNCHANGED <<outbound, top, orphans>>

(* A heartbeat stores its own outbound row, without the lock.              *)
Heartbeat ==
  /\ up = "up"
  /\ heartbeats < MaxHeartbeats
  /\ heartbeats' = heartbeats + 1
  /\ top' = top + 1
  /\ outbound' = outbound \cup {[for |-> {}, seq |-> top + 1]}
  /\ UNCHANGED <<seen, inbound, age, answers, up, intake, pending, queue,
                 turn, sweep, turns, crashes, failures>>

-----------------------------------------------------------------------------
(* Crash, boot and sweep                                                   *)

(* Mutant: the queue of the lock outlives the process.                     *)
CrashKeepsQueue ==
  /\ up # "down" /\ crashes < MaxCrashes
  /\ crashes' = crashes + 1
  /\ up' = "down"
  /\ intake' = {} /\ pending' = {}
  /\ phase' = "idle" /\ own' = NoMessage /\ covers' = {}
  /\ orphans' = {} /\ sweeping' = NoMessage
  /\ turns' = [m \in Messages |-> 0]
  /\ UNCHANGED <<durable, answers, queue, heartbeats, failures>>

Crash ==
  /\ up # "down" /\ crashes < MaxCrashes
  /\ crashes' = crashes + 1
  /\ up' = "down"
  /\ intake' = {} /\ pending' = {} /\ queue' = << >>
  /\ phase' = "idle" /\ own' = NoMessage /\ covers' = {}
  /\ orphans' = {} /\ sweeping' = NoMessage
  /\ turns' = [m \in Messages |-> 0]
  /\ UNCHANGED <<durable, answers, heartbeats, failures>>

(* Assumed: a restart takes longer than the freshness floor.               *)
Boot ==
  /\ up = "down"
  /\ up' = "starting"
  /\ age' = [m \in Messages |-> IF age[m] = "fresh" THEN "recent" ELSE age[m]]
  /\ UNCHANGED <<seen, inbound, outbound, top, answers, intake, pending,
                 queue, turn, sweep, turns, counters>>

(* Assumed: the sweep starts within the freshness floor of the channels.   *)
GrowOlder(m) ==
  /\ \/ age[m] = "fresh" /\ up # "starting"
        /\ age' = [age EXCEPT ![m] = "recent"]
     \/ age[m] = "recent" /\ age' = [age EXCEPT ![m] = "old"]
  /\ UNCHANGED <<seen, inbound, outbound, top, answers, up, intake, pending,
                 queue, turn, sweep, turns, counters>>

(* Mutants: no freshness floor; rows with an outbound after them as well.  *)
FreshOrphan(m) ==
  m \in Persisted /\ age[m] \in {"fresh", "recent"} /\ ~Masked(m)
AnyOrphan(m) == m \in Persisted /\ age[m] = "recent"

(* _orphaned_inbounds_select                                               *)
Orphan(m) == m \in Persisted /\ age[m] = "recent" /\ ~Masked(m)

FindOrphans ==
  /\ up = "starting"
  /\ up' = "up"
  /\ orphans' = {m \in Messages : Orphan(m)}
  /\ UNCHANGED <<durable, answers, intake, pending, queue, turn, sweeping,
                 turns, counters>>

(* Mutant: the orphan goes through the intake, which stores it again.      *)
DispatchThroughBus(m) ==
  /\ sweeping = NoMessage
  /\ m \in orphans
  /\ \A n \in orphans : Row(m).seq <= Row(n).seq
  /\ orphans' = orphans \ {m}
  /\ intake' = intake \cup {m}
  /\ UNCHANGED <<durable, answers, up, pending, queue, turn, sweeping, turns,
                 counters>>

(* One orphan at a time, oldest first, straight to _dispatch_to_pipeline.  *)
DispatchOrphan(m) ==
  /\ sweeping = NoMessage
  /\ m \in orphans
  /\ \A n \in orphans : Row(m).seq <= Row(n).seq
  /\ orphans' = orphans \ {m}
  /\ sweeping' = m
  /\ queue' = Append(queue, [own |-> m, batch |-> {m}])
  /\ UNCHANGED <<durable, answers, up, intake, pending, turn, turns, counters>>

-----------------------------------------------------------------------------
Init ==
  /\ seen = {} /\ inbound = {} /\ outbound = {} /\ top = 0
  /\ age = [m \in Messages |-> "recent"]
  /\ refused = {} /\ apologised = {} /\ ended = {}
  /\ up = "down"
  /\ intake = {} /\ pending = {} /\ queue = << >>
  /\ phase = "idle" /\ own = NoMessage /\ covers = {}
  /\ orphans = {} /\ sweeping = NoMessage
  /\ turns = [m \in Messages |-> 0]
  /\ crashes = 0 /\ heartbeats = 0 /\ failures = 0

EndTurn == Publish \/ Store \/ EndUnstored

Next ==
  \/ \E m \in Messages :
       \/ Accept(m) \/ Refuse(m) \/ Persist(m) \/ IntakeFails(m)
       \/ GrowOlder(m) \/ DispatchOrphan(m)
  \/ Flush \/ Begin \/ CallModel \/ EndTurn \/ TurnFails
  \/ Heartbeat \/ Crash \/ Boot \/ FindOrphans

Spec == Init /\ [][Next]_vars

(* The supervisor restarts the worker, whose event loop runs the rest; a   *)
(* turn ends at its deadline at the latest.                                *)
FairSpec ==
  /\ Spec
  /\ WF_vars(Boot) /\ WF_vars(FindOrphans)
  /\ WF_vars(Flush) /\ WF_vars(Begin) /\ WF_vars(CallModel) /\ WF_vars(EndTurn)
  /\ \A m \in Messages : WF_vars(Persist(m)) /\ WF_vars(DispatchOrphan(m))

-----------------------------------------------------------------------------
(* Properties                                                              *)

(* Types, a turn has a message, and a dead process has nothing in memory.  *)
TypeOK ==
  /\ seen \in SUBSET Messages
  /\ inbound \in SUBSET [msg : Messages, seq : Nat]
  /\ outbound \in SUBSET [for : SUBSET Messages, seq : Nat]
  /\ top \in Nat
  /\ age \in [Messages -> {"fresh", "recent", "old"}]
  /\ refused \in SUBSET Messages /\ apologised \in SUBSET Messages
  /\ ended \in SUBSET Messages
  /\ up \in {"down", "starting", "up"}
  /\ intake \in SUBSET Messages /\ pending \in SUBSET Messages
  /\ queue \in Seq([own : Messages, batch : SUBSET Messages])
  /\ phase \in {"idle", "loading", "thinking", "storing"}
  /\ own \in Messages \cup {NoMessage} /\ covers \in SUBSET Messages
  /\ orphans \in SUBSET Messages /\ sweeping \in Messages \cup {NoMessage}
  /\ turns \in [Messages -> Nat]
  /\ crashes \in 0..MaxCrashes /\ heartbeats \in 0..MaxHeartbeats
  /\ failures \in 0..MaxFailures
  /\ phase = "idle" <=> own = NoMessage
  /\ up = "down" => intake = {} /\ pending = {} /\ queue = << >>
                    /\ phase = "idle" /\ orphans = {}

(* A message is stored once, however often it is delivered and however     *)
(* often the worker restarts (try_mark_seen, and the sweep dispatching     *)
(* the row instead of publishing the message again).                       *)
PersistedOnce ==
  \A r, s \in inbound : r.msg = s.msg => r = s

(* While a worker lives no message gets two turns: the sweep leaves alone  *)
(* what the batcher, the queue or a turn has (_FRESHNESS_FLOOR_SECONDS).   *)
OneTurnPerWorker == \A m \in Messages : turns[m] <= 1

(* The replies in the history answer each message once, over any number    *)
(* of restarts (_orphaned_inbounds_select).                                *)
StoredReplyOnce ==
  \A o, p \in outbound : o.for \cap p.for # {} => o = p

(* Every stored message gets a turn that ends, unless an outbound row that *)
(* came after it hides it from the sweep or it is too old to be answered.  *)
EveryOrphanTaken ==
  \A m \in Messages :
    m \in Persisted ~> (m \in ended \/ Masked(m) \/ age[m] = "old")

===============================================================================
