----------------------------- MODULE ApprovalGate -----------------------------
(***************************************************************************)
(* The approval gate of backend/app/agent/approval.py for ONE user: every  *)
(* structure of the gate (the `_pending` dict, the pending_approvals row,  *)
(* the audit rows) is keyed by user_id, so users do not interact.          *)
(*                                                                         *)
(* Actors:                                                                 *)
(*   asks      one call of request_approval() each, with the               *)
(*             PendingApproval object it creates.  UserAsks are made by    *)
(*             turns that hold the per-user lock, BeatAsks by heartbeat    *)
(*             turns, which do not take that lock.                         *)
(*   tasks     everything that calls resolve(): an inbound message handled *)
(*             by process_inbound_from_bus (Replies) and the               *)
(*             _interrupt_stale_approval poll of a dispatch that waits for *)
(*             the user lock (Polls).  Each one acts once.                 *)
(*   cleaner   cleanup_orphaned_approvals(), run when a worker boots.      *)
(*                                                                         *)
(* A step of an actor is the code between two awaits; every database call  *)
(* is a step of its own, and may fail because its errors are swallowed.    *)
(***************************************************************************)
EXTENDS Naturals, FiniteSets

CONSTANTS
  UserAsks,       (* approval requests made by user turns                  *)
  BeatAsks,       (* approval requests made by heartbeat turns             *)
  Replies,        (* inbound messages that arrive while a prompt is open   *)
  Polls,          (* interrupt polls of dispatches waiting for the lock    *)
  Grants,         (* the decisions that let the tool run                   *)
  Denied,
  Interrupted,
  NoDecision,
  NoAsk,
  MaxReprompts,   (* _MAX_APPROVAL_REPROMPTS                               *)
  MaxFaults,      (* bound: database calls that fail                       *)
  MaxCrashes,     (* bound: worker crashes                                 *)
  MaxPeerBoots,   (* bound: peers that boot while this worker is alive     *)
  TurnDeadline    (* TRUE: the turn deadline may cancel a waiting ask      *)

Asks      == UserAsks \cup BeatAsks
Tasks     == Replies \cup Polls
Decisions == Grants \cup {Denied, Interrupted}

ASSUME GateAssumption ==
  /\ UserAsks \cap BeatAsks = {}
  /\ Replies \cap Polls = {}
  /\ Denied # Interrupted /\ {Denied, Interrupted} \cap Grants = {}
  /\ NoDecision \notin Decisions
  /\ NoAsk \notin Asks
  /\ MaxReprompts \in Nat /\ MaxFaults \in Nat
  /\ MaxCrashes \in Nat /\ MaxPeerBoots \in Nat
  /\ TurnDeadline \in BOOLEAN

VARIABLES
  pc,         (* where each request_approval() call is                     *)
  decision,   (* PendingApproval.decision                                  *)
  event,      (* PendingApproval.event is set                              *)
  reprompts,  (* PendingApproval.reprompt_count                            *)
  outcome,    (* what request_approval() hands back to the agent           *)
  pending,    (* _pending[user_id]                                         *)
  row,        (* the pending_approvals row of the user                     *)
  audit,      (* the approval_events rows                                  *)
  tpc,        (* where each resolving task is                              *)
  seen,       (* the ask that was pending when the task looked             *)
  target,     (* the ask the task's resolve() took from _pending           *)
  choice,     (* the decision it passed                                    *)
  worker,     (* "up", "down" or "booting"                                 *)
  cleaner,    (* progress of cleanup_orphaned_approvals and its snapshot   *)
  notified,   (* asks the user was told were interrupted                   *)
  faults, crashes, peers

askVars    == <<pc, decision, event, reprompts, outcome>>
taskVars   == <<tpc, seen, target, choice>>
workerVars == <<worker, cleaner, notified, crashes, peers>>
vars == <<askVars, pending, row, audit, taskVars, workerVars, faults>>

ActivePc == {"requested", "persisted", "waiting", "aborting", "closing",
             "expiring", "expired"}
Active(a) == pc[a] \in ActivePc

-----------------------------------------------------------------------------
(* Database calls: the error is logged and swallowed.                      *)

Fault == faults < MaxFaults /\ faults' = faults + 1

(* _delete_pending_row: keyed by the user, whatever request the row is of. *)
DeleteRow ==
  \/ row' = NoAsk /\ UNCHANGED faults
  \/ Fault /\ UNCHANGED row

(* _log_approval_event                                                     *)
Log(a, kind, by) ==
  \/ /\ audit' = audit \cup {[ask |-> a, event |-> kind, by |-> by]}
     /\ UNCHANGED faults
  \/ Fault /\ UNCHANGED audit

-----------------------------------------------------------------------------
(* request_approval                                                        *)

(* One user turn at a time holds the lock and it asks for one tool after   *)
(* the other; the scheduler runs one heartbeat of a user at a time.        *)
SameRequester(a) == IF a \in UserAsks THEN UserAsks ELSE BeatAsks

Request(a) ==
  /\ worker = "up"
  /\ pc[a] = "idle"
  /\ \A b \in SameRequester(a) : ~Active(b)
  /\ Log(a, "requested", a)
  /\ pc' = [pc EXCEPT ![a] = "requested"]
  /\ UNCHANGED <<decision, event, reprompts, outcome, pending, row,
                 taskVars, workerVars>>

PersistRow(a) ==
  /\ pc[a] = "requested"
  /\ \/ row' = a /\ UNCHANGED faults
     \/ Fault /\ UNCHANGED row
  /\ pc' = [pc EXCEPT ![a] = "persisted"]
  /\ UNCHANGED <<decision, event, reprompts, outcome, pending, audit,
                 taskVars, workerVars>>

(* Mutant: an entry that is already there is kept (setdefault).            *)
RegisterIfFree(a) ==
  /\ pc[a] = "persisted"
  /\ pending' = IF pending = NoAsk THEN a ELSE pending
  /\ pc' = [pc EXCEPT ![a] = "waiting"]
  /\ UNCHANGED <<decision, event, reprompts, outcome, row, audit, taskVars,
                 workerVars, faults>>

(* Registers in _pending and queues the prompt: the bus queue is           *)
(* unbounded, so there is no suspension between the two.                   *)
Register(a) ==
  /\ pc[a] = "persisted"
  /\ pending' = a
  /\ pc' = [pc EXCEPT ![a] = "waiting"]
  /\ UNCHANGED <<decision, event, reprompts, outcome, row, audit, taskVars,
                 workerVars, faults>>

(* publish_outbound raised: whatever entry the user has is dropped.        *)
PublishFails(a) ==
  /\ pc[a] = "persisted"
  /\ pending' = NoAsk
  /\ pc' = [pc EXCEPT ![a] = "aborting"]
  /\ outcome' = [outcome EXCEPT ![a] = Denied]
  /\ UNCHANGED <<decision, event, reprompts, row, audit, taskVars, workerVars,
                 faults>>

(* Mutant: the entry is not popped when the ask returns.                   *)
WakeKeepsEntry(a) ==
  /\ pc[a] = "waiting"
  /\ event[a]
  /\ outcome' = [outcome EXCEPT ![a] = decision[a]]
  /\ pc' = [pc EXCEPT ![a] = "closing"]
  /\ UNCHANGED <<decision, event, reprompts, pending, row, audit, taskVars,
                 workerVars, faults>>

Wake(a) ==
  /\ pc[a] = "waiting"
  /\ event[a]
  /\ outcome' = [outcome EXCEPT
                   ![a] = IF decision[a] = NoDecision THEN Denied
                                                      ELSE decision[a]]
  /\ pending' = NoAsk
  /\ pc' = [pc EXCEPT ![a] = "closing"]
  /\ UNCHANGED <<decision, event, reprompts, row, audit, taskVars, workerVars,
                 faults>>

(* Mutants: an expired ask is granted; is INTERRUPTED; never expires.      *)
ExpireGrants(a) ==
  /\ pc[a] = "waiting"
  /\ \E d \in Grants : outcome' = [outcome EXCEPT ![a] = d]
  /\ pending' = NoAsk
  /\ pc' = [pc EXCEPT ![a] = "expiring"]
  /\ UNCHANGED <<decision, event, reprompts, row, audit, taskVars, workerVars,
                 faults>>

ExpireInterrupts(a) ==
  /\ pc[a] = "waiting"
  /\ outcome' = [outcome EXCEPT ![a] = Interrupted]
  /\ pending' = NoAsk
  /\ pc' = [pc EXCEPT ![a] = "expiring"]
  /\ UNCHANGED <<decision, event, reprompts, row, audit, taskVars, workerVars,
                 faults>>

NoExpire(a) == FALSE /\ UNCHANGED vars

(* wait_for raised TimeoutError.  The timer may beat an event that was     *)
(* just set, because the waiter runs in a task of its own.                 *)
Expire(a) ==
  /\ pc[a] = "waiting"
  /\ outcome' = [outcome EXCEPT ![a] = Denied]
  /\ pending' = NoAsk
  /\ pc' = [pc EXCEPT ![a] = "expiring"]
  /\ UNCHANGED <<decision, event, reprompts, row, audit, taskVars, workerVars,
                 faults>>

DropRow(a) ==
  /\ pc[a] \in {"aborting", "closing", "expiring"}
  /\ DeleteRow
  /\ pc' = [pc EXCEPT ![a] = IF pc[a] = "expiring" THEN "expired" ELSE "done"]
  /\ UNCHANGED <<decision, event, reprompts, outcome, pending, audit,
                 taskVars, workerVars>>

LogTimeout(a) ==
  /\ pc[a] = "expired"
  /\ Log(a, "timed_out", a)
  /\ pc' = [pc EXCEPT ![a] = "done"]
  /\ UNCHANGED <<decision, event, reprompts, outcome, pending, row, taskVars,
                 workerVars>>

(* The turn's processing deadline cancels the coroutine: CancelledError is *)
(* caught nowhere, so neither the entry nor the row is removed.            *)
CancelTurn(a) ==
  /\ TurnDeadline
  /\ a \in UserAsks
  /\ Active(a)
  /\ pc' = [pc EXCEPT ![a] = "cancelled"]
  /\ UNCHANGED <<decision, event, reprompts, outcome, pending, row, audit,
                 taskVars, workerVars, faults>>

AskStep(a) ==
  \/ PersistRow(a) \/ Register(a) \/ PublishFails(a) \/ Wake(a)
  \/ Expire(a) \/ DropRow(a) \/ LogTimeout(a)

-----------------------------------------------------------------------------
(* resolve, and the tasks that call it                                     *)

(* resolve() up to its first await: takes the pending entry of this moment *)
(* and overwrites its decision; returns at once when there is none.        *)
BeginResolve(t, d) ==
  /\ choice' = [choice EXCEPT ![t] = d]
  /\ \/ /\ pending = NoAsk
        /\ tpc' = [tpc EXCEPT ![t] = "done"]
        /\ UNCHANGED <<target, decision>>
     \/ /\ pending # NoAsk
        /\ target' = [target EXCEPT ![t] = pending]
        /\ decision' = [decision EXCEPT ![pending] = d]
        /\ tpc' = [tpc EXCEPT ![t] = "deleting"]
  /\ UNCHANGED <<pc, event, reprompts, outcome, pending, row, audit,
                 workerVars, faults>>

(* A message whose text is an exact keyword resolves without suspending.   *)
ReplyKeyword(t, d) ==
  /\ worker = "up"
  /\ t \in Replies
  /\ d \in Grants \cup {Denied}
  /\ tpc[t] = "idle"
  /\ pending # NoAsk
  /\ seen' = [seen EXCEPT ![t] = pending]
  /\ BeginResolve(t, d)

(* Any other text goes to the LLM classifier first.                        *)
ReplyClassify(t) ==
  /\ worker = "up"
  /\ t \in Replies
  /\ tpc[t] = "idle"
  /\ pending # NoAsk
  /\ seen' = [seen EXCEPT ![t] = pending]
  /\ tpc' = [tpc EXCEPT ![t] = "classifying"]
  /\ UNCHANGED <<askVars, pending, row, audit, target, choice, workerVars,
                 faults>>

(* Mutant: no cap on re-prompts.                                           *)
AlwaysReprompt == pending # NoAsk

CanReprompt ==
  /\ pending # NoAsk
  /\ reprompts[pending] < MaxReprompts

(* The classifier answered: a decision, or unrelated (INTERRUPTED).        *)
Classified(t, d) ==
  /\ tpc[t] = "classifying"
  /\ BeginResolve(t, d)
  /\ UNCHANGED seen

(* "ambiguous": note_ambiguous_reply re-prompts up to the cap, and the     *)
(* message falls through to INTERRUPTED beyond it.                         *)
ClassifiedAmbiguous(t) ==
  /\ tpc[t] = "classifying"
  /\ \/ /\ CanReprompt
        /\ reprompts' = [reprompts EXCEPT ![pending] = @ + 1]
        /\ tpc' = [tpc EXCEPT ![t] = "done"]
        /\ UNCHANGED <<pc, decision, event, outcome, pending, row, audit,
                       target, choice, workerVars, faults>>
     \/ ~CanReprompt /\ BeginResolve(t, Interrupted)
  /\ UNCHANGED seen

(* The 0.5 s poll of a dispatch that waits for the user lock.              *)
Poll(t) ==
  /\ worker = "up"
  /\ t \in Polls
  /\ tpc[t] = "idle"
  /\ pending # NoAsk
  /\ seen' = [seen EXCEPT ![t] = pending]
  /\ BeginResolve(t, Interrupted)

(* The dispatch got the lock or was folded: its poll is cancelled, even in *)
(* the middle of resolve().                                                *)
CancelPoll(t) ==
  /\ t \in Polls
  /\ tpc[t] \in {"deleting", "logging", "waking"}
  /\ tpc' = [tpc EXCEPT ![t] = "done"]
  /\ UNCHANGED <<askVars, pending, row, audit, seen, target, choice,
                 workerVars, faults>>

(* Mutant: resolve() leaves the row to the waiter's trailing cleanup.      *)
ResolveKeepsRow(t) ==
  /\ tpc[t] = "deleting"
  /\ tpc' = [tpc EXCEPT ![t] = "logging"]
  /\ UNCHANGED <<askVars, pending, row, audit, seen, target, choice, workerVars,
                 faults>>

ResolveDelete(t) ==
  /\ tpc[t] = "deleting"
  /\ DeleteRow
  /\ tpc' = [tpc EXCEPT ![t] = "logging"]
  /\ UNCHANGED <<askVars, pending, audit, seen, target, choice, workerVars>>

ResolveLog(t) ==
  /\ tpc[t] = "logging"
  /\ Log(target[t], "decided", t)
  /\ tpc' = [tpc EXCEPT ![t] = "waking"]
  /\ UNCHANGED <<askVars, pending, row, seen, target, choice, workerVars>>

ResolveWake(t) ==
  /\ tpc[t] = "waking"
  /\ event' = [event EXCEPT ![target[t]] = TRUE]
  /\ tpc' = [tpc EXCEPT ![t] = "done"]
  /\ UNCHANGED <<pc, decision, reprompts, outcome, pending, row, audit, seen,
                 target, choice, workerVars, faults>>

TaskStep(t) ==
  \/ \E d \in Decisions : Classified(t, d)
  \/ ClassifiedAmbiguous(t)
  \/ ResolveDelete(t) \/ ResolveLog(t) \/ ResolveWake(t)

-----------------------------------------------------------------------------
(* Crash, boot and cleanup_orphaned_approvals                              *)

Idle == [at |-> "idle", ask |-> NoAsk]

Crash ==
  /\ worker # "down"
  /\ crashes < MaxCrashes
  /\ crashes' = crashes + 1
  /\ worker' = "down"
  /\ cleaner' = Idle
  /\ pending' = NoAsk
  /\ pc' = [a \in Asks |-> IF Active(a) THEN "lost" ELSE pc[a]]
  /\ tpc' = [t \in Tasks |-> IF tpc[t] = "idle" THEN "idle" ELSE "done"]
  /\ UNCHANGED <<decision, event, reprompts, outcome, row, audit, seen, target,
                 choice, notified, peers, faults>>

(* The lifespan runs the cleanup before it serves; the snapshot of rows is *)
(* taken once, under the advisory lock.                                    *)
Snapshot ==
  cleaner' = IF row = NoAsk THEN Idle ELSE [at |-> "publishing", ask |-> row]

Boot ==
  /\ worker = "down"
  /\ Snapshot
  /\ worker' = IF row = NoAsk THEN "up" ELSE "booting"
  /\ UNCHANGED <<askVars, pending, row, audit, taskVars, notified, crashes,
                 peers, faults>>

(* Rolling restart: another worker boots on the same database.             *)
PeerBoot ==
  /\ worker = "up"
  /\ cleaner = Idle
  /\ row # NoAsk
  /\ peers < MaxPeerBoots
  /\ peers' = peers + 1
  /\ Snapshot
  /\ UNCHANGED <<askVars, pending, row, audit, taskVars, worker, notified,
                 crashes, faults>>

CleanerPublish ==
  /\ cleaner.at = "publishing"
  /\ notified' = notified \cup {cleaner.ask}
  /\ cleaner' = [cleaner EXCEPT !.at = "deleting"]
  /\ UNCHANGED <<askVars, pending, row, audit, taskVars, worker, crashes,
                 peers, faults>>

CleanerDelete ==
  /\ cleaner.at = "deleting"
  /\ DeleteRow
  /\ cleaner' = [cleaner EXCEPT !.at = "logging"]
  /\ UNCHANGED <<askVars, pending, audit, taskVars, worker, notified, crashes,
                 peers>>

CleanerLog ==
  /\ cleaner.at = "logging"
  /\ Log(cleaner.ask, "recovered", cleaner.ask)
  /\ cleaner' = Idle
  /\ worker' = "up"
  /\ UNCHANGED <<askVars, pending, row, taskVars, notified, crashes, peers>>

(* The row is malformed, or publishing failed on it: without a message it  *)
(* is deleted when malformed or older than _ORPHAN_MAX_AGE and kept for    *)
(* the next boot otherwise.                                                *)
CleanerGivesUp ==
  /\ cleaner.at = "publishing"
  /\ \/ DeleteRow
     \/ UNCHANGED <<row, faults>>
  /\ cleaner' = Idle
  /\ worker' = "up"
  /\ UNCHANGED <<askVars, pending, audit, taskVars, notified, crashes, peers>>

CleanerStep ==
  CleanerPublish \/ CleanerDelete \/ CleanerLog \/ CleanerGivesUp

-----------------------------------------------------------------------------

Init ==
  /\ pc = [a \in Asks |-> "idle"]
  /\ decision = [a \in Asks |-> NoDecision]
  /\ event = [a \in Asks |-> FALSE]
  /\ reprompts = [a \in Asks |-> 0]
  /\ outcome = [a \in Asks |-> NoDecision]
  /\ pending = NoAsk /\ row = NoAsk /\ audit = {}
  /\ tpc = [t \in Tasks |-> "idle"]
  /\ seen = [t \in Tasks |-> NoAsk]
  /\ target = [t \in Tasks |-> NoAsk]
  /\ choice = [t \in Tasks |-> NoDecision]
  /\ worker = "up" /\ cleaner = Idle /\ notified = {}
  /\ faults = 0 /\ crashes = 0 /\ peers = 0

Next ==
  \/ \E a \in Asks : Request(a) \/ AskStep(a) \/ CancelTurn(a)
  \/ \E t \in Tasks :
       \/ \E d \in Decisions : ReplyKeyword(t, d)
       \/ ReplyClassify(t) \/ Poll(t) \/ CancelPoll(t)
       \/ TaskStep(t)
  \/ Crash \/ Boot \/ PeerBoot \/ CleanerStep

Spec == Init /\ [][Next]_vars

(* The event loop runs every coroutine that can continue, the LLM call and *)
(* the database calls return, and the timer of a waiting ask fires: all    *)
(* the steps of one ask are one weakly fair action, because in each of its *)
(* program points the loop continues it.                                   *)
Fairness ==
  /\ \A a \in Asks : WF_vars(AskStep(a))
  /\ \A t \in Tasks : WF_vars(TaskStep(t))
  /\ WF_vars(CleanerStep) /\ WF_vars(Boot)

FairSpec == Spec /\ Fairness

-----------------------------------------------------------------------------
(* Properties                                                              *)

AuditRows == [ask : Asks, event : {"requested", "decided", "timed_out",
                                   "recovered"}, by : Asks \cup Tasks]

TypeOK ==
  /\ pc \in [Asks -> ActivePc \cup {"idle", "done", "cancelled", "lost"}]
  /\ decision \in [Asks -> Decisions \cup {NoDecision}]
  /\ event \in [Asks -> BOOLEAN]
  /\ reprompts \in [Asks -> 0..MaxReprompts]
  /\ outcome \in [Asks -> Decisions \cup {NoDecision}]
  /\ pending \in Asks \cup {NoAsk}
  /\ row \in Asks \cup {NoAsk}
  /\ audit \subseteq AuditRows
  /\ tpc \in [Tasks -> {"idle", "classifying", "deleting", "logging", "waking",
                        "done"}]
  /\ seen \in [Tasks -> Asks \cup {NoAsk}]
  /\ target \in [Tasks -> Asks \cup {NoAsk}]
  /\ choice \in [Tasks -> Decisions \cup {NoDecision}]
  /\ worker \in {"up", "down", "booting"}
  /\ cleaner \in [at : {"idle", "publishing", "deleting", "logging"},
                  ask : Asks \cup {NoAsk}]
  /\ notified \subseteq Asks
  /\ faults \in 0..MaxFaults
  /\ crashes \in 0..MaxCrashes
  /\ peers \in 0..MaxPeerBoots

(* A task that is inside resolve() holds an ask, one that has not entered  *)
(* it holds none, only replies are classified, and a cleaner at work holds *)
(* the ask of the row it read.                                             *)
Linked ==
  /\ \A t \in Tasks :
       /\ tpc[t] \in {"deleting", "logging", "waking"} => target[t] # NoAsk
       /\ tpc[t] \in {"idle", "classifying"} => target[t] = NoAsk
       /\ tpc[t] = "classifying" => t \in Replies
  /\ cleaner.at # "idle" => cleaner.ask # NoAsk

(* The rows of one ask are in order in the audit log: no verdict row is    *)
(* there before the "requested" row, because the ask is only registered in *)
(* _pending after that row is committed.                                   *)
AuditOrder ==
  faults = 0 =>
    \A e \in audit : \E q \in audit : q.ask = e.ask /\ q.event = "requested"

(* An ask whose waiter was woken has no row left: resolve() deletes it     *)
(* before event.set(), and no later write brings it back.                  *)
AnsweredRowGone ==
  faults = 0 => \A a \in Asks : event[a] => row # a

(* The gate names an ask that is still waiting, or one whose turn was cut  *)
(* off by its deadline; never one that returned, expired or crashed.       *)
GatePointsAtWaiter ==
  pending # NoAsk => pc[pending] \in {"waiting", "cancelled"}

(* The three records of an ask, in memory, in the pending row and in the   *)
(* audit log, agree on whether it waits, whatever runs in between.         *)
GateSound == AuditOrder /\ AnsweredRowGone /\ GatePointsAtWaiter

(* A tool is let through only by a reply of the user whose resolve() took  *)
(* this very ask: not by a poll, a timeout, a failed publish or a reply to *)
(* an ask that is gone.                                                    *)
GrantNeedsReply ==
  \A a \in Asks : outcome[a] \in Grants =>
    \E t \in Replies : target[t] = a /\ choice[t] = outcome[a]

(* The user is told that an approval was interrupted only if the turn that *)
(* asked is gone and the ask was not answered.                             *)
NoticeIsTrue ==
  [][\A a \in notified' \ notified :
       faults = 0 => pc[a] \in {"lost", "cancelled"} /\ ~event[a]]_vars

(* A waiting ask can be woken: resolve() finds it in _pending.  This needs *)
(* that asks of a user do not overlap, which the per-user lock gives for   *)
(* user turns and nothing gives for heartbeat turns.                       *)
WaiterReachable ==
  \A a \in Asks : pc[a] = "waiting" => pending = a

(* A reply decides the prompt that was open when the user wrote it.        *)
ReplyAnswersItsPrompt ==
  \A t \in Replies : target[t] # NoAsk => target[t] = seen[t]

(* Every call of request_approval comes to an end, whoever answers it.     *)
AskTerminates == \A a \in Asks : Active(a) ~> ~Active(a)

(* The gate implements the contract of the agent loop.                     *)
Answered ==
  [a \in Asks |-> {choice[t] : t \in {u \in Tasks : target[u] = a}}]
Contract == INSTANCE ApprovalContract WITH given <- Answered, returned <- outcome
ImplementsContract == Contract!ContractSpec
===============================================================================
