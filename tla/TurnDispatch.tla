----------------------------- MODULE TurnDispatch -----------------------------
(***************************************************************************)
(* From an accepted inbound message to the end of the turn that answers    *)
(* it, for ONE user: the batcher, the inbox, the lock and the session are  *)
(* all keyed by the user.                                                  *)
(*                                                                         *)
(*   MessageBatcher      agent/ingestion.py   pending, last                *)
(*   _dispatch_to_pipeline     "              at, batch, ticket, polled    *)
(*   MidTurnInbox        agent/midturn.py     inbox                        *)
(*   user_locks          agent/concurrency.py holder                       *)
(*   the agent loop      agent/core.py        phase, round, asks           *)
(*   the pipeline        agent/router.py      context, result, sent        *)
(*   messages table      agent/session_db.py  seq, reply, top              *)
(*                                                                         *)
(* A dispatch is named by the message it was called with, the last of its  *)
(* batch.  A user has one messaging channel and the web chat; a message of *)
(* the web chat carries a request_id, whose response future expects its    *)
(* own reply.                                                              *)
(***************************************************************************)
EXTENDS Naturals

CONSTANTS
  Messages,     (* inbound messages, past the approval gate                *)
  Web,          (* those of the web chat                                   *)
  NoMessage,
  MaxRounds,    (* MAX_TOOL_ROUNDS                                         *)
  MaxAsks,      (* bound: approvals one turn asks for                      *)
  MaxFailures   (* bound: turns that raise or run out of time              *)

ASSUME DispatchAssumption ==
  /\ Web \subseteq Messages
  /\ NoMessage \notin Messages
  /\ MaxRounds \in Nat \ {0}
  /\ MaxAsks \in Nat
  /\ MaxFailures \in Nat

VARIABLES
  seq,       (* Message.seq of an inbound row; 0: not persisted            *)
  reply,     (* seq of the outbound row of a dispatch; 0: none             *)
  top,       (* the largest seq of the session                             *)
  pending,   (* _BatchState.entries                                        *)
  last,      (* the entry _BatchState.channel and .request_id belong to    *)
  at,        (* where each dispatch is                                     *)
  batch,     (* PendingInbound.messages of each dispatch                   *)
  ticket,    (* order in which the dispatches queued for the user lock     *)
  polled,    (* dispatches whose _interrupt_stale_approval has fired       *)
  inbox,     (* midturn_inbox._pending[user_id]                            *)
  holder,    (* the dispatch that holds the user lock                      *)
  phase,     (* where its turn is                                          *)
  round, asks,
  context,   (* inbound messages in the turn's LLM context                 *)
  result,    (* the AgentResponse: "reply", "silent" or "error"            *)
  covers,    (* messages the turn of a dispatch answers                    *)
  sent,      (* outbound messages published                                *)
  failures

table == <<seq, reply, top>>
batcher == <<pending, last>>
dispatches == <<at, batch, ticket, polled, inbox>>
turn == <<holder, phase, round, asks, context, result, covers>>
vars == <<table, batcher, dispatches, turn, sent, failures>>

Phases == {"idle", "starting", "looping", "calling", "tools", "asking",
           "replying", "storing"}
Places == {"none", "waiting", "folded", "running", "failed", "done"}
Results == {"none", "reply", "silent", "error"}

Foldable(d) == d \notin Web
Arrived == {m \in Messages : seq[m] # 0}

-----------------------------------------------------------------------------
(* process_inbound_from_bus and MessageBatcher                             *)

(* add_message, then enqueue: nothing waits between the commit and the     *)
(* batcher, so batch order is seq order.  The batch window is never zero.  *)
Arrive(m) ==
  /\ seq[m] = 0
  /\ top' = top + 1
  /\ seq' = [seq EXCEPT ![m] = top + 1]
  /\ pending' = pending \cup {m}
  /\ last' = m
  /\ UNCHANGED <<reply, dispatches, turn, sent, failures>>

(* The window closed: the batch is popped and dispatched with its last     *)
(* entry's channel and request_id, registered in the inbox if it has no    *)
(* request_id, and queued for the lock.  A later flush has a larger top.   *)
Flush ==
  /\ pending # {}
  /\ pending' = {} /\ last' = NoMessage
  /\ at' = [at EXCEPT ![last] = "waiting"]
  /\ batch' = [batch EXCEPT ![last] = pending]
  /\ ticket' = [ticket EXCEPT ![last] = top]
  /\ inbox' = IF Foldable(last) THEN inbox \cup {last} ELSE inbox
  /\ UNCHANGED <<table, polled, turn, sent, failures>>

-----------------------------------------------------------------------------
(* _dispatch_to_pipeline: waiting for the lock                             *)

FirstInLine(d) ==
  \A e \in Messages : at[e] = "waiting" => ticket[d] <= ticket[e]

(* Mutant: the turn runs without the lock.                                 *)
AcquireUnlocked(d) ==
  /\ at[d] = "waiting"
  /\ FirstInLine(d)
  /\ holder' = d
  /\ at' = [at EXCEPT ![d] = "running"]
  /\ inbox' = inbox \ {d}
  /\ phase' = "starting"
  /\ covers' = [covers EXCEPT ![d] = batch[d]]
  /\ UNCHANGED <<table, batcher, batch, ticket, polled, round, asks, context,
                 result, sent, failures>>

(* asyncio.Lock is first come first served; a claimed waiter is cancelled  *)
(* in the queue and is passed over.                                        *)
Acquire(d) ==
  /\ at[d] = "waiting"
  /\ holder = NoMessage
  /\ FirstInLine(d)
  /\ holder' = d
  /\ at' = [at EXCEPT ![d] = "running"]
  /\ inbox' = inbox \ {d}
  /\ phase' = "starting"
  /\ covers' = [covers EXCEPT ![d] = batch[d]]
  /\ UNCHANGED <<table, batcher, batch, ticket, polled, round, asks, context,
                 result, sent, failures>>

(* The 0.5 s poll: it acts once, and not at all for a claimed dispatch.    *)
MayInterrupt(d) ==
  /\ at[d] = "waiting"
  /\ d \notin polled

(* run_unless_folded cancels the coroutine that waits for the lock.        *)
ExitFolded(d) ==
  /\ at[d] = "folded"
  /\ at' = [at EXCEPT ![d] = "done"]
  /\ UNCHANGED <<table, batcher, batch, ticket, polled, inbox, turn, sent,
                 failures>>

-----------------------------------------------------------------------------
(* The turn of the lock holder                                             *)

(* Mutant: every persisted inbound is history.                             *)
HistoryOfAll == Arrived

(* The session is read again under the lock; inbounds newer than the       *)
(* turn's own message are left out, all outbounds are in.                  *)
History == {m \in Arrived : seq[m] < seq[holder]} \cup {holder}

Load ==
  /\ phase = "starting"
  /\ context' = History
  /\ phase' = "looping"
  /\ round' = 1
  /\ UNCHANGED <<table, batcher, dispatches, holder, asks, result, covers,
                 sent, failures>>

(* The entries a drain claims: every entry is of the messaging channel.    *)
Claimed == IF Foldable(holder) THEN inbox ELSE {}

(* Mutants of the drain: a claimed dispatch is not told; only the last     *)
(* message of a claimed dispatch joins the context.                        *)
FoldUnmarked ==
  /\ at' = at
  /\ inbox' = inbox \ Claimed
  /\ context' = context \cup UNION {batch[d] : d \in Claimed}
  /\ covers' = [covers EXCEPT
                  ![holder] = @ \cup UNION {batch[d] : d \in Claimed}]

FoldLastOnly ==
  /\ at' = [d \in Messages |-> IF d \in Claimed THEN "folded" ELSE at[d]]
  /\ inbox' = inbox \ Claimed
  /\ context' = context \cup Claimed
  /\ covers' = [covers EXCEPT
                  ![holder] = @ \cup UNION {batch[d] : d \in Claimed}]

Fold ==
  /\ at' = [d \in Messages |-> IF d \in Claimed THEN "folded" ELSE at[d]]
  /\ inbox' = inbox \ Claimed
  /\ context' = context \cup UNION {batch[d] : d \in Claimed}
  /\ covers' = [covers EXCEPT
                  ![holder] = @ \cup UNION {batch[d] : d \in Claimed}]

(* The top of a round: fold, then call the model.                          *)
CallModel ==
  /\ phase = "looping"
  /\ Fold
  /\ phase' = "calling"
  /\ UNCHANGED <<table, batcher, batch, ticket, polled, holder, round, asks,
                 result, sent, failures>>

(* Mutant: one round too many.                                             *)
NextRoundUnbounded ==
  round' = round + 1 /\ phase' = "looping" /\ UNCHANGED result

(* After the last round the turn ends with a wrap-up reply, with silence   *)
(* if a tool replied, or with the error fallback if the text was cut off.  *)
NextRound ==
  \/ /\ round < MaxRounds
     /\ round' = round + 1 /\ phase' = "looping" /\ UNCHANGED result
  \/ /\ round = MaxRounds
     /\ result' \in Results \ {"none"} /\ phase' = "replying"
     /\ UNCHANGED round

UseTools ==
  /\ phase = "calling"
  /\ phase' = "tools"
  /\ UNCHANGED <<table, batcher, dispatches, holder, round, asks, context,
                 result, covers, sent, failures>>

(* Tools executed, or a truncated response that is asked for again.        *)
EndRound ==
  /\ phase \in {"calling", "tools"}
  /\ NextRound
  /\ UNCHANGED <<table, batcher, dispatches, holder, asks, context, covers,
                 sent, failures>>

Ask ==
  /\ phase = "tools"
  /\ asks < MaxAsks
  /\ asks' = asks + 1
  /\ phase' = "asking"
  /\ UNCHANGED <<table, batcher, dispatches, holder, round, context, result,
                 covers, sent, failures>>

(* Mutant: a prompt does not expire.                                       *)
NoAskEnd == FALSE /\ UNCHANGED vars

(* The user answered the prompt, or it expired.                            *)
AskEnds ==
  /\ phase = "asking"
  /\ phase' = "tools"
  /\ UNCHANGED <<table, batcher, dispatches, holder, round, asks, context,
                 result, covers, sent, failures>>

(* INTERRUPTED also fails the remaining calls of the round.                *)
Interrupt(d) ==
  /\ phase = "asking"
  /\ MayInterrupt(d)
  /\ polled' = polled \cup {d}
  /\ NextRound
  /\ UNCHANGED <<table, batcher, at, batch, ticket, inbox, holder, asks,
                 context, covers, sent, failures>>

(* A response without tool calls.  What arrived during the call makes it   *)
(* stale: it is dropped for another round, unless this is the last one.    *)
Draft ==
  /\ phase = "calling"
  /\ \/ /\ round < MaxRounds /\ Claimed # {}
        /\ Fold
        /\ round' = round + 1 /\ phase' = "looping" /\ UNCHANGED result
     \/ /\ round = MaxRounds \/ Claimed = {}
        /\ result' \in {"reply", "silent"} /\ phase' = "replying"
        /\ UNCHANGED <<at, inbox, context, covers, round>>
  /\ UNCHANGED <<table, batcher, batch, ticket, polled, holder, asks, sent,
                 failures>>

(* run_agent turns an exception into an error fallback.                    *)
AgentFails ==
  /\ phase = "calling"
  /\ result' = "error" /\ phase' = "replying"
  /\ UNCHANGED <<table, batcher, dispatches, holder, round, asks, context,
                 covers, sent, failures>>

(* dispatch_reply_step: silence is published only to end a web request.    *)
Publish ==
  /\ phase = "replying"
  /\ sent' = IF result = "silent" /\ Foldable(holder) THEN sent
             ELSE sent \cup {[of |-> holder, kind |-> result]}
  /\ phase' = "storing"
  /\ UNCHANGED <<table, batcher, dispatches, holder, round, asks, context,
                 result, covers, failures>>

(* The lock is released; the turn leaves nothing behind.                   *)
Release(d, place) ==
  /\ holder' = NoMessage
  /\ at' = [at EXCEPT ![d] = place]
  /\ phase' = "idle" /\ round' = 0 /\ asks' = 0
  /\ context' = {} /\ result' = "none"
  /\ UNCHANGED <<batcher, batch, ticket, polled, inbox, covers>>

(* persist_outbound_step: only a model's reply becomes a row.              *)
Store ==
  /\ phase = "storing"
  /\ \/ /\ result = "reply"
        /\ top' = top + 1
        /\ reply' = [reply EXCEPT ![holder] = top + 1]
     \/ result # "reply" /\ UNCHANGED <<top, reply>>
  /\ Release(holder, "done")
  /\ UNCHANGED <<seq, sent, failures>>

(* A step raised, or agent_processing_timeout_seconds ran out.             *)
TurnFails ==
  /\ phase # "idle"
  /\ failures < MaxFailures
  /\ failures' = failures + 1
  /\ Release(holder, "failed")
  /\ UNCHANGED <<table, sent>>

(* _send_error_fallback, outside the lock.                                 *)
Apologise(d) ==
  /\ at[d] = "failed"
  /\ at' = [at EXCEPT ![d] = "done"]
  /\ sent' = sent \cup {[of |-> d, kind |-> "apology"]}
  /\ UNCHANGED <<table, batcher, batch, ticket, polled, inbox, turn, failures>>

-----------------------------------------------------------------------------
Init ==
  /\ seq = [m \in Messages |-> 0] /\ reply = seq /\ top = 0
  /\ pending = {} /\ last = NoMessage
  /\ at = [m \in Messages |-> "none"]
  /\ batch = [m \in Messages |-> {}] /\ covers = batch
  /\ ticket = [m \in Messages |-> 0]
  /\ polled = {} /\ inbox = {}
  /\ holder = NoMessage /\ phase = "idle" /\ round = 0 /\ asks = 0
  /\ context = {} /\ result = "none"
  /\ sent = {} /\ failures = 0

TurnStep ==
  \/ Load \/ CallModel \/ UseTools \/ EndRound \/ AskEnds
  \/ Draft \/ AgentFails \/ Publish \/ Store

Next ==
  \/ \E m \in Messages : Arrive(m)
  \/ Flush
  \/ \E d \in Messages :
       Acquire(d) \/ ExitFolded(d) \/ Interrupt(d) \/ Apologise(d)
  \/ TurnStep
  \/ Ask
  \/ TurnFails

Spec == Init /\ [][Next]_vars

(* The timers (batch window, approval timeout, model timeouts) and the     *)
(* event loop run every step that does not depend on somebody else; the    *)
(* model asks for approvals, users write and turns fail as they like.      *)
FairSpec ==
  /\ Spec
  /\ WF_vars(Flush)
  /\ WF_vars(TurnStep)
  /\ \A d \in Messages :
       WF_vars(Acquire(d)) /\ WF_vars(ExitFolded(d)) /\ WF_vars(Apologise(d))

-----------------------------------------------------------------------------
(* Properties                                                              *)

(* Types, and the two sides of the lock: a turn is in progress exactly     *)
(* when a dispatch holds the lock, and that dispatch is the running one.   *)
TypeOK ==
  /\ seq \in [Messages -> Nat] /\ reply \in [Messages -> Nat] /\ top \in Nat
  /\ pending \in SUBSET Messages /\ last \in Messages \cup {NoMessage}
  /\ at \in [Messages -> Places]
  /\ batch \in [Messages -> SUBSET Messages]
  /\ ticket \in [Messages -> Nat]
  /\ polled \in SUBSET Messages /\ inbox \in SUBSET Messages
  /\ holder \in Messages \cup {NoMessage}
  /\ phase \in Phases /\ round \in 0..MaxRounds /\ asks \in 0..MaxAsks
  /\ context \in SUBSET Messages /\ result \in Results
  /\ covers \in [Messages -> SUBSET Messages]
  /\ sent \in SUBSET [of : Messages,
                      kind : {"reply", "silent", "error", "apology"}]
  /\ failures \in 0..MaxFailures

(* The turn in progress is that of the one dispatch that holds the lock.   *)
OneRunner ==
  /\ phase = "idle" <=> holder = NoMessage
  /\ \A d \in Messages : at[d] = "running" <=> holder = d

(* No message is taken by two turns: what a running turn folds in never    *)
(* starts a turn of its own (midturn.claim, run_unless_folded).            *)
OneTurnPerMessage ==
  \A d, e \in Messages : d # e => covers[d] \cap covers[e] = {}

(* No message is lost: a persisted message is in the batcher, in a         *)
(* dispatch that waits for the lock, or in a turn (MessageBatcher._flush,  *)
(* MidTurnInbox.claim).                                                    *)
NothingLost ==
  \A m \in Arrived :
    \/ m \in pending
    \/ \E d \in Messages : at[d] = "waiting" /\ m \in batch[d]
    \/ \E d \in Messages : m \in covers[d]

(* Whatever the model answers, it has read every message of its turn: the  *)
(* whole batch through the history or a fold (load_history_step, _drain).  *)
AnswersWhatItRead ==
  phase \in {"looping", "calling", "tools", "asking", "replying", "storing"}
    => covers[holder] \subseteq context

(* A message that may still be folded is not in the history already: the   *)
(* model never reads a message twice (load_history_step leaves out the     *)
(* later inbounds because the turn folds them in).                         *)
NothingReadTwice ==
  phase # "starting" => \A d \in inbox : batch[d] \cap context = {}

(* The inbox holds only dispatches that wait for the lock, so a turn is    *)
(* never folded into itself or into a turn that has ended.                 *)
InboxWaits ==
  \A d \in inbox : at[d] = "waiting" /\ Foldable(d)

(* Every message is in one place only: in the batcher, waiting for the     *)
(* lock, or in one turn; and there is one turn at a time.                  *)
MessagesAccounted ==
  OneRunner /\ OneTurnPerMessage /\ NothingLost /\ InboxWaits

(* The poll of a dispatch never interrupts an approval asked for by the    *)
(* turn that already answers it (_interrupt_stale_approval).               *)
InterruptsFromOutside ==
  [][\A d \in polled' \ polled : d \notin covers[holder]]_vars

(* Every persisted message has its turn, and the turn ends: the batcher    *)
(* flushes, the lock is passed on, approvals and model calls time out.     *)
Settled(m) == \E d \in Messages : at[d] = "done" /\ m \in covers[d]
EveryMessageSettles == \A m \in Messages : seq[m] # 0 ~> Settled(m)

-----------------------------------------------------------------------------
(* The dispatch machinery implements sequential turns over the messages.   *)
Taken == UNION {covers[d] : d \in Messages}
Turns == INSTANCE TurnContract WITH
  waiting <- Arrived \ Taken,
  turn    <- IF holder = NoMessage THEN {} ELSE covers[holder],
  settled <- Taken \ (IF holder = NoMessage THEN {} ELSE covers[holder])

(* Batching, folding, the lock and failures never start a turn while one   *)
(* runs, take a message twice, or settle a message outside its turn.       *)
ImplementsTurns == Turns!Spec
===============================================================================
