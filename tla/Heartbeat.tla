------------------------------- MODULE Heartbeat -------------------------------
(***************************************************************************)
(* The heartbeat engine of backend/app/agent/heartbeat.py: a scheduler     *)
(* that looks every minute which users are due, and evaluates them side by *)
(* side; for each of them a run that asks the model whether something is   *)
(* to be done, lets the agent do it and sends what it says.                *)
(*                                                                         *)
(*   HeartbeatScheduler       due, ticking, waiting                        *)
(*   run_heartbeat_for_user   at, sent                                     *)
(*   heartbeat_logs           logged   (the "send" rows, for each day)     *)
(*   MessageBus.outbound      outbox, nudged                               *)
(*   ChannelManager and the   phone                                        *)
(*     user's phone                                                        *)
(*                                                                         *)
(* A run only puts its messages on the bus.  The dispatcher takes them off *)
(* in order, waits for each text to be sent, whose failure it swallows,    *)
(* and starts a task for each call that shows or hides the typing          *)
(* indicator, so that such a call may reach the phone late or not at all.  *)
(*                                                                         *)
(* A step is the code between two awaits.  Users is the set of active      *)
(* users that finished their onboarding; all have the same daily maximum.  *)
(* Approval prompts of a run are in ApprovalGate; what the turns of the    *)
(* user send to the same phone is left out.                                *)
(***************************************************************************)
EXTENDS Naturals, FiniteSets, Sequences

CONSTANTS
  Users,
  Lasting,       (* users reached over BlueBubbles: on the other channels  *)
                 (* the indicator expires by itself, or there is none, and *)
                 (* what becomes of a message on the bus is left out       *)
  Concurrency,   (* heartbeat_concurrency                                  *)
  MaxDaily,      (* heartbeat_max_daily_messages                           *)
  MaxQueued,     (* bound: messages of a user on the bus before a tool or  *)
                 (* a round of the agent publishes another                 *)
  LastDay,       (* bound: midnights that pass                             *)
  MaxMishaps     (* bound: crashes, failures after a message was published *)
                 (* and deletions of the log, together                     *)

ASSUME HeartbeatAssumption ==
  /\ IsFiniteSet(Users) /\ Lasting \subseteq Users
  /\ Concurrency \in Nat \ {0} /\ MaxDaily \in Nat \ {0}
  /\ MaxQueued \in Nat /\ LastDay \in Nat /\ MaxMishaps \in Nat

VARIABLES
  up,        (* the worker runs and its warm-up is over                    *)
  today,     (* the day, UTC                                               *)
  due,       (* users whose interval since _last_tick has elapsed          *)
  ticking,   (* tick() is in progress                                      *)
  waiting,   (* users of this tick that wait for the semaphore             *)
  at,        (* where the run of each user is                              *)
  sent,      (* users whose run has published a message to them            *)
  tooled,    (* users whose message a tool published, in the last run that *)
             (* thinks so                                                  *)
  outbox,    (* messages to each Lasting user on the bus                   *)
  phone,     (* the typing indicator of each Lasting user                  *)
  logged,    (* [user][day]: "send" rows of heartbeat_logs                 *)
  nudged,    (* [user][day]: runs that published a message to the user     *)
  losses, crashes, deletes

scheduler == <<up, due, ticking, waiting>>
chat == <<sent, tooled, outbox, phone, nudged>>
bounds == <<losses, crashes, deletes>>
vars == <<scheduler, today, at, chat, logged, bounds>>

Days == 0..LastDay
Places == {"idle", "routing", "gating", "reading", "deciding", "silent",
           "acting", "sending", "storing", "logging"}
Kinds == {"start", "text", "stop"}

(* Hidden; a call to show it is on its way; shown; a call to hide it is on *)
(* its way; and, "stray": shown, perhaps, although the message that was to *)
(* hide it is through, because a call failed or was overtaken.             *)
Bubbles == {"hidden", "starting", "shown", "stopping", "stray"}

Running == {u \in Users : at[u] # "idle"}
MayGoWrong == losses + crashes + deletes < MaxMishaps

Goto(u, place) == at' = [at EXCEPT ![u] = place]
Publish(u, kind) ==
  outbox' = IF u \in Lasting THEN [outbox EXCEPT ![u] = Append(@, kind)] ELSE outbox

-----------------------------------------------------------------------------
(* The scheduler                                                           *)

(* Minutes pass.  The interval counts from the start of the tick, so it    *)
(* can be over before the run is.                                          *)
Elapse(u) ==
  /\ u \notin due
  /\ due' = due \cup {u}
  /\ UNCHANGED <<up, ticking, waiting, today, at, chat, logged, bounds>>

Midnight ==
  /\ today < LastDay
  /\ today' = today + 1
  /\ UNCHANGED <<scheduler, at, chat, logged, bounds>>

TickStarts ==
  /\ up /\ ~ticking
  /\ due # {}
  /\ ticking' = TRUE
  /\ waiting' = due
  /\ UNCHANGED <<up, due, today, at, chat, logged, bounds>>

(* gather: the next tick waits for the slowest user of this one.           *)
TickEnds ==
  /\ ticking /\ waiting = {} /\ Running = {}
  /\ ticking' = FALSE
  /\ UNCHANGED <<up, due, waiting, today, at, chat, logged, bounds>>

(* async with semaphore.  Bound: the bus has passed on what the user's     *)
(* last run published.                                                     *)
Claim(u) ==
  /\ u \in waiting
  /\ outbox[u] = <<>>
  /\ Cardinality(Running) < Concurrency
  /\ waiting' = waiting \ {u}
  /\ Goto(u, "routing")
  /\ UNCHANGED <<up, due, ticking, today, chat, logged, bounds>>

-----------------------------------------------------------------------------
(* How a run ends.  `finally` stops the typing indicator unless the run    *)
(* thinks that it sent a message.                                          *)

(* Mutant: the indicator stays.                                            *)
EndsTyping(u, stop) ==
  /\ Goto(u, "idle")
  /\ sent' = sent \ {u}
  /\ tooled' = IF stop THEN tooled \ {u} ELSE tooled
  /\ UNCHANGED <<outbox, phone, nudged>>

Ends(u, stop) ==
  /\ Goto(u, "idle")
  /\ sent' = sent \ {u}
  /\ IF stop THEN Publish(u, "stop") /\ tooled' = tooled \ {u}
             ELSE UNCHANGED <<outbox, tooled>>
  /\ UNCHANGED <<phone, nudged>>

(* _last_tick[user.id] = now.                                              *)
Returns(u, stop) ==
  /\ Ends(u, stop)
  /\ due' = due \ {u}
  /\ UNCHANGED <<up, ticking, waiting>>

(* Mutant: the exception ends the whole tick.                              *)
RaisesToTick(u, stop) ==
  /\ Ends(u, stop)
  /\ waiting' = {}
  /\ UNCHANGED <<up, due, ticking>>

(* Caught in _process_one: the user stays due, and the others are served.  *)
Raises(u, stop) ==
  /\ Ends(u, stop)
  /\ UNCHANGED scheduler

Loses == MayGoWrong /\ losses' = losses + 1

-----------------------------------------------------------------------------
(* run_heartbeat_for_user                                                  *)

(* resolve_heartbeat_route_async: none, one, or more than one, which       *)
(* raises.                                                                 *)
Route(u) ==
  /\ at[u] = "routing"
  /\ \/ Raises(u, FALSE)
     \/ Goto(u, "gating") /\ UNCHANGED <<scheduler, chat>>
  /\ UNCHANGED <<today, logged, bounds>>

(* Mutant: one too many.                                                   *)
BelowOrAtLimit(u) == logged[u][today] <= MaxDaily

(* get_daily_count.                                                        *)
BelowLimit(u) == logged[u][today] < MaxDaily

(* The daily limit; and the gates that only the user's settings, messages  *)
(* and HEARTBEAT.md decide: opt-in, active conversation, quiet hours,      *)
(* nothing to do.                                                          *)
Gate(u) ==
  /\ at[u] = "gating"
  /\ \/ Returns(u, FALSE)
     \/ Raises(u, FALSE)
     \/ /\ BelowLimit(u)
        /\ Goto(u, "reading")
        /\ tooled' = tooled \ {u}
        /\ UNCHANGED <<scheduler, sent, outbox, phone, nudged>>
  /\ UNCHANGED <<today, logged, bounds>>

(* Phase 1 reads what the model is to see, and then shows the indicator.   *)
Prepare(u) ==
  /\ at[u] = "reading"
  /\ \/ Raises(u, TRUE)
     \/ /\ Goto(u, "deciding")
        /\ Publish(u, "start")
        /\ UNCHANGED <<scheduler, sent, tooled, phone, nudged>>
  /\ UNCHANGED <<today, logged, bounds>>

(* The answer of the model.                                                *)
Decide(u) ==
  /\ at[u] = "deciding"
  /\ \/ Raises(u, TRUE)
     \/ \E place \in {"silent", "acting"} :
          Goto(u, place) /\ UNCHANGED <<scheduler, chat>>
  /\ UNCHANGED <<today, logged, bounds>>

(* log_heartbeat of a "skip" or "cleanup" row, which no limit counts.      *)
LogSilence(u) ==
  /\ at[u] = "silent"
  /\ Returns(u, TRUE) \/ Raises(u, TRUE)
  /\ UNCHANGED <<today, logged, bounds>>

(* The run counts as one message, however many its tools publish.          *)
HandOver(u) ==
  /\ nudged' = IF u \in sent THEN nudged ELSE [nudged EXCEPT ![u][today] = @ + 1]
  /\ sent' = sent \cup {u}
  /\ Publish(u, "text")
  /\ UNCHANGED phone

(* Phase 2: send_media_reply.                                              *)
ToolSends(u) ==
  /\ at[u] = "acting"
  /\ Len(outbox[u]) < MaxQueued
  /\ HandOver(u)
  /\ tooled' = tooled \cup {u}
  /\ UNCHANGED <<scheduler, today, at, logged, bounds>>

(* The next round of the agent shows the indicator again; bound: not while *)
(* an earlier message to that end is on the bus.                           *)
Think(u) ==
  /\ at[u] = "acting"
  /\ Len(outbox[u]) < MaxQueued
  /\ Publish(u, "start")
  /\ UNCHANGED <<scheduler, today, at, sent, tooled, phone, nudged, logged, bounds>>

(* The agent raised or gave up: whatever its tools sent is not counted.    *)
(* What raises before it starts is not caught.                             *)
ActFails(u) ==
  /\ at[u] = "acting"
  /\ IF u \in sent THEN Loses ELSE UNCHANGED losses
  /\ Returns(u, TRUE) \/ (u \notin sent /\ Raises(u, TRUE))
  /\ UNCHANGED <<today, logged, crashes, deletes>>

(* The agent returned: nothing was sent and nothing is to be said, a tool  *)
(* has sent the message, or the text is to be sent.                        *)
ActEnds(u) ==
  /\ at[u] = "acting"
  /\ \/ u \notin sent /\ Goto(u, "silent")
     \/ u \in sent /\ Goto(u, "storing")
     \/ u \notin sent /\ Goto(u, "sending")
  /\ UNCHANGED <<scheduler, today, chat, logged, bounds>>

Send(u) ==
  /\ at[u] = "sending"
  /\ \/ HandOver(u) /\ Goto(u, "storing") /\ UNCHANGED <<scheduler, tooled>>
     \/ Returns(u, TRUE)
  /\ UNCHANGED <<today, logged, bounds>>

(* add_message, then log_heartbeat: if either fails the message is not     *)
(* counted.                                                                *)
Store(u) ==
  /\ at[u] = "storing"
  /\ \/ Goto(u, "logging") /\ UNCHANGED <<scheduler, chat, losses>>
     \/ Loses /\ Raises(u, FALSE)
  /\ UNCHANGED <<today, logged, crashes, deletes>>

LogSend(u) ==
  /\ at[u] = "logging"
  /\ \/ /\ logged' = [logged EXCEPT ![u][today] = @ + 1]
        /\ Returns(u, FALSE)
        /\ UNCHANGED losses
     \/ Loses /\ Raises(u, FALSE) /\ UNCHANGED logged
  /\ UNCHANGED <<today, crashes, deletes>>

Step(u) ==
  \/ Route(u) \/ Gate(u) \/ Prepare(u) \/ Decide(u) \/ LogSilence(u)
  \/ ActFails(u) \/ ActEnds(u) \/ Send(u) \/ Store(u) \/ LogSend(u)

-----------------------------------------------------------------------------
(* The outbound dispatcher                                                 *)

Shows(u, bubble) == phone' = [phone EXCEPT ![u] = bubble]

(* A text that arrives hides the indicator, unless the call to show it is  *)
(* still on its way; one that is lost hides nothing.                       *)
AfterText(bubble, arrives) ==
  CASE bubble = "starting"             -> "stray"
    [] bubble = "shown" /\ ~arrives    -> "stray"
    [] bubble = "stopping"             -> "stopping"
    [] OTHER -> IF arrives THEN "hidden" ELSE bubble

Dispatch(u) ==
  /\ outbox[u] # <<>>
  /\ outbox' = [outbox EXCEPT ![u] = Tail(@)]
  /\ \/ Head(outbox[u]) = "start" /\ Shows(u, "starting")
     \/ Head(outbox[u]) = "stop" /\ Shows(u, "stopping")
     \/ /\ Head(outbox[u]) = "text"
        /\ \E arrives \in BOOLEAN : Shows(u, AfterText(phone[u], arrives))
  /\ UNCHANGED <<scheduler, today, at, sent, tooled, nudged, logged, bounds>>

(* The task of _spawn_typing_task is done: the call got through, or it     *)
(* failed.  A call to hide that fails, or that was overtaken by an earlier *)
(* one to show, leaves the indicator.                                      *)
TypingCallEnds(u) ==
  /\ \/ phone[u] = "starting" /\ (Shows(u, "shown") \/ Shows(u, "hidden"))
     \/ phone[u] = "stopping" /\ (Shows(u, "hidden") \/ Shows(u, "stray"))
  /\ UNCHANGED <<scheduler, today, at, sent, tooled, outbox, nudged, logged, bounds>>

-----------------------------------------------------------------------------
(* The user clears the log in the dashboard; the worker dies and another   *)
(* starts, which knows no _last_tick.                                      *)

DeleteLogs(u) ==
  /\ MayGoWrong /\ deletes' = deletes + 1
  /\ logged' = [logged EXCEPT ![u] = [d \in Days |-> 0]]
  /\ UNCHANGED <<scheduler, today, at, chat, losses, crashes>>

(* Mutant: the runs survive the worker.                                    *)
CrashKeepsRuns ==
  /\ up /\ MayGoWrong
  /\ crashes' = crashes + 1
  /\ up' = FALSE /\ ticking' = FALSE /\ waiting' = {} /\ due' = Users
  /\ UNCHANGED <<today, at, chat, logged, losses, deletes>>

Crash ==
  /\ up /\ MayGoWrong
  /\ crashes' = crashes + 1
  /\ up' = FALSE /\ ticking' = FALSE /\ waiting' = {} /\ due' = Users
  /\ at' = [u \in Users |-> "idle"] /\ sent' = {}
  /\ outbox' = [u \in Users |-> <<>>]
  /\ phone' = [u \in Users |-> IF phone[u] = "hidden" THEN "hidden" ELSE "stray"]
  /\ UNCHANGED <<today, tooled, nudged, logged, losses, deletes>>

Boot ==
  /\ ~up /\ up' = TRUE
  /\ UNCHANGED <<due, ticking, waiting, today, at, chat, logged, bounds>>

-----------------------------------------------------------------------------
Init ==
  /\ up = FALSE /\ today = 0 /\ due = Users /\ ticking = FALSE /\ waiting = {}
  /\ at = [u \in Users |-> "idle"] /\ sent = {} /\ tooled = {}
  /\ outbox = [u \in Users |-> <<>>] /\ phone = [u \in Users |-> "hidden"]
  /\ logged = [u \in Users |-> [d \in Days |-> 0]] /\ nudged = logged
  /\ losses = 0 /\ crashes = 0 /\ deletes = 0

Next ==
  \/ Midnight \/ TickStarts \/ TickEnds \/ Crash \/ Boot
  \/ \E u \in Users :
       Elapse(u) \/ Claim(u) \/ Step(u) \/ ToolSends(u) \/ Think(u)
       \/ Dispatch(u) \/ TypingCallEnds(u) \/ DeleteLogs(u)

Spec == Init /\ [][Next]_vars

(* The worker is restarted, its loop wakes up every minute, calls of the   *)
(* model and of the database return, an agent's rounds are bounded, and    *)
(* the calls of the dispatcher have timeouts.                              *)
(* Weak fairness does for the semaphore: nobody claims it twice in a tick. *)
FairSpec ==
  /\ Spec
  /\ WF_vars(Boot) /\ WF_vars(TickStarts) /\ WF_vars(TickEnds)
  /\ \A u \in Users :
       WF_vars(Claim(u)) /\ WF_vars(Step(u)) /\ WF_vars(Dispatch(u))

-----------------------------------------------------------------------------
(* Properties                                                              *)

(* Types; users are evaluated within a tick only, no more of them at once  *)
(* than the semaphore admits, and a dead worker evaluates nobody.          *)
TypeOK ==
  /\ up \in BOOLEAN /\ today \in Days
  /\ due \in SUBSET Users /\ ticking \in BOOLEAN /\ waiting \in SUBSET Users
  /\ at \in [Users -> Places]
  /\ sent \in SUBSET Users /\ tooled \in SUBSET Users
  /\ outbox \in [Users -> Seq(Kinds)] /\ phone \in [Users -> Bubbles]
  /\ logged \in [Users -> [Days -> Nat]] /\ nudged \in [Users -> [Days -> Nat]]
  /\ losses \in Nat /\ crashes \in Nat /\ deletes \in Nat
  /\ ~ticking => waiting = {} /\ Running = {}
  /\ Cardinality(Running) <= Concurrency
  /\ ~up => ~ticking

(* No more runs of a user publish a message on a day than the maximum, but *)
(* for one for each crash or failure between publishing and logging, and a *)
(* new budget for each time the log was cleared; also when a run goes on   *)
(* over midnight (heartbeat_max_daily_messages, get_daily_count).  Whether *)
(* and when a message arrives is not counted.                              *)
NudgesWithinBudget ==
  \A u \in Users, d \in Days :
    nudged[u][d] <= MaxDaily + MaxDaily * deletes + crashes + losses

(* Once nothing is on the bus for a user whom no run is thinking about,    *)
(* the indicator that the last run showed was taken back, whichever way    *)
(* the run ended: by a text, or by the `finally` of                        *)
(* run_heartbeat_for_user.  Excepted is a run that thinks that a tool sent *)
(* its message: the round of the agent after it shows the indicator again, *)
(* and nothing follows.  A "stray" indicator was taken back, but a call    *)
(* that failed or came late, a lost text or a crash undid it.              *)
TypingEnds ==
  \A u \in Users \ tooled :
    at[u] \in {"idle", "routing", "gating", "storing", "logging"} /\ outbox[u] = <<>>
      => phone[u] \notin {"starting", "shown"}

(* Every due user is evaluated, however long or badly the others' runs go. *)
DueIsEvaluated ==
  \A u \in Users : u \in due ~> (at[u] # "idle" \/ u \notin due)
===============================================================================
