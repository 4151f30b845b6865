------------------------------- MODULE WebchatBus ------------------------------
(***************************************************************************)
(* Requests of the web chat and the streams that wait for their answers    *)
(* (backend/app/bus.py, channels/webchat.py, channels/manager.py, and what *)
(* agent/ingestion.py and agent/router.py do with a request id), for one   *)
(* user.                                                                   *)
(*                                                                         *)
(*   _response_futures        fut[r]: the registered future of a request   *)
(*   _event_queues            queue[r], the queue objects in left[r]       *)
(*   message_bus.outbound     outbound, read by the dispatcher             *)
(*   chat_events              at[s], fate[s], holds[s] of each stream      *)
(*   a web message            phase[r]                                     *)
(*                                                                         *)
(* A future that was evicted lives on in the streams that hold it, with    *)
(* the outcome it had then (fate); so does an evicted queue (holds).  The  *)
(* clean-up of a request (300 s), the deadline of a stream (120 s) and     *)
(* that of a turn (600 s) may come in any order, since a client opens its  *)
(* stream when it likes.  Events are tool calls and approval prompts, in   *)
(* no order; a reply may be empty; whatever else answers a request is a    *)
(* notice.  A queued turn is not told from the running one, and what a     *)
(* turn publishes behind its reply is published with it.                   *)
(***************************************************************************)
EXTENDS Naturals, Sequences, FiniteSets

CONSTANTS
  Requests,
  Streams,
  Of,          (* Of[s]: the request a stream asks for                     *)
  NoRequest,
  Events       (* bound: the events of a request that nobody has seen      *)

ASSUME WebchatAssumption ==
  Of \in [Streams -> Requests] /\ IsFiniteSet(Streams) /\ NoRequest \notin Requests

Contents == {"reply", "notice"}
NoQueue == 0
(* Queue objects of a request: one is registered, the others are held.     *)
Queues == 1..(1 + Cardinality(Streams))

VARIABLES
  phase,     (* [request]: how far its message has come                    *)
  asking,    (* the request whose turn has an approval pending             *)
  outbound,
  fut,       (* [request]: "none", "pending" or the content it was given   *)
  queue,     (* [request]: the registered queue, or NoQueue                *)
  left,      (* [request][queue]: events nobody took yet                   *)
  at,        (* [stream]                                                   *)
  fate,      (* [stream]: "live" while its future is the registered one    *)
  holds,     (* [stream]: its queue                                        *)
  unseen,    (* [request]: events published and not sent to a client       *)
  answered,  (* [request]: the first answer before the first clean-up      *)
  late,      (* requests whose first clean-up has fired                    *)
  punctual   (* streams opened before that                                 *)

message == <<phase, asking>>
registry == <<fut, queue, left>>
stream == <<at, fate, holds>>
ghosts == <<unseen, answered, late, punctual>>
vars == <<message, outbound, registry, stream, ghosts>>

Set(f, x, v) == [f EXCEPT ![x] = v]
Publish(r, contents) ==
  outbound' = outbound \o [i \in 1..Len(contents) |-> [req |-> r, content |-> contents[i]]]

(* What the future a stream holds has come to.                             *)
Outcome(s) == IF fate[s] = "live" THEN fut[Of[s]] ELSE fate[s]

Init ==
  /\ phase = [r \in Requests |-> "new"] /\ asking = NoRequest
  /\ outbound = <<>>
  /\ fut = [r \in Requests |-> "none"]
  /\ queue = [r \in Requests |-> NoQueue]
  /\ left = [r \in Requests |-> [q \in Queues |-> {}]]
  /\ at = [s \in Streams |-> "closed"] /\ fate = [s \in Streams |-> "live"]
  /\ holds = [s \in Streams |-> NoQueue]
  /\ unseen = [r \in Requests |-> {}]
  /\ answered = [r \in Requests |-> "none"] /\ late = {} /\ punctual = {}

-------------------------------------------------------------------------------
(* The registry.                                                           *)

(* Mutant: the queue is made when the first stream opens.                  *)
NoQueueYet(r) == UNCHANGED queue

HeldBy(r, others) == {holds[s] : s \in {t \in others : Of[t] = r}}
Fresh(r) == CHOOSE q \in Queues : q \notin HeldBy(r, Streams)

(* register_event_queue                                                    *)
RegisterQueue(r) == queue' = Set(queue, r, IF queue[r] = NoQueue THEN Fresh(r) ELSE queue[r])

(* The queue a POST registers: a request id is new.                        *)
QueueOfPost(r) == RegisterQueue(r)

(* resolve_response: the future stays registered for streams to come.      *)
Resolve(r, c) ==
  /\ fut' = IF fut[r] = "pending" THEN Set(fut, r, c) ELSE fut
  /\ answered' = IF answered[r] = "none" /\ r \notin late THEN Set(answered, r, c)
                 ELSE answered
  /\ UNCHANGED fate

(* The dispatcher takes the next message; without a pending future it goes *)
(* to the channel, whose send_text does nothing.                           *)
Dispatch ==
  /\ outbound # <<>>
  /\ Resolve(Head(outbound).req, Head(outbound).content)
  /\ outbound' = Tail(outbound)
  /\ UNCHANGED <<message, queue, left, at, holds, unseen, late, punctual>>

(* The events in the queues that some of these streams still hold.         *)
KeptBy(r, others) ==
  [left EXCEPT ![r] = [q \in Queues |-> IF q \in HeldBy(r, others) THEN left[r][q] ELSE {}]]

(* The future is no longer registered; streams keep what it came to.       *)
Evict(r) ==
  /\ fut' = Set(fut, r, "none")
  /\ fate' = [s \in Streams |->
                IF at[s] = "watching" /\ Of[s] = r /\ fate[s] = "live"
                THEN IF fut[r] = "pending" THEN "cancelled" ELSE fut[r]
                ELSE fate[s]]
  /\ late' = late \cup {r}
  /\ UNCHANGED <<message, outbound, at, holds, unseen, answered, punctual>>

(* Mutant: the clean-up leaves the queue.                                  *)
CleanUpFuture(r) ==
  fut[r] # "none" /\ Evict(r) /\ UNCHANGED <<queue, left>>

(* Mutant: the clean-up looks for futures without an answer only.          *)
CleanUpPending(r) ==
  /\ fut[r] = "pending" /\ Evict(r)
  /\ queue' = Set(queue, r, NoQueue) /\ left' = KeptBy(r, Streams)

(* The clean-up task that every registration of a future starts.           *)
CleanUp(r) ==
  /\ fut[r] # "none" /\ Evict(r)
  /\ queue' = Set(queue, r, NoQueue) /\ left' = KeptBy(r, Streams)

-------------------------------------------------------------------------------
(* A message on its way.                                                   *)

MessageOnly == UNCHANGED <<registry, stream, ghosts>>

(* POST /user/chat                                                         *)
Post(r) ==
  /\ phase[r] = "new" /\ phase' = Set(phase, r, "bus")
  /\ fut' = Set(fut, r, "pending") /\ QueueOfPost(r)
  /\ UNCHANGED <<asking, outbound, left, stream, ghosts>>

(* A disabled channel, a /report, or an exception before the batch.        *)
Bounce(r) ==
  /\ phase[r] = "bus" /\ phase' = Set(phase, r, "over")
  /\ Publish(r, <<"notice">>) /\ UNCHANGED asking /\ MessageOnly

(* The message answers the pending approval, or is asked to be clearer.    *)
Consume(r) ==
  /\ phase[r] = "bus" /\ asking # NoRequest
  /\ phase' = Set(phase, r, "over")
  /\ asking' \in {NoRequest, asking}
  /\ Resolve(r, "notice")
  /\ UNCHANGED <<outbound, queue, left, at, holds, unseen, late, punctual>>

(* MessageBatcher.enqueue: the batch carries the id of its last message.   *)
(* An unrelated text ends the approval, an attachment leaves it.           *)
Enqueue(r) ==
  /\ phase[r] = "bus"
  /\ phase' = [p \in Requests |-> IF p = r THEN "batch"
                                  ELSE IF phase[p] = "batch" THEN "over"
                                  ELSE phase[p]]
  /\ asking' \in {NoRequest, asking}
  /\ UNCHANGED outbound /\ MessageOnly

(* A text message joins the batch: its turn carries no request id.         *)
TextJoins(r) ==
  /\ phase[r] = "batch" /\ phase' = Set(phase, r, "over")
  /\ UNCHANGED <<asking, outbound>> /\ MessageOnly

Flush(r) ==
  /\ phase[r] = "batch" /\ phase' = Set(phase, r, "turn")
  /\ UNCHANGED <<asking, outbound>> /\ MessageOnly

(* publish_event, for a tool call or (asks) an approval prompt.            *)
Event(r, asks) ==
  /\ phase[r] = "turn" /\ asking # r
  /\ \E e \in Events \ unseen[r] :
       /\ unseen' = Set(unseen, r, unseen[r] \cup {e})
       /\ left' = IF queue[r] = NoQueue THEN left
                  ELSE [left EXCEPT ![r][queue[r]] = @ \cup {e}]
  /\ asking' = IF asks THEN r ELSE asking
  /\ UNCHANGED <<phase, outbound, fut, queue, stream, answered, late, punctual>>

(* The approval times out, or is answered from another channel.            *)
AskEnds ==
  /\ asking # NoRequest /\ asking' = NoRequest
  /\ UNCHANGED <<phase, outbound>> /\ MessageOnly

(* dispatch_reply_step.  Nothing is published for the request when a tool  *)
(* had sent the reply or there is no address.                              *)
Reply(r) ==
  /\ phase[r] = "turn" /\ asking # r /\ phase' = Set(phase, r, "over")
  /\ \E contents \in {<<>>, <<"reply">>} : Publish(r, contents)
  /\ UNCHANGED asking /\ MessageOnly

(* The deadline or an exception, also behind the reply; the apology needs  *)
(* an address.  An approval may be left behind.                            *)
TurnFails(r) ==
  /\ phase[r] = "turn" /\ phase' = Set(phase, r, "over")
  /\ \/ \E contents \in {<<>>, <<"notice">>} : Publish(r, contents)
     \/ asking # r /\ Publish(r, <<"reply", "notice">>)
  /\ UNCHANGED asking /\ MessageOnly

-------------------------------------------------------------------------------
(* A stream.                                                               *)

Opens(s, f) ==
  LET r == Of[s] IN
  /\ at[s] = "closed" /\ phase[r] # "new"
  /\ RegisterQueue(r) /\ holds' = Set(holds, s, queue'[r])
  /\ fut' = Set(fut, r, f)
  /\ at' = Set(at, s, "watching")
  /\ punctual' = IF r \in late THEN punctual ELSE punctual \cup {s}
  /\ UNCHANGED <<message, outbound, left, fate, unseen, answered, late>>

(* Mutant: a stream always registers a future of its own.                  *)
OpenAfresh(s) == Opens(s, "pending")

(* chat_events: the registered future, or a new one that nobody may answer.*)
Open(s) == Opens(s, IF fut[Of[s]] = "none" THEN "pending" ELSE fut[Of[s]])

(* The next event, while there is no answer.                               *)
Take(s) ==
  /\ at[s] = "watching" /\ Outcome(s) = "pending"
  /\ \E e \in left[Of[s]][holds[s]] :
       /\ unseen' = Set(unseen, Of[s], unseen[Of[s]] \ {e})
       /\ left' = [left EXCEPT ![Of[s]][holds[s]] = @ \ {e}]
  /\ UNCHANGED <<message, outbound, fut, queue, stream, answered, late, punctual>>

(* The finally clause removes whatever queue is registered.                *)
Ends(s, how) ==
  /\ at' = Set(at, s, how) /\ queue' = Set(queue, Of[s], NoQueue)
  /\ fate' = Set(fate, s, "live") /\ holds' = Set(holds, s, NoQueue)
  /\ UNCHANGED <<message, outbound, fut, answered, late, punctual>>

(* What is left in the queue is not sent.                                  *)
Forget(s) == UNCHANGED unseen /\ left' = KeptBy(Of[s], Streams \ {s})

(* The events that are left, then the answer.                              *)
Drain(s) ==
  /\ unseen' = Set(unseen, Of[s], unseen[Of[s]] \ left[Of[s]][holds[s]])
  /\ left' = [KeptBy(Of[s], Streams \ {s}) EXCEPT ![Of[s]][holds[s]] = {}]

(* The answer; a cancelled future breaks the stream without a word, since  *)
(* CancelledError is not an Exception.                                     *)
Answer(s) ==
  /\ at[s] = "watching" /\ Outcome(s) # "pending"
  /\ Drain(s)
  /\ Ends(s, IF Outcome(s) = "cancelled" THEN "broken" ELSE Outcome(s))

(* The deadline counts only while there is no answer.                      *)
TimeOut(s) ==
  /\ at[s] = "watching" /\ Outcome(s) = "pending"
  /\ Ends(s, "timedout") /\ Forget(s)

(* The client goes away.                                                   *)
Leave(s) ==
  /\ at[s] = "watching" /\ Ends(s, "gone") /\ Forget(s)

-------------------------------------------------------------------------------
Next ==
  \/ Dispatch
  \/ AskEnds
  \/ \E r \in Requests :
       \/ Post(r) \/ Bounce(r) \/ Consume(r) \/ Enqueue(r) \/ TextJoins(r)
       \/ Flush(r) \/ Reply(r) \/ TurnFails(r) \/ CleanUp(r)
       \/ \E asks \in BOOLEAN : Event(r, asks)
  \/ \E s \in Streams : Open(s) \/ Take(s) \/ Answer(s) \/ TimeOut(s) \/ Leave(s)

Spec == Init /\ [][Next]_vars

(* The loop of the dispatcher, the timers and the loop of a stream run;    *)
(* no turn has to end and no client has to come.                           *)
FairSpec ==
  /\ Spec
  /\ WF_vars(Dispatch)
  /\ \A r \in Requests : WF_vars(CleanUp(r))
  /\ \A s \in Streams : WF_vars(Answer(s) \/ TimeOut(s))

-------------------------------------------------------------------------------
(* Types, and: a queue is registered only while a clean-up will come for   *)
(* it, and a stream holds a queue exactly while it watches.                *)
TypeOK ==
  /\ phase \in [Requests -> {"new", "bus", "batch", "turn", "over"}]
  /\ asking \in Requests \cup {NoRequest}
  /\ outbound \in Seq([req : Requests, content : Contents])
  /\ fut \in [Requests -> Contents \cup {"none", "pending"}]
  /\ queue \in [Requests -> Queues \cup {NoQueue}]
  /\ \A r \in Requests : queue[r] # NoQueue => fut[r] # "none"
  /\ left \in [Requests -> [Queues -> SUBSET Events]]
  /\ at \in [Streams -> Contents \cup {"closed", "watching", "broken", "timedout", "gone"}]
  /\ fate \in [Streams -> Contents \cup {"live", "cancelled"}]
  /\ holds \in [Streams -> Queues \cup {NoQueue}]
  /\ \A s \in Streams : at[s] = "watching" <=> holds[s] # NoQueue
  /\ unseen \in [Requests -> SUBSET Events]
  /\ answered \in [Requests -> Contents \cup {"none"}]
  /\ late \subseteq Requests /\ punctual \subseteq Streams

(* A stream opened before the request's clean-up ends with the first       *)
(* answer the request got, be it before or after the stream was opened,    *)
(* and without one only if there was none until it ended: no answer is     *)
(* popped before a slow client comes, replaced by the apology behind it,   *)
(* or hidden by the deadline.                                              *)
EndsWithTheAnswer ==
  [][\A s \in punctual :
        at[s] = "watching" /\ at'[s] \notin {"watching", "gone"} =>
          IF answered[Of[s]] = "none" THEN at'[s] \in {"broken", "timedout"}
          ELSE at'[s] = answered[Of[s]]]_vars

(* The only stream of a request shows every event of the turn before the   *)
(* answer, those that were published before it was opened included: the    *)
(* user sees the approval prompt that a later message is to answer.        *)
PromptsFirst ==
  [][\A s \in punctual :
        /\ at[s] = "watching" /\ at'[s] \in Contents
        /\ \A t \in Streams \ {s} : Of[t] = Of[s] => at[t] = "closed"
        => unseen'[Of[s]] = {}]_vars

(* The bus comes to rest: futures and queues are evicted although nobody   *)
(* may come for them, every stream ends although nobody may answer, and    *)
(* the dispatcher gets through answers to requests that were answered or   *)
(* evicted before.                                                         *)
NothingStays ==
  []<>(/\ \A r \in Requests : fut[r] = "none" /\ queue[r] = NoQueue
       /\ \A s \in Streams : at[s] # "watching"
       /\ outbound = <<>>)
===============================================================================
