----------------------------- MODULE WebchatBusProofs ----------------------------
(***************************************************************************)
(* Theorems about WebchatBus, for any number of requests, streams and      *)
(* events: a stream opened in time ends with the request's first answer,   *)
(* in which the queues of events play no part, and shows the events first. *)
(***************************************************************************)
EXTENDS WebchatBus, FiniteSetTheorems, TLAPS

Phases == {"new", "bus", "batch", "turn", "over"}
Messages == [req : Requests, content : Contents]

Types ==
  /\ phase \in [Requests -> Phases]
  /\ outbound \in Seq(Messages)
  /\ fut \in [Requests -> Contents \cup {"none", "pending"}]
  /\ answered \in [Requests -> Contents \cup {"none"}]
  /\ at \in [Streams -> Contents \cup {"closed", "watching", "broken", "timedout", "gone"}]
  /\ fate \in [Streams -> Contents \cup {"live", "cancelled"}]
  /\ late \subseteq Requests /\ punctual \subseteq Streams

(* Only requests that were posted are answered.                            *)
PostedInv ==
  /\ \A i \in 1..Len(outbound) : phase[outbound[i].req] # "new"
  /\ \A r \in Requests :
       phase[r] = "new" => answered[r] = "none" /\ fut[r] = "none" /\ r \notin late
  /\ \A s \in Streams : at[s] = "watching" => phase[Of[s]] # "new"

(* Until its clean-up the future is registered, with the first answer.     *)
FutureInv ==
  \A r \in Requests \ late : phase[r] # "new" =>
    fut[r] = IF answered[r] = "none" THEN "pending" ELSE answered[r]

(* A stream opened before the clean-up holds that future; at the clean-up  *)
(* its outcome is settled.                                                 *)
StreamInv ==
  /\ \A s \in Streams : at[s] # "watching" => fate[s] = "live"
  /\ \A s \in Streams : at[s] = "watching" /\ fate[s] = "live" => fut[Of[s]] # "none"
  /\ \A s \in punctual : at[s] # "closed"
  /\ \A s \in punctual : at[s] = "watching" =>
       IF fate[s] = "live" THEN Of[s] \notin late
       ELSE /\ Of[s] \in late
            /\ fate[s] = IF answered[Of[s]] = "none" THEN "cancelled" ELSE answered[Of[s]]

IInv == Types /\ PostedInv /\ FutureInv /\ StreamInv

LEMMA InitIInv == Init => IInv
<1> SUFFICES ASSUME Init PROVE IInv
  OBVIOUS
<1>1. Types
  BY DEF Init, Types, Phases
<1>2. PostedInv
  BY DEF Init, PostedInv
<1>3. FutureInv /\ StreamInv
  BY DEF Init, FutureInv, StreamInv
<1> QED BY <1>1, <1>2, <1>3 DEF IInv

LEMMA OutboundIs ==
  ASSUME outbound \in Seq(Messages)
  PROVE  \A i \in 1..Len(outbound) : outbound[i].req \in Requests
<1> SUFFICES ASSUME NEW i \in 1..Len(outbound) PROVE outbound[i].req \in Requests
  OBVIOUS
<1>1. outbound[i] \in Messages
  OBVIOUS
<1> QED BY <1>1 DEF Messages

(* What is published is about a request that was posted.                   *)
LEMMA PublishIs ==
  ASSUME NEW r \in Requests, NEW contents \in Seq(Contents), outbound \in Seq(Messages),
         Publish(r, contents)
  PROVE  /\ outbound' \in Seq(Messages)
         /\ \A i \in 1..Len(outbound') :
              outbound'[i].req = r \/ \E j \in 1..Len(outbound) : outbound'[i] = outbound[j]
<1> DEFINE more == [i \in 1..Len(contents) |-> [req |-> r, content |-> contents[i]]]
<1>1. more \in Seq(Messages) /\ Len(more) = Len(contents)
      /\ \A i \in 1..Len(more) : more[i].req = r
  BY DEF Messages
<1>2. outbound' = outbound \o more
  BY DEF Publish
<1> HIDE DEF more
<1> QED BY <1>1, <1>2

(* A message comes on its way: the registry is left alone, requests that   *)
(* were posted stay so.                                                    *)
Moves ==
  /\ UNCHANGED <<fut, at, fate, answered, late, punctual>>
  /\ phase' \in [Requests -> Phases] /\ outbound' \in Seq(Messages)
  /\ \A r \in Requests : phase'[r] = "new" <=> phase[r] = "new"
  /\ \A i \in 1..Len(outbound') : phase'[outbound'[i].req] # "new"

LEMMA MovesKeeps ==
  ASSUME IInv, Moves
  PROVE  IInv'
<1> USE WebchatAssumption
<1>1. Types'
  BY DEF IInv, Types, Moves
<1>2. PostedInv'
  BY DEF IInv, Types, Moves, PostedInv
<1>3. FutureInv' /\ StreamInv'
  BY DEF IInv, Types, Moves, FutureInv, StreamInv
<1> QED BY <1>1, <1>2, <1>3 DEF IInv

LEMMA MessagesMove ==
  ASSUME IInv,
         \/ AskEnds
         \/ \E r \in Requests : \/ Bounce(r) \/ Enqueue(r) \/ TextJoins(r) \/ Flush(r)
                                \/ Reply(r) \/ TurnFails(r)
                                \/ \E asks \in BOOLEAN : Event(r, asks)
  PROVE  Moves
<1>0. /\ phase \in [Requests -> Phases] /\ outbound \in Seq(Messages)
      /\ \A i \in 1..Len(outbound) : phase[outbound[i].req] # "new"
      /\ \A i \in 1..Len(outbound) : outbound[i].req \in Requests
  BY OutboundIs DEF IInv, Types, PostedInv
<1>1. UNCHANGED <<fut, at, fate, answered, late, punctual>>
  BY DEF AskEnds, Bounce, Enqueue, TextJoins, Flush, Reply, TurnFails, Event, MessageOnly,
     registry, stream, ghosts
<1>2. /\ phase' \in [Requests -> Phases]
      /\ \A r \in Requests : phase'[r] = "new" <=> phase[r] = "new"
  BY <1>0 DEF AskEnds, Bounce, Enqueue, TextJoins, Flush, Reply, TurnFails, Event,
     MessageOnly, Set, Phases
<1>3. CASE outbound' = outbound
  BY <1>0, <1>1, <1>2, <1>3 DEF Moves
<1>4. ASSUME NEW r \in Requests, NEW contents \in Seq(Contents), Publish(r, contents),
             phase[r] # "new"
      PROVE  Moves
  <2>1. outbound' \in Seq(Messages)
    BY <1>0, <1>4, PublishIs
  <2>2. \A i \in 1..Len(outbound') : phase'[outbound'[i].req] # "new"
    BY <1>0, <1>2, <1>4, PublishIs
  <2> QED BY <1>1, <1>2, <2>1, <2>2 DEF Moves
<1>5. ASSUME NEW r \in Requests, Bounce(r) \/ Reply(r) \/ TurnFails(r)
      PROVE  Moves
  <2>1. \E contents \in Seq(Contents) : Publish(r, contents)
    <3>1. <<>> \in Seq(Contents) /\ <<"reply">> \in Seq(Contents)
          /\ <<"notice">> \in Seq(Contents) /\ <<"reply", "notice">> \in Seq(Contents)
      BY DEF Contents
    <3> QED BY <1>5, <3>1 DEF Bounce, Reply, TurnFails
  <2>2. phase[r] # "new"
    BY <1>5 DEF Bounce, Reply, TurnFails
  <2> QED BY <1>4, <2>1, <2>2
<1> QED BY <1>3, <1>5 DEF AskEnds, Enqueue, TextJoins, Flush, Event

LEMMA PostKeeps ==
  ASSUME IInv, NEW r \in Requests, Post(r)
  PROVE  IInv'
<1> USE WebchatAssumption
<1>1. /\ phase[r] = "new" /\ phase' = [phase EXCEPT ![r] = "bus"]
      /\ fut' = [fut EXCEPT ![r] = "pending"]
      /\ UNCHANGED <<outbound, at, fate, answered, late, punctual>>
  BY DEF Post, Set, stream, ghosts
<1>2. Types'
  BY <1>1 DEF IInv, Types, Phases
<1>3. PostedInv'
  <2>1. \A i \in 1..Len(outbound) : outbound[i].req \in Requests
    BY OutboundIs DEF IInv, Types
  <2> QED BY <1>1, <2>1 DEF IInv, Types, PostedInv
<1>4. FutureInv'
  BY <1>1 DEF IInv, Types, PostedInv, FutureInv
<1>5. StreamInv'
  BY <1>1 DEF IInv, StreamInv
<1> QED BY <1>2, <1>3, <1>4, <1>5 DEF IInv

(* The first answer to a pending future is the one that stays.             *)
LEMMA ResolveKeeps ==
  ASSUME IInv, NEW r \in Requests, NEW c \in Contents, Resolve(r, c), phase[r] # "new",
         phase' \in [Requests -> Phases], outbound' \in Seq(Messages),
         \A p \in Requests : phase'[p] = "new" <=> phase[p] = "new",
         \A i \in 1..Len(outbound') : phase'[outbound'[i].req] # "new",
         UNCHANGED <<at, late, punctual>>
  PROVE  IInv'
<1> USE WebchatAssumption
<1>1. /\ fut' = IF fut[r] = "pending" THEN [fut EXCEPT ![r] = c] ELSE fut
      /\ answered' = IF answered[r] = "none" /\ r \notin late
                     THEN [answered EXCEPT ![r] = c] ELSE answered
      /\ fate' = fate
  BY DEF Resolve, Set
<1>2. Types'
  BY <1>1 DEF IInv, Types
<1>3. PostedInv'
  BY <1>1 DEF IInv, Types, PostedInv
<1>4. c # "none" /\ c # "pending"
  BY DEF Contents
<1>5. \A p \in late : answered'[p] = answered[p]
  BY <1>1 DEF IInv, Types
<1>6. FutureInv'
  BY <1>1, <1>4 DEF IInv, Types, FutureInv, Contents
<1>7. StreamInv'
  <2>1. \A p \in Requests : fut[p] # "none" => fut'[p] # "none"
    BY <1>1, <1>4 DEF IInv, Types
  <2> QED BY <1>1, <1>5, <2>1 DEF IInv, Types, StreamInv
<1> QED BY <1>2, <1>3, <1>6, <1>7 DEF IInv

LEMMA AnswersKeep ==
  ASSUME IInv, Dispatch \/ \E r \in Requests : Consume(r)
  PROVE  IInv'
<1>0. /\ phase \in [Requests -> Phases] /\ outbound \in Seq(Messages)
      /\ \A i \in 1..Len(outbound) : phase[outbound[i].req] # "new"
  BY DEF IInv, Types, PostedInv
<1>1. CASE Dispatch
  <2>1. /\ outbound # <<>> /\ outbound' = Tail(outbound)
        /\ Resolve(Head(outbound).req, Head(outbound).content)
        /\ UNCHANGED <<phase, at, late, punctual>>
    BY <1>1 DEF Dispatch, message
  <2>2. Head(outbound) \in Messages /\ Head(outbound) = outbound[1] /\ 1 \in 1..Len(outbound)
    BY <1>0, <2>1
  <2>3. /\ outbound' \in Seq(Messages)
        /\ \A i \in 1..Len(outbound') : phase[outbound'[i].req] # "new"
    BY <1>0, <2>1
  <2>4. Head(outbound).req \in Requests /\ Head(outbound).content \in Contents
        /\ phase[Head(outbound).req] # "new"
    BY <1>0, <2>2 DEF Messages
  <2> QED BY <1>0, <2>1, <2>3, <2>4, ResolveKeeps
<1>2. ASSUME NEW r \in Requests, Consume(r)
      PROVE  IInv'
  <2>1. /\ phase[r] = "bus" /\ phase' = [phase EXCEPT ![r] = "over"]
        /\ Resolve(r, "notice") /\ UNCHANGED <<outbound, at, late, punctual>>
    BY <1>2 DEF Consume, Set
  <2>2. /\ phase' \in [Requests -> Phases]
        /\ \A p \in Requests : phase'[p] = "new" <=> phase[p] = "new"
    BY <1>0, <2>1 DEF Phases
  <2>3. \A i \in 1..Len(outbound') : phase'[outbound'[i].req] # "new"
    BY <1>0, <2>1, <2>2 DEF Messages
  <2> QED BY <1>0, <2>1, <2>2, <2>3, ResolveKeeps DEF Contents
<1> QED BY <1>1, <1>2

(* The clean-up settles the streams that hold the future.                  *)
LEMMA CleanUpKeeps ==
  ASSUME IInv, NEW r \in Requests, CleanUp(r)
  PROVE  IInv'
<1> USE WebchatAssumption
<1>1. /\ fut[r] # "none" /\ fut' = [fut EXCEPT ![r] = "none"]
      /\ fate' = [s \in Streams |->
                    IF at[s] = "watching" /\ Of[s] = r /\ fate[s] = "live"
                    THEN IF fut[r] = "pending" THEN "cancelled" ELSE fut[r]
                    ELSE fate[s]]
      /\ late' = late \cup {r}
      /\ UNCHANGED <<phase, outbound, at, answered, punctual>>
  BY DEF CleanUp, Evict, Set, message
<1>2. Types'
  BY <1>1 DEF IInv, Types
<1>3. ASSUME phase[r] = "new" PROVE FALSE
  BY <1>1, <1>3 DEF IInv, PostedInv
<1>4. PostedInv'
  BY <1>1, <1>3 DEF IInv, Types, PostedInv
<1>5. FutureInv'
  BY <1>1 DEF IInv, Types, FutureInv
<1>6. StreamInv'
  <2>1. ASSUME NEW s \in punctual, at'[s] = "watching", Of[s] = r, fate[s] = "live"
        PROVE  fate'[s] = IF answered[r] = "none" THEN "cancelled" ELSE answered[r]
    <3>1. s \in Streams /\ at[s] = "watching" /\ r \notin late
      BY <1>1, <2>1 DEF IInv, Types, StreamInv
    <3>2. fut[r] = IF answered[r] = "none" THEN "pending" ELSE answered[r]
      BY <1>3, <3>1 DEF IInv, FutureInv
    <3>3. fate'[s] = IF fut[r] = "pending" THEN "cancelled" ELSE fut[r]
      BY <1>1, <2>1, <3>1
    <3>4. answered[r] \in Contents \cup {"none"}
      BY DEF IInv, Types
    <3> QED BY <3>2, <3>3, <3>4 DEF Contents
  <2>2. ASSUME NEW s \in punctual, at'[s] = "watching", ~(Of[s] = r /\ fate[s] = "live")
        PROVE  fate'[s] = fate[s]
    BY <1>1, <2>2 DEF IInv, Types
  <2>3. ASSUME NEW s \in punctual, at'[s] = "watching"
        PROVE  IF fate'[s] = "live" THEN Of[s] \notin late'
               ELSE /\ Of[s] \in late'
                    /\ fate'[s] = IF answered[Of[s]] = "none" THEN "cancelled"
                                  ELSE answered[Of[s]]
    <3>1. answered[r] # "live"
      BY DEF IInv, Types, Contents
    <3> QED BY <1>1, <2>1, <2>2, <2>3, <3>1 DEF IInv, StreamInv
  <2>4. \A s \in Streams : at'[s] # "watching" => fate'[s] = "live"
    BY <1>1 DEF IInv, StreamInv
  <2>5. ASSUME NEW s \in Streams, at'[s] = "watching", fate'[s] = "live"
        PROVE  fut'[Of[s]] # "none"
    <3>1. Of[s] # r
      BY <1>1, <2>5 DEF IInv, Types, Contents
    <3>2. fut'[Of[s]] = fut[Of[s]] /\ fate[s] = "live" /\ at[s] = "watching"
      BY <1>1, <2>5, <3>1 DEF IInv, Types
    <3> QED BY <3>2 DEF IInv, StreamInv
  <2>6. \A s \in punctual : at'[s] # "closed"
    BY <1>1 DEF IInv, StreamInv
  <2> QED BY <1>1, <2>3, <2>4, <2>5, <2>6 DEF StreamInv
<1> QED BY <1>2, <1>4, <1>5, <1>6 DEF IInv

LEMMA OpenKeeps ==
  ASSUME IInv, NEW s \in Streams, Open(s)
  PROVE  IInv'
<1> USE WebchatAssumption
<1>1. /\ at[s] = "closed" /\ phase[Of[s]] # "new" /\ Of[s] \in Requests
      /\ fut' = [fut EXCEPT ![Of[s]] = IF fut[Of[s]] = "none" THEN "pending" ELSE fut[Of[s]]]
      /\ at' = [at EXCEPT ![s] = "watching"]
      /\ punctual' = IF Of[s] \in late THEN punctual ELSE punctual \cup {s}
      /\ UNCHANGED <<phase, outbound, fate, answered, late>>
  BY DEF Open, Opens, Set, message
<1>2. fut[Of[s]] = "none" => Of[s] \in late
  BY <1>1 DEF IInv, Types, FutureInv, Contents
<1>3. Types'
  BY <1>1 DEF IInv, Types
<1>4. PostedInv'
  BY <1>1 DEF IInv, Types, PostedInv
<1>5. FutureInv'
  BY <1>1, <1>2 DEF IInv, Types, FutureInv
<1>6. s \notin punctual /\ fate[s] = "live"
  BY <1>1 DEF IInv, StreamInv
<1>7. StreamInv'
  BY <1>1, <1>6 DEF IInv, Types, StreamInv
<1> QED BY <1>3, <1>4, <1>5, <1>7 DEF IInv

(* A stream goes on, or ends.                                              *)
LEMMA StreamKeeps ==
  ASSUME IInv, NEW s \in Streams, Take(s) \/ Answer(s) \/ TimeOut(s) \/ Leave(s)
  PROVE  IInv'
<1> USE WebchatAssumption
<1>1. CASE Take(s)
  <2>1. UNCHANGED <<phase, outbound, fut, at, fate, answered, late, punctual>>
    BY <1>1 DEF Take, message, stream
  <2> QED BY <2>1 DEF IInv, Types, PostedInv, FutureInv, StreamInv
<1>2. ASSUME NEW how \in Contents \cup {"broken", "timedout", "gone"}, Ends(s, how)
      PROVE  IInv'
  <2>1. /\ at' = [at EXCEPT ![s] = how] /\ fate' = [fate EXCEPT ![s] = "live"]
        /\ UNCHANGED <<phase, outbound, fut, answered, late, punctual>>
        /\ how # "watching" /\ how # "closed"
    BY <1>2 DEF Ends, Set, message, Contents
  <2>2. Types'
    BY <2>1 DEF IInv, Types
  <2>3. PostedInv' /\ FutureInv'
    BY <2>1 DEF IInv, Types, PostedInv, FutureInv
  <2>4. StreamInv'
    BY <2>1 DEF IInv, Types, StreamInv
  <2> QED BY <2>2, <2>3, <2>4 DEF IInv
<1>3. CASE Answer(s)
  <2>1. Outcome(s) \in Contents \cup {"none", "cancelled"} /\ Outcome(s) # "none"
    <3>1. /\ Outcome(s) # "pending" /\ at[s] = "watching"
          /\ fate[s] \in Contents \cup {"live", "cancelled"}
          /\ fut[Of[s]] \in Contents \cup {"none", "pending"}
      BY <1>3 DEF Answer, IInv, Types
    <3>2. fate[s] = "live" => fut[Of[s]] # "none"
      BY <3>1 DEF IInv, StreamInv
    <3> QED BY <3>1, <3>2 DEF Outcome, Contents
  <2> QED BY <1>2, <1>3, <2>1 DEF Answer
<1> QED BY <1>1, <1>2, <1>3 DEF TimeOut, Leave

LEMMA NextIInv == IInv /\ [Next]_vars => IInv'
<1> SUFFICES ASSUME IInv, [Next]_vars PROVE IInv'
  OBVIOUS
<1>1. CASE UNCHANGED vars
  <2>1. UNCHANGED <<phase, outbound, fut, at, fate, answered, late, punctual>>
    BY <1>1 DEF vars, message, registry, stream, ghosts
  <2> QED BY <2>1 DEF IInv, Types, PostedInv, FutureInv, StreamInv
<1> QED BY <1>1, MessagesMove, MovesKeeps, PostKeeps, AnswersKeep, CleanUpKeeps, OpenKeeps,
           StreamKeeps DEF Next

(* The action of EndsWithTheAnswer.                                        *)
EndsRight(s) ==
  at[s] = "watching" /\ at'[s] \notin {"watching", "gone"} =>
    IF answered[Of[s]] = "none" THEN at'[s] \in {"broken", "timedout"}
    ELSE at'[s] = answered[Of[s]]

(* What a stream holds in time is the first answer or none.                *)
LEMMA OutcomeIs ==
  ASSUME IInv, NEW s \in punctual, at[s] = "watching"
  PROVE  IF answered[Of[s]] = "none" THEN Outcome(s) \in {"pending", "cancelled"}
         ELSE Outcome(s) = answered[Of[s]] /\ Outcome(s) \in Contents
<1>1. /\ s \in Streams /\ Of[s] \in Requests /\ phase[Of[s]] # "new"
      /\ answered[Of[s]] \in Contents \cup {"none"}
  BY WebchatAssumption DEF IInv, Types, PostedInv
<1>2. CASE fate[s] = "live"
  <2>1. Of[s] \notin late
    BY <1>2 DEF IInv, StreamInv
  <2> QED BY <1>1, <1>2, <2>1 DEF IInv, FutureInv, Outcome
<1>3. CASE fate[s] # "live"
  BY <1>1, <1>3 DEF IInv, StreamInv, Outcome
<1> QED BY <1>2, <1>3

LEMMA StepsEndRight ==
  ASSUME IInv, [Next]_vars, NEW s \in punctual
  PROVE  EndsRight(s)
<1>0. /\ at \in [Streams -> Contents \cup {"closed", "watching", "broken", "timedout", "gone"}]
      /\ s \in Streams
  BY DEF IInv, Types
<1>1. CASE at' = at
  BY <1>1 DEF EndsRight
<1>2. ASSUME NEW t \in Streams, Open(t) PROVE EndsRight(s)
  <2>1. at' = [at EXCEPT ![t] = "watching"]
    BY <1>2 DEF Open, Opens, Set
  <2> QED BY <1>0, <2>1 DEF EndsRight
<1>3. ASSUME NEW t \in Streams, Answer(t) PROVE EndsRight(s)
  <2>1. /\ at' = [at EXCEPT ![t] = IF Outcome(t) = "cancelled" THEN "broken" ELSE Outcome(t)]
        /\ Outcome(t) # "pending"
    BY <1>3 DEF Answer, Ends, Set
  <2>2. CASE t = s /\ at[s] = "watching"
    BY <1>0, <2>1, <2>2, OutcomeIs DEF EndsRight, Contents
  <2>3. CASE t # s
    BY <1>0, <2>1, <2>3 DEF EndsRight
  <2> QED BY <2>2, <2>3 DEF EndsRight
<1>4. ASSUME NEW t \in Streams, TimeOut(t) PROVE EndsRight(s)
  <2>1. at' = [at EXCEPT ![t] = "timedout"] /\ Outcome(t) = "pending"
    BY <1>4 DEF TimeOut, Ends, Set
  <2>2. CASE t = s /\ at[s] = "watching"
    BY <1>0, <2>1, <2>2, OutcomeIs DEF EndsRight, Contents
  <2>3. CASE t # s
    BY <1>0, <2>1, <2>3 DEF EndsRight
  <2> QED BY <2>2, <2>3 DEF EndsRight
<1>5. ASSUME NEW t \in Streams, Leave(t) PROVE EndsRight(s)
  <2>1. at' = [at EXCEPT ![t] = "gone"]
    BY <1>5 DEF Leave, Ends, Set
  <2> QED BY <1>0, <2>1 DEF EndsRight
<1>6. ASSUME UNCHANGED stream \/ UNCHANGED at PROVE EndsRight(s)
  BY <1>1, <1>6 DEF stream
<1>7. CASE \E r \in Requests : \/ Post(r) \/ Bounce(r) \/ Consume(r) \/ Enqueue(r) \/ TextJoins(r)
                               \/ Flush(r) \/ Reply(r) \/ TurnFails(r) \/ CleanUp(r)
                               \/ \E asks \in BOOLEAN : Event(r, asks)
  <2>1. UNCHANGED stream \/ UNCHANGED at
    BY <1>7 DEF Post, Bounce, Consume, Enqueue, TextJoins, Flush, Reply, TurnFails, CleanUp,
       Evict, Event, MessageOnly
  <2> QED BY <1>6, <2>1
<1>8. CASE Dispatch \/ AskEnds \/ (\E t \in Streams : Take(t)) \/ UNCHANGED vars
  <2>1. UNCHANGED stream \/ UNCHANGED at
    BY <1>8 DEF Dispatch, AskEnds, Take, MessageOnly, vars
  <2> QED BY <1>6, <2>1
<1> QED BY <1>2, <1>3, <1>4, <1>5, <1>7, <1>8 DEF Next

(* A stream opened before the request's clean-up ends with the first       *)
(* answer the request got, and without one only if there was none.         *)
THEOREM StreamsEndWithTheAnswer == Spec => EndsWithTheAnswer
<1>1. IInv /\ [Next]_vars =>
        [\A s \in punctual :
            at[s] = "watching" /\ at'[s] \notin {"watching", "gone"} =>
              IF answered[Of[s]] = "none" THEN at'[s] \in {"broken", "timedout"}
              ELSE at'[s] = answered[Of[s]]]_vars
  BY StepsEndRight DEF EndsRight
<1> QED BY InitIInv, NextIInv, <1>1, PTL DEF Spec, EndsWithTheAnswer

-----------------------------------------------------------------------------
(* Queues and events                                                       *)

Lefts == [Requests -> [Queues -> SUBSET Events]]

QueueTypes ==
  /\ asking \in Requests \cup {NoRequest}
  /\ queue \in [Requests -> Queues \cup {NoQueue}]
  /\ \A r \in Requests : queue[r] # NoQueue => fut[r] # "none"
  /\ left \in Lefts
  /\ holds \in [Streams -> Queues \cup {NoQueue}]
  /\ \A s \in Streams : at[s] = "watching" <=> holds[s] # NoQueue
  /\ unseen \in [Requests -> SUBSET Events]

(* A request that is answered has no more events.                          *)
OverInv ==
  /\ \A i \in 1..Len(outbound) : phase[outbound[i].req] = "over"
  /\ \A r \in Requests : answered[r] # "none" \/ fut[r] \in Contents => phase[r] = "over"

(* The only stream of a request.                                           *)
Alone(s) == at[s] = "watching" /\ \A t \in Streams \ {s} : Of[t] = Of[s] => at[t] = "closed"

(* What is unseen waits in the queue that the POST made: in the registry   *)
(* until a stream opens, and with the only stream until it ends, unless    *)
(* the clean-up came before the answer.                                    *)
EventInv ==
  /\ \A r \in Requests : phase[r] = "new" => unseen[r] = {} /\ queue[r] = NoQueue
  /\ \A r \in Requests \ late :
       phase[r] # "new" /\ (\A s \in Streams : Of[s] = r => at[s] = "closed") =>
         queue[r] # NoQueue /\ unseen[r] \subseteq left[r][queue[r]]
  /\ \A s \in punctual : Alone(s) =>
       /\ fate[s] = "live" => queue[Of[s]] = holds[s]
       /\ fate[s] # "cancelled" => unseen[Of[s]] \subseteq left[Of[s]][holds[s]]

QInv == QueueTypes /\ OverInv /\ EventInv

LEMMA TypesAre == TypeOK <=> Types /\ QueueTypes
BY DEF TypeOK, Types, QueueTypes, Lefts, Phases, Messages

LEMMA NoQueueIsNone == NoQueue \notin Queues
BY DEF NoQueue, Queues

(* There is always a queue object that no stream of the request holds.     *)
LEMMA FreshIs ==
  ASSUME NEW r \in Requests
  PROVE  Fresh(r) \in Queues
<1> DEFINE Some == {t \in Streams : Of[t] = r}
           Held == HeldBy(r, Streams)
           held == [s \in Some |-> holds[s]]
<1>1. IsFiniteSet(Streams) /\ Cardinality(Streams) \in Nat
  BY WebchatAssumption, FS_CardinalityType
<1>2. IsFiniteSet(Some) /\ Cardinality(Some) <= Cardinality(Streams) /\ Cardinality(Some) \in Nat
  <2>1. Some \in SUBSET Streams
    OBVIOUS
  <2> QED BY <1>1, <2>1, FS_Subset, FS_CardinalityType
<1>3. held \in Surjection(Some, Held)
  BY DEF Surjection, HeldBy
<1> HIDE DEF Some, Held, held
<1>4. IsFiniteSet(Held) /\ Cardinality(Held) <= Cardinality(Some) /\ Cardinality(Held) \in Nat
  BY <1>2, <1>3, FS_Surjection, FS_CardinalityType
<1>5. Cardinality(Queues) = 1 + Cardinality(Streams)
  BY <1>1, FS_Interval DEF Queues
<1>6. ~(Queues \subseteq Held)
  <2> SUFFICES ASSUME Queues \subseteq Held PROVE FALSE
    OBVIOUS
  <2>1. Cardinality(Queues) <= Cardinality(Held)
    BY <1>4, FS_Subset
  <2> QED BY <1>1, <1>2, <1>4, <1>5, <2>1
<1>7. \E q \in Queues : q \notin HeldBy(r, Streams)
  BY <1>6 DEF Held
<1> QED BY <1>7 DEF Fresh

LEMMA RegisterIs ==
  ASSUME QueueTypes, NEW r \in Requests, RegisterQueue(r)
  PROVE  /\ queue' \in [Requests -> Queues \cup {NoQueue}]
         /\ queue'[r] \in Queues /\ queue'[r] # NoQueue
         /\ queue[r] # NoQueue => queue' = queue
         /\ \A p \in Requests \ {r} : queue'[p] = queue[p]
<1>1. queue' = [queue EXCEPT ![r] = IF queue[r] = NoQueue THEN Fresh(r) ELSE queue[r]]
  BY DEF RegisterQueue, Set
<1> QED BY <1>1, FreshIs, NoQueueIsNone DEF QueueTypes

LEMMA KeptIs ==
  ASSUME left \in Lefts, NEW r \in Requests, NEW others
  PROVE  /\ KeptBy(r, others) \in Lefts
         /\ \A p \in Requests, q \in Queues :
              KeptBy(r, others)[p][q] =
                IF p = r /\ q \notin HeldBy(r, others) THEN {} ELSE left[p][q]
BY DEF KeptBy, Lefts

LEMMA InitQInv == Init => QInv
<1> SUFFICES ASSUME Init PROVE QInv
  OBVIOUS
<1>1. QueueTypes
  BY DEF Init, QueueTypes, Lefts
<1>2. OverInv /\ EventInv
  BY DEF Init, OverInv, EventInv, Contents
<1> QED BY <1>1, <1>2 DEF QInv

(* Steps that leave the queues alone.                                      *)
LEMMA QuietKeeps ==
  ASSUME EventInv, UNCHANGED <<queue, left, at, fate, holds, unseen, late, punctual>>,
         \A r \in Requests : phase'[r] = "new" <=> phase[r] = "new"
  PROVE  EventInv'
BY DEF EventInv, Alone

LEMMA MessagesKeepQ ==
  ASSUME IInv, QInv,
         \/ AskEnds
         \/ \E r \in Requests : \/ Bounce(r) \/ Enqueue(r) \/ TextJoins(r) \/ Flush(r)
                                \/ Reply(r) \/ TurnFails(r)
  PROVE  QInv'
<1>0. /\ phase \in [Requests -> Phases] /\ outbound \in Seq(Messages)
      /\ \A i \in 1..Len(outbound) : phase[outbound[i].req] = "over"
      /\ \A i \in 1..Len(outbound) : outbound[i].req \in Requests
  BY OutboundIs DEF IInv, Types, QInv, OverInv
<1>1. UNCHANGED <<fut, queue, left, at, fate, holds, unseen, answered, late, punctual>>
  BY DEF AskEnds, Bounce, Enqueue, TextJoins, Flush, Reply, TurnFails, MessageOnly,
     registry, stream, ghosts
<1>2. /\ \A r \in Requests : phase'[r] = "new" <=> phase[r] = "new"
      /\ \A r \in Requests : phase[r] = "over" => phase'[r] = "over"
  BY <1>0 DEF AskEnds, Bounce, Enqueue, TextJoins, Flush, Reply, TurnFails,
     MessageOnly, Set, Phases
<1>3. EventInv'
  BY <1>1, <1>2, QuietKeeps DEF QInv
<1>4. asking' \in Requests \cup {NoRequest}
  BY DEF AskEnds, Bounce, Enqueue, TextJoins, Flush, Reply, TurnFails, QInv, QueueTypes
<1>5. QueueTypes'
  BY <1>1, <1>4 DEF QInv, QueueTypes
<1>6. \A i \in 1..Len(outbound') : phase'[outbound'[i].req] = "over"
  <2>1. CASE outbound' = outbound
    BY <1>0, <1>2, <2>1
  <2>2. ASSUME NEW r \in Requests, Bounce(r) \/ Reply(r) \/ TurnFails(r)
        PROVE  \A i \in 1..Len(outbound') : phase'[outbound'[i].req] = "over"
    <3>1. \E contents \in Seq(Contents) : Publish(r, contents)
      <4>1. <<>> \in Seq(Contents) /\ <<"reply">> \in Seq(Contents)
            /\ <<"notice">> \in Seq(Contents) /\ <<"reply", "notice">> \in Seq(Contents)
        BY DEF Contents
      <4> QED BY <2>2, <4>1 DEF Bounce, Reply, TurnFails
    <3>2. phase'[r] = "over"
      BY <1>0, <2>2 DEF Bounce, Reply, TurnFails, Set
    <3> QED BY <1>0, <1>2, <3>1, <3>2, PublishIs
  <2> QED BY <2>1, <2>2 DEF AskEnds, Enqueue, TextJoins, Flush
<1>7. OverInv'
  BY <1>1, <1>2, <1>6 DEF QInv, OverInv
<1> QED BY <1>3, <1>5, <1>7 DEF QInv

LEMMA EventKeepsQ ==
  ASSUME IInv, QInv, NEW r \in Requests, NEW asks \in BOOLEAN, Event(r, asks)
  PROVE  QInv'
<1> USE WebchatAssumption
<1>0. Types /\ QueueTypes /\ OverInv /\ EventInv
  BY DEF IInv, QInv
<1>1. PICK e \in Events \ unseen[r] :
        /\ unseen' = Set(unseen, r, unseen[r] \cup {e})
        /\ left' = IF queue[r] = NoQueue THEN left
                   ELSE [left EXCEPT ![r][queue[r]] = @ \cup {e}]
  BY DEF Event
<1>2. /\ phase[r] = "turn" /\ asking' = (IF asks THEN r ELSE asking)
      /\ UNCHANGED <<phase, outbound, fut, queue, at, fate, holds, answered, late, punctual>>
  BY DEF Event, stream
<1>3. /\ unseen' \in [Requests -> SUBSET Events] /\ unseen'[r] = unseen[r] \cup {e}
      /\ \A p \in Requests \ {r} : unseen'[p] = unseen[p]
  BY <1>0, <1>1 DEF QueueTypes, Set
<1>4. /\ left' \in Lefts
      /\ \A p \in Requests \ {r}, q \in Queues : left'[p][q] = left[p][q]
      /\ \A q \in Queues : left[r][q] \subseteq left'[r][q]
      /\ queue[r] # NoQueue => e \in left'[r][queue[r]]
  <2>1. CASE queue[r] = NoQueue
    BY <1>0, <1>1, <2>1 DEF QueueTypes
  <2>2. CASE queue[r] # NoQueue
    <3>1. queue[r] \in Queues /\ left \in Lefts
      BY <1>0, <2>2 DEF QueueTypes
    <3>2. PICK v \in SUBSET Events : v = left[r][queue[r]] \cup {e}
      BY <3>1 DEF Lefts
    <3>3. left' = [left EXCEPT ![r][queue[r]] = v]
      BY <1>1, <2>2, <3>2
    <3>4. /\ left' \in Lefts
          /\ \A p \in Requests, k \in Queues :
               left'[p][k] = IF p = r /\ k = queue[r] THEN v ELSE left[p][k]
      BY <3>1, <3>3 DEF Lefts
    <3> QED BY <3>1, <3>2, <3>4
  <2> QED BY <2>1, <2>2
<1>5. QueueTypes'
  BY <1>0, <1>2, <1>3, <1>4 DEF QueueTypes
<1>6. OverInv'
  BY <1>0, <1>2 DEF OverInv
<1>7. EventInv'
  <2>1. \A p \in Requests : phase'[p] = "new" => unseen'[p] = {} /\ queue'[p] = NoQueue
    BY <1>0, <1>2, <1>3 DEF EventInv
  <2>2. ASSUME NEW p \in Requests \ late, phase[p] # "new",
               \A s \in Streams : Of[s] = p => at[s] = "closed"
        PROVE  queue[p] # NoQueue /\ unseen'[p] \subseteq left'[p][queue[p]]
    <3>1. queue[p] \in Queues /\ unseen[p] \subseteq left[p][queue[p]] /\ queue[p] # NoQueue
      BY <1>0, <2>2 DEF EventInv, QueueTypes
    <3> QED BY <1>3, <1>4, <3>1
  <2>3. ASSUME NEW s \in punctual, Alone(s), fate[s] = "live"
        PROVE  queue[Of[s]] = holds[s]
    BY <1>0, <2>3 DEF EventInv
  <2>4. ASSUME NEW s \in punctual, Alone(s), fate[s] # "cancelled"
        PROVE  unseen'[Of[s]] \subseteq left'[Of[s]][holds[s]]
    <3>1. /\ s \in Streams /\ Of[s] \in Requests /\ at[s] = "watching" /\ holds[s] \in Queues
          /\ unseen[Of[s]] \subseteq left[Of[s]][holds[s]]
      BY <1>0, <2>4 DEF EventInv, Alone, Types, QueueTypes
    <3>2. CASE Of[s] # r
      BY <1>3, <1>4, <3>1, <3>2
    <3>3. CASE Of[s] = r
      <4>1. fate[s] = "live"
        BY <1>0, <1>2, <2>4, <3>1, <3>3 DEF IInv, StreamInv, OverInv
      <4>2. queue[r] = holds[s] /\ queue[r] # NoQueue
        BY <2>3, <2>4, <3>1, <3>3, <4>1, NoQueueIsNone
      <4> QED BY <1>3, <1>4, <3>1, <3>3, <4>2
    <3> QED BY <3>2, <3>3
  <2>5. \A s \in Streams : Alone(s)' <=> Alone(s)
    BY <1>2 DEF Alone
  <2>6. punctual \subseteq Streams
    BY <1>0 DEF Types
  <2> QED BY <1>2, <2>1, <2>2, <2>3, <2>4, <2>5, <2>6 DEF EventInv
<1> QED BY <1>5, <1>6, <1>7 DEF QInv

LEMMA PostKeepsQ ==
  ASSUME IInv, QInv, NEW r \in Requests, Post(r)
  PROVE  QInv'
<1> USE WebchatAssumption
<1>0. Types /\ PostedInv /\ QueueTypes /\ OverInv /\ EventInv
  BY DEF IInv, QInv
<1>1. /\ phase[r] = "new" /\ phase' = [phase EXCEPT ![r] = "bus"]
      /\ fut' = [fut EXCEPT ![r] = "pending"] /\ RegisterQueue(r)
      /\ UNCHANGED <<asking, outbound, left, at, fate, holds, unseen, answered, late, punctual>>
  BY DEF Post, QueueOfPost, Set, stream, ghosts
<1>2. /\ queue' \in [Requests -> Queues \cup {NoQueue}] /\ queue'[r] \in Queues
      /\ queue'[r] # NoQueue /\ \A p \in Requests \ {r} : queue'[p] = queue[p]
  BY <1>0, <1>1, RegisterIs
<1>3. /\ phase'[r] = "bus" /\ fut'[r] = "pending"
      /\ \A p \in Requests \ {r} : phase'[p] = phase[p] /\ fut'[p] = fut[p]
  BY <1>0, <1>1 DEF Types
<1>4. QueueTypes'
  BY <1>0, <1>1, <1>2, <1>3 DEF QueueTypes
<1>5. OverInv'
  <2>1. \A i \in 1..Len(outbound) : outbound[i].req \in Requests
    BY <1>0, OutboundIs DEF Types
  <2>2. answered[r] = "none"
    BY <1>0, <1>1 DEF PostedInv
  <2> QED BY <1>0, <1>1, <1>3, <2>1, <2>2 DEF OverInv, Contents
<1>6. unseen[r] = {} /\ \A s \in Streams : at[s] = "watching" => Of[s] # r
  BY <1>0, <1>1 DEF EventInv, PostedInv
<1>7. \A s \in punctual : Alone(s)' => Alone(s) /\ Of[s] # r /\ Of[s] \in Requests
  BY <1>0, <1>1, <1>6 DEF Alone, Types
<1>8. EventInv'
  BY <1>0, <1>1, <1>2, <1>3, <1>6, <1>7 DEF EventInv
<1> QED BY <1>4, <1>5, <1>8 DEF QInv

LEMMA AnswersKeepQ ==
  ASSUME IInv, QInv, Dispatch \/ \E r \in Requests : Consume(r)
  PROVE  QInv'
<1>0. Types /\ QueueTypes /\ OverInv /\ EventInv
  BY DEF IInv, QInv
<1>1. ASSUME NEW r \in Requests, NEW c \in Contents, Resolve(r, c), phase'[r] = "over",
             \A p \in Requests : phase[p] = "over" => phase'[p] = "over",
             \A p \in Requests : phase'[p] = "new" <=> phase[p] = "new",
             \A i \in 1..Len(outbound') : phase'[outbound'[i].req] = "over",
             asking' \in Requests \cup {NoRequest},
             UNCHANGED <<queue, left, at, holds, unseen, late, punctual>>
      PROVE  QInv'
  <2>1. /\ fut' = IF fut[r] = "pending" THEN [fut EXCEPT ![r] = c] ELSE fut
        /\ answered' = answered \/ answered' = [answered EXCEPT ![r] = c]
        /\ fate' = fate /\ c # "none"
    BY <1>1 DEF Resolve, Set, Contents
  <2>2. QueueTypes'
    BY <1>0, <1>1, <2>1 DEF Types, QueueTypes
  <2>3. OverInv'
    BY <1>0, <1>1, <2>1 DEF Types, OverInv
  <2>4. EventInv'
    BY <1>0, <1>1, <2>1, QuietKeeps
  <2> QED BY <2>2, <2>3, <2>4 DEF QInv
<1>2. CASE Dispatch
  <2>1. /\ outbound # <<>> /\ outbound' = Tail(outbound)
        /\ Resolve(Head(outbound).req, Head(outbound).content)
        /\ UNCHANGED <<phase, asking, queue, left, at, holds, unseen, late, punctual>>
    BY <1>2 DEF Dispatch, message
  <2>2. Head(outbound) \in Messages /\ Head(outbound) = outbound[1] /\ 1 \in 1..Len(outbound)
    BY <1>0, <2>1 DEF Types
  <2>3. \A i \in 1..Len(outbound') : phase[outbound'[i].req] = "over"
    BY <1>0, <2>1 DEF Types, OverInv
  <2>4. Head(outbound).req \in Requests /\ Head(outbound).content \in Contents
        /\ phase[Head(outbound).req] = "over"
    BY <1>0, <2>2 DEF Messages, OverInv
  <2> QED BY <1>0, <1>1, <2>1, <2>3, <2>4 DEF QueueTypes
<1>3. ASSUME NEW r \in Requests, Consume(r)
      PROVE  QInv'
  <2>1. /\ phase[r] = "bus" /\ phase' = [phase EXCEPT ![r] = "over"]
        /\ Resolve(r, "notice") /\ asking' \in {NoRequest, asking}
        /\ UNCHANGED <<outbound, queue, left, at, holds, unseen, late, punctual>>
    BY <1>3 DEF Consume, Set
  <2>2. /\ phase'[r] = "over" /\ \A p \in Requests \ {r} : phase'[p] = phase[p]
        /\ \A i \in 1..Len(outbound) : outbound[i].req \in Requests
    BY <1>0, <2>1, OutboundIs DEF Types
  <2> QED BY <1>0, <1>1, <2>1, <2>2 DEF QueueTypes, OverInv, Contents
<1> QED BY <1>2, <1>3

LEMMA CleanUpKeepsQ ==
  ASSUME IInv, QInv, NEW r \in Requests, CleanUp(r)
  PROVE  QInv'
<1> USE WebchatAssumption
<1>0. Types /\ QueueTypes /\ OverInv /\ EventInv
  BY DEF IInv, QInv
<1>1. /\ fut' = [fut EXCEPT ![r] = "none"]
      /\ fate' = [s \in Streams |->
                    IF at[s] = "watching" /\ Of[s] = r /\ fate[s] = "live"
                    THEN IF fut[r] = "pending" THEN "cancelled" ELSE fut[r]
                    ELSE fate[s]]
      /\ late' = late \cup {r} /\ fut[r] # "none"
      /\ queue' = [queue EXCEPT ![r] = NoQueue] /\ left' = KeptBy(r, Streams)
      /\ UNCHANGED <<phase, asking, outbound, at, holds, unseen, answered, punctual>>
  BY DEF CleanUp, Evict, Set, message
<1>2. /\ left' \in Lefts
      /\ \A p \in Requests, q \in Queues :
           left'[p][q] = IF p = r /\ q \notin HeldBy(r, Streams) THEN {} ELSE left[p][q]
  BY <1>0, <1>1, KeptIs DEF QueueTypes
<1>3. QueueTypes'
  BY <1>0, <1>1, <1>2 DEF Types, QueueTypes
<1>4. OverInv'
  BY <1>0, <1>1 DEF Types, OverInv, Contents
<1>5. ASSUME NEW p \in Requests, phase[p] = "new" PROVE unseen[p] = {} /\ queue'[p] = NoQueue
  BY <1>0, <1>1, <1>5 DEF EventInv, QueueTypes
<1>6. ASSUME NEW p \in Requests \ late', phase[p] # "new",
             \A s \in Streams : Of[s] = p => at[s] = "closed"
      PROVE  queue'[p] # NoQueue /\ unseen[p] \subseteq left'[p][queue'[p]]
  <2>1. p # r /\ p \notin late /\ queue'[p] = queue[p]
    BY <1>0, <1>1, <1>6 DEF QueueTypes
  <2>2. queue[p] # NoQueue /\ queue[p] \in Queues /\ unseen[p] \subseteq left[p][queue[p]]
    BY <1>0, <1>6, <2>1 DEF EventInv, QueueTypes
  <2> QED BY <1>2, <2>1, <2>2
<1>7. ASSUME NEW s \in punctual, Alone(s)
      PROVE  /\ fate'[s] = "live" => queue'[Of[s]] = holds[s]
             /\ fate'[s] # "cancelled" => unseen[Of[s]] \subseteq left'[Of[s]][holds[s]]
  <2>1. s \in Streams /\ Of[s] \in Requests /\ at[s] = "watching" /\ holds[s] \in Queues
    BY <1>0, <1>7 DEF Types, QueueTypes, Alone
  <2>2. /\ fate[s] = "live" => queue[Of[s]] = holds[s]
        /\ fate[s] # "cancelled" => unseen[Of[s]] \subseteq left[Of[s]][holds[s]]
    BY <1>0, <1>7 DEF EventInv
  <2>3. left'[Of[s]][holds[s]] = left[Of[s]][holds[s]]
    <3>1. Of[s] = r => holds[s] \in HeldBy(r, Streams)
      BY <2>1 DEF HeldBy
    <3> QED BY <1>2, <2>1, <3>1
  <2>4. fate'[s] = "live" => fate[s] = "live" /\ Of[s] # r
    BY <1>0, <1>1, <2>1 DEF Types, Contents
  <2>5. fate'[s] # "cancelled" => fate[s] # "cancelled"
    BY <1>0, <1>1, <2>1
  <2> QED BY <1>0, <1>1, <2>1, <2>2, <2>3, <2>4, <2>5 DEF QueueTypes
<1>8. \A s \in Streams : Alone(s)' <=> Alone(s)
  BY <1>1 DEF Alone
<1>9. punctual \subseteq Streams
  BY <1>0 DEF Types
<1>10. EventInv'
  BY <1>1, <1>5, <1>6, <1>7, <1>8, <1>9 DEF EventInv
<1> QED BY <1>3, <1>4, <1>10 DEF QInv

LEMMA OpenKeepsQ ==
  ASSUME IInv, QInv, NEW s \in Streams, Open(s)
  PROVE  QInv'
<1> USE WebchatAssumption
<1>0. Types /\ StreamInv /\ QueueTypes /\ OverInv /\ EventInv
  BY DEF IInv, QInv
<1>1. /\ at[s] = "closed" /\ phase[Of[s]] # "new" /\ Of[s] \in Requests
      /\ RegisterQueue(Of[s]) /\ holds' = [holds EXCEPT ![s] = queue'[Of[s]]]
      /\ fut' = [fut EXCEPT ![Of[s]] = IF fut[Of[s]] = "none" THEN "pending" ELSE fut[Of[s]]]
      /\ at' = [at EXCEPT ![s] = "watching"]
      /\ punctual' = IF Of[s] \in late THEN punctual ELSE punctual \cup {s}
      /\ UNCHANGED <<phase, asking, outbound, left, fate, unseen, answered, late>>
  BY DEF Open, Opens, Set, message
<1>2. /\ queue' \in [Requests -> Queues \cup {NoQueue}] /\ queue'[Of[s]] \in Queues
      /\ queue'[Of[s]] # NoQueue /\ (queue[Of[s]] # NoQueue => queue' = queue)
      /\ \A p \in Requests \ {Of[s]} : queue'[p] = queue[p]
  BY <1>0, <1>1, RegisterIs
<1>3. /\ at'[s] = "watching" /\ holds'[s] = queue'[Of[s]]
      /\ \A t \in Streams \ {s} : at'[t] = at[t] /\ holds'[t] = holds[t]
      /\ fut'[Of[s]] # "none" /\ (fut'[Of[s]] \in Contents => fut[Of[s]] \in Contents)
      /\ \A p \in Requests \ {Of[s]} : fut'[p] = fut[p]
  BY <1>0, <1>1 DEF Types, QueueTypes, Contents
<1>4. QueueTypes'
  BY <1>0, <1>1, <1>2, <1>3 DEF QueueTypes
<1>5. OverInv'
  BY <1>0, <1>1, <1>3 DEF OverInv
<1>6. EventInv'
  <2>1. \A p \in Requests : phase[p] = "new" => unseen[p] = {} /\ queue'[p] = NoQueue
    BY <1>0, <1>1, <1>2 DEF EventInv
  <2>2. ASSUME NEW p \in Requests \ late, phase[p] # "new",
               \A t \in Streams : Of[t] = p => at'[t] = "closed"
        PROVE  queue'[p] # NoQueue /\ unseen[p] \subseteq left[p][queue'[p]]
    <3>1. p # Of[s]
      BY <1>3, <2>2
    <3>2. \A t \in Streams : Of[t] = p => at[t] = "closed"
      BY <1>3, <2>2, <3>1
    <3> QED BY <1>0, <1>2, <2>2, <3>1, <3>2 DEF EventInv
  <2>3. ASSUME NEW t \in punctual', Alone(t)'
        PROVE  /\ fate[t] = "live" => queue'[Of[t]] = holds'[t]
               /\ fate[t] # "cancelled" => unseen[Of[t]] \subseteq left[Of[t]][holds'[t]]
    <3>1. t \in Streams
      BY <1>0, <1>1 DEF Types
    <3>2. CASE t = s
      <4>1. Of[s] \notin late
        BY <1>0, <1>1, <3>2 DEF StreamInv
      <4>2. \A x \in Streams : Of[x] = Of[s] => at[x] = "closed"
        BY <1>1, <1>3, <2>3, <3>2 DEF Alone
      <4>3. queue[Of[s]] # NoQueue /\ unseen[Of[s]] \subseteq left[Of[s]][queue[Of[s]]]
        BY <1>0, <1>1, <4>1, <4>2 DEF EventInv
      <4> QED BY <1>2, <1>3, <3>2, <4>3
    <3>3. CASE t # s
      <4>1. Of[t] # Of[s] /\ Of[t] \in Requests
        BY <1>3, <2>3, <3>1, <3>3 DEF Alone
      <4>2. Alone(t) /\ t \in punctual
        BY <1>1, <1>3, <2>3, <3>1, <3>3, <4>1 DEF Alone
      <4>3. /\ fate[t] = "live" => queue[Of[t]] = holds[t]
            /\ fate[t] # "cancelled" => unseen[Of[t]] \subseteq left[Of[t]][holds[t]]
        BY <1>0, <4>2 DEF EventInv
      <4> QED BY <1>2, <1>3, <3>1, <3>3, <4>1, <4>3
    <3> QED BY <3>2, <3>3
  <2> QED BY <1>1, <2>1, <2>2, <2>3 DEF EventInv
<1> QED BY <1>4, <1>5, <1>6 DEF QInv

(* A stream takes what it holds of the events, and nothing of another      *)
(* request.                                                                *)
LEMMA TakeKeepsQ ==
  ASSUME IInv, QInv, NEW s \in Streams, Take(s)
  PROVE  QInv'
<1> USE WebchatAssumption
<1>0. Types /\ QueueTypes /\ OverInv /\ EventInv /\ Of[s] \in Requests
  BY DEF IInv, QInv
<1>1. PICK e \in left[Of[s]][holds[s]] :
        /\ unseen' = Set(unseen, Of[s], unseen[Of[s]] \ {e})
        /\ left' = [left EXCEPT ![Of[s]][holds[s]] = @ \ {e}]
  BY DEF Take
<1>2. /\ at[s] = "watching"
      /\ UNCHANGED <<phase, asking, outbound, fut, queue, at, fate, holds, answered, late, punctual>>
  BY DEF Take, message, stream
<1>3. holds[s] \in Queues
  BY <1>0, <1>2 DEF QueueTypes
<1>4. /\ unseen' \in [Requests -> SUBSET Events] /\ unseen'[Of[s]] = unseen[Of[s]] \ {e}
      /\ \A p \in Requests \ {Of[s]} : unseen'[p] = unseen[p]
  BY <1>0, <1>1 DEF QueueTypes, Set
<1>5. /\ left' \in Lefts
      /\ left'[Of[s]][holds[s]] = left[Of[s]][holds[s]] \ {e}
      /\ \A p \in Requests \ {Of[s]} : left'[p] = left[p]
  BY <1>0, <1>1, <1>3 DEF QueueTypes, Lefts
<1>6. QueueTypes'
  BY <1>0, <1>2, <1>4, <1>5 DEF QueueTypes
<1>7. OverInv'
  BY <1>0, <1>2 DEF OverInv
<1>8. EventInv'
  <2>1. \A p \in Requests : phase[p] = "new" => unseen'[p] = {} /\ queue[p] = NoQueue
    BY <1>0, <1>4 DEF EventInv
  <2>2. ASSUME NEW p \in Requests \ late, phase[p] # "new",
               \A t \in Streams : Of[t] = p => at[t] = "closed"
        PROVE  queue[p] # NoQueue /\ unseen'[p] \subseteq left'[p][queue[p]]
    <3>1. p # Of[s]
      BY <1>2, <2>2
    <3> QED BY <1>0, <1>4, <1>5, <2>2, <3>1 DEF EventInv
  <2>3. ASSUME NEW t \in punctual, Alone(t)
        PROVE  /\ fate[t] = "live" => queue[Of[t]] = holds[t]
               /\ fate[t] # "cancelled" => unseen'[Of[t]] \subseteq left'[Of[t]][holds[t]]
    <3>1. t \in Streams /\ Of[t] \in Requests
      BY <1>0 DEF Types
    <3>2. Of[t] = Of[s] => t = s
      BY <1>2, <2>3, <3>1 DEF Alone
    <3> QED BY <1>0, <1>4, <1>5, <2>3, <3>1, <3>2 DEF EventInv
  <2>4. \A t \in Streams : Alone(t)' <=> Alone(t)
    BY <1>2 DEF Alone
  <2> QED BY <1>0, <1>2, <2>1, <2>2, <2>3, <2>4 DEF EventInv, Types
<1> QED BY <1>6, <1>7, <1>8 DEF QInv

LEMMA EndsKeepsQ ==
  ASSUME IInv, QInv, NEW s \in Streams, Answer(s) \/ TimeOut(s) \/ Leave(s)
  PROVE  QInv'
<1> USE WebchatAssumption
<1>0. Types /\ PostedInv /\ QueueTypes /\ OverInv /\ EventInv /\ Of[s] \in Requests
      /\ at[s] = "watching" /\ phase[Of[s]] # "new" /\ holds[s] \in Queues
  BY DEF Answer, TimeOut, Leave, IInv, QInv, PostedInv, QueueTypes
<1>1. /\ queue' = [queue EXCEPT ![Of[s]] = NoQueue] /\ holds' = [holds EXCEPT ![s] = NoQueue]
      /\ fate' = [fate EXCEPT ![s] = "live"]
      /\ \A t \in Streams \ {s} : at'[t] = at[t]
      /\ UNCHANGED <<phase, asking, outbound, fut, answered, late, punctual>>
  BY <1>0 DEF Answer, TimeOut, Leave, Ends, Set, message, Types
<1>2. at'[s] \notin {"closed", "watching"}
  <2>1. CASE Answer(s)
    <3>1. at'[s] = IF Outcome(s) = "cancelled" THEN "broken" ELSE Outcome(s)
      BY <1>0, <2>1 DEF Answer, Ends, Set, Types
    <3>2. Outcome(s) \in Contents \cup {"none", "pending", "cancelled"}
      BY <1>0 DEF Outcome, Types
    <3> QED BY <3>1, <3>2 DEF Contents
  <2>2. CASE TimeOut(s) \/ Leave(s)
    BY <1>0, <2>2 DEF TimeOut, Leave, Ends, Set, Types
  <2> QED BY <2>1, <2>2
<1>3. /\ left' \in Lefts /\ unseen' \in [Requests -> SUBSET Events]
      /\ \A p \in Requests \ {Of[s]} :
           unseen'[p] = unseen[p] /\ \A q \in Queues : left'[p][q] = left[p][q]
  <2> DEFINE kept == KeptBy(Of[s], Streams \ {s})
  <2>1. /\ kept \in Lefts
        /\ \A p \in Requests \ {Of[s]}, q \in Queues : kept[p][q] = left[p][q]
    BY <1>0, KeptIs DEF QueueTypes
  <2> HIDE DEF kept
  <2>2. CASE Answer(s)
    <3>1. /\ unseen' = [unseen EXCEPT ![Of[s]] = unseen[Of[s]] \ left[Of[s]][holds[s]]]
          /\ left' = [kept EXCEPT ![Of[s]][holds[s]] = {}]
      BY <2>2 DEF Answer, Drain, Set, kept
    <3>2. left' \in Lefts /\ \A p \in Requests \ {Of[s]} : left'[p] = kept[p]
      BY <1>0, <2>1, <3>1 DEF Lefts
    <3> QED BY <1>0, <2>1, <3>1, <3>2 DEF QueueTypes
  <2>3. CASE TimeOut(s) \/ Leave(s)
    <3>1. UNCHANGED unseen /\ left' = kept
      BY <2>3 DEF TimeOut, Leave, Forget, kept
    <3> QED BY <1>0, <2>1, <3>1 DEF QueueTypes
  <2> QED BY <2>2, <2>3
<1>4. /\ queue'[Of[s]] = NoQueue /\ holds'[s] = NoQueue
      /\ \A p \in Requests \ {Of[s]} : queue'[p] = queue[p]
      /\ \A t \in Streams \ {s} : holds'[t] = holds[t] /\ fate'[t] = fate[t]
  BY <1>0, <1>1 DEF QueueTypes, Types
<1>5. QueueTypes'
  <2>1. /\ queue' \in [Requests -> Queues \cup {NoQueue}]
        /\ holds' \in [Streams -> Queues \cup {NoQueue}]
    BY <1>0, <1>1 DEF QueueTypes
  <2>2. \A r \in Requests : queue'[r] # NoQueue => fut[r] # "none"
    BY <1>0, <1>4 DEF QueueTypes
  <2>3. \A t \in Streams : at'[t] = "watching" <=> holds'[t] # NoQueue
    BY <1>0, <1>1, <1>2, <1>4 DEF QueueTypes
  <2> QED BY <1>0, <1>1, <1>3, <2>1, <2>2, <2>3 DEF QueueTypes
<1>6. OverInv'
  BY <1>0, <1>1 DEF OverInv
<1>7. EventInv'
  <2>1. \A p \in Requests : phase[p] = "new" => unseen'[p] = {} /\ queue'[p] = NoQueue
    BY <1>0, <1>3, <1>4 DEF EventInv
  <2>2. ASSUME NEW p \in Requests \ late, phase[p] # "new",
               \A t \in Streams : Of[t] = p => at'[t] = "closed"
        PROVE  queue'[p] # NoQueue /\ unseen'[p] \subseteq left'[p][queue'[p]]
    <3>1. p # Of[s]
      BY <1>2, <2>2
    <3>2. \A t \in Streams : Of[t] = p => at[t] = "closed"
      BY <1>1, <2>2, <3>1
    <3>3. queue[p] \in Queues /\ queue[p] # NoQueue /\ unseen[p] \subseteq left[p][queue[p]]
      BY <1>0, <2>2, <3>2 DEF EventInv, QueueTypes
    <3> QED BY <1>3, <1>4, <3>1, <3>3
  <2>3. ASSUME NEW t \in punctual, Alone(t)'
        PROVE  /\ fate'[t] = "live" => queue'[Of[t]] = holds'[t]
               /\ fate'[t] # "cancelled" => unseen'[Of[t]] \subseteq left'[Of[t]][holds'[t]]
    <3>1. t \in Streams /\ t # s /\ Of[t] # Of[s] /\ Of[t] \in Requests
      BY <1>0, <1>2, <2>3 DEF Alone, Types
    <3>2. Alone(t)
      BY <1>1, <2>3, <3>1 DEF Alone
    <3>3. /\ fate[t] = "live" => queue[Of[t]] = holds[t]
          /\ fate[t] # "cancelled" => unseen[Of[t]] \subseteq left[Of[t]][holds[t]]
          /\ holds[t] \in Queues
      BY <1>0, <3>1, <3>2 DEF EventInv, QueueTypes, Alone
    <3> QED BY <1>3, <1>4, <3>1, <3>3
  <2> QED BY <1>1, <2>1, <2>2, <2>3 DEF EventInv
<1> QED BY <1>5, <1>6, <1>7 DEF QInv

LEMMA NextQInv == IInv /\ QInv /\ [Next]_vars => QInv'
<1> SUFFICES ASSUME IInv, QInv, [Next]_vars PROVE QInv'
  OBVIOUS
<1>1. CASE UNCHANGED vars
  <2>1. UNCHANGED <<phase, asking, outbound, fut, queue, left, at, fate, holds, unseen,
                    answered, late, punctual>>
    BY <1>1 DEF vars, message, registry, stream, ghosts
  <2> QED BY <2>1 DEF QInv, QueueTypes, OverInv, EventInv, Alone
<1> QED BY <1>1, MessagesKeepQ, EventKeepsQ, PostKeepsQ, AnswersKeepQ, CleanUpKeepsQ, OpenKeepsQ,
           TakeKeepsQ, EndsKeepsQ DEF Next

LEMMA Invariants == Spec => [](IInv /\ QInv)
<1>1. Init => IInv /\ QInv
  BY InitIInv, InitQInv
<1>2. IInv /\ QInv /\ [Next]_vars => (IInv /\ QInv)'
  BY NextIInv, NextQInv
<1> QED BY <1>1, <1>2, PTL DEF Spec

(* Variables have their types, a queue is registered only while a clean-up *)
(* will come for it, and a stream holds one exactly while it watches.      *)
THEOREM TypeCorrect == Spec => []TypeOK
<1>1. IInv /\ QInv => TypeOK
  BY TypesAre DEF IInv, QInv
<1> QED BY <1>1, Invariants, PTL

(* The action of PromptsFirst.                                             *)
ShowsAll(s) ==
  /\ at[s] = "watching" /\ at'[s] \in Contents
  /\ \A t \in Streams \ {s} : Of[t] = Of[s] => at[t] = "closed"
  => unseen'[Of[s]] = {}

LEMMA StepsShowAll ==
  ASSUME IInv, QInv, [Next]_vars, NEW s \in punctual
  PROVE  ShowsAll(s)
<1> USE WebchatAssumption
<1>0. /\ Types /\ StreamInv /\ QueueTypes /\ EventInv /\ s \in Streams /\ Of[s] \in Requests
  BY DEF IInv, QInv, Types
<1> SUFFICES ASSUME at[s] = "watching", at'[s] \in Contents,
                    \A t \in Streams \ {s} : Of[t] = Of[s] => at[t] = "closed"
             PROVE  unseen'[Of[s]] = {}
  BY DEF ShowsAll
<1>1. Answer(s)
  <2>1. at' # at
    BY DEF Contents
  <2>2. \A t \in Streams : TimeOut(t) \/ Leave(t) => at'[s] \in {"watching", "timedout", "gone"}
    BY <1>0 DEF TimeOut, Leave, Ends, Set, Types
  <2>3. \A t \in Streams : Open(t) => at'[s] = "watching"
    BY <1>0 DEF Open, Opens, Set, Types
  <2>4. \A t \in Streams \ {s} : Answer(t) => at'[s] = "watching"
    BY <1>0 DEF Answer, Ends, Set, Types
  <2>5. CASE \E r \in Requests : \/ Post(r) \/ Bounce(r) \/ Consume(r) \/ Enqueue(r) \/ TextJoins(r)
                                 \/ Flush(r) \/ Reply(r) \/ TurnFails(r) \/ CleanUp(r)
                                 \/ \E asks \in BOOLEAN : Event(r, asks)
    <3>1. UNCHANGED stream \/ UNCHANGED at
      BY <2>5 DEF Post, Bounce, Consume, Enqueue, TextJoins, Flush, Reply, TurnFails, CleanUp,
         Evict, Event, MessageOnly
    <3> QED BY <2>1, <3>1 DEF stream
  <2>6. CASE Dispatch \/ AskEnds \/ (\E t \in Streams : Take(t)) \/ UNCHANGED vars
    <3>1. UNCHANGED stream \/ UNCHANGED at
      BY <2>6 DEF Dispatch, AskEnds, Take, MessageOnly, vars
    <3> QED BY <2>1, <3>1 DEF stream
  <2> QED BY <2>2, <2>3, <2>4, <2>5, <2>6 DEF Next, Contents
<1>2. at'[s] = IF Outcome(s) = "cancelled" THEN "broken" ELSE Outcome(s)
  BY <1>0, <1>1 DEF Answer, Ends, Set, Types
<1>3. fate[s] # "cancelled"
  BY <1>2 DEF Outcome, Contents
<1>4. unseen[Of[s]] \subseteq left[Of[s]][holds[s]]
  BY <1>0, <1>3 DEF EventInv, Alone
<1>5. unseen'[Of[s]] = unseen[Of[s]] \ left[Of[s]][holds[s]]
  BY <1>0, <1>1 DEF Answer, Drain, Set, QueueTypes
<1> QED BY <1>4, <1>5

(* The only stream of a request that was opened in time shows every event  *)
(* of the turn before the answer, the approval prompt among them.          *)
THEOREM PromptsComeFirst == Spec => PromptsFirst
<1>1. IInv /\ QInv /\ [Next]_vars =>
        [\A s \in punctual :
            /\ at[s] = "watching" /\ at'[s] \in Contents
            /\ \A t \in Streams \ {s} : Of[t] = Of[s] => at[t] = "closed"
            => unseen'[Of[s]] = {}]_vars
  BY StepsShowAll DEF ShowsAll
<1> QED BY <1>1, Invariants, PTL DEF Spec, PromptsFirst
================================================================================
