-------------------------- MODULE TurnDispatchProofs --------------------------
(* The safety of message dispatch for every set of messages, any number of *)
(* rounds, approvals and failures.                                         *)
EXTENDS TurnDispatch, TLAPS

-----------------------------------------------------------------------------
(* The inductive invariant                                                 *)

(* A persisted message is in the batcher or in one batch, and its seq says *)
(* how they follow each other: a batch is older than the next one and than *)
(* the batcher, and its dispatch is named by its newest message.           *)
BatcherInv ==
  /\ pending \subseteq Arrived
  /\ pending # {} => last \in pending /\ \A m \in pending : seq[m] <= seq[last]

SeqInv ==
  /\ \A m \in Messages : seq[m] <= top
  /\ \A m, n \in Arrived : seq[m] = seq[n] => m = n

BatchInv ==
  \A d \in Messages :
    /\ batch[d] \subseteq Arrived \ pending
    /\ at[d] = "none" => batch[d] = {} /\ covers[d] = {}
    /\ at[d] # "none" => d \in batch[d]
    /\ \A m \in batch[d] : seq[m] <= seq[d]
    /\ \A e \in Messages : d # e => batch[d] \cap batch[e] = {}

(* Tickets follow the order of the batches; the running turn came first.   *)
TicketInv ==
  \A d \in Messages : at[d] # "none" =>
    /\ ticket[d] <= top
    /\ seq[d] <= ticket[d]
    /\ \A m \in pending : ticket[d] < seq[m]
    /\ \A e \in Messages : at[e] # "none" /\ ticket[d] < ticket[e] =>
         \A m \in batch[e] : ticket[d] < seq[m]
    /\ \A e \in Messages : at[e] # "none" /\ d # e => ticket[d] # ticket[e]

FirstInv ==
  \A e \in Messages :
    holder # NoMessage /\ at[e] = "waiting" => ticket[holder] < ticket[e]

(* A turn covers messages of batches that no longer wait.                  *)
CoverInv ==
  /\ \A d \in Messages :
       /\ covers[d] \subseteq Arrived \ pending
       /\ at[d] \in {"waiting", "folded"} => covers[d] = {}
       /\ \A e \in Messages : at[e] = "waiting" => covers[d] \cap batch[e] = {}
  /\ OneTurnPerMessage
  /\ phase = "starting" => covers[holder] = batch[holder]
  /\ holder # NoMessage => covers[holder] # {}

(* The context of the running turn has nothing that may still be folded.   *)
ContextInv ==
  /\ context \subseteq Arrived \ pending
  /\ phase \in {"idle", "starting"} => context = {}
  /\ \A e \in Messages : at[e] = "waiting" => context \cap batch[e] = {}

ResultInv == phase \in {"replying", "storing"} => result # "none"

IInv ==
  /\ TypeOK /\ OneRunner
  /\ InboxWaits
  /\ BatcherInv /\ SeqInv /\ BatchInv /\ TicketInv /\ FirstInv /\ CoverInv
  /\ ContextInv /\ AnswersWhatItRead /\ NothingLost /\ ResultInv

-----------------------------------------------------------------------------
(* Preservation, one part of the invariant at a time                       *)

(* A message in the batcher has never been dispatched.                     *)
LEMMA PendingIsNew ==
  ASSUME IInv, pending # {}
  PROVE  last \in Messages /\ last \in pending /\ at[last] = "none"
  BY DEF IInv, TypeOK, BatcherInv, BatchInv

LEMMA HolderRuns ==
  ASSUME IInv, phase # "idle"
  PROVE  holder \in Messages /\ at[holder] = "running"
  BY DispatchAssumption DEF IInv, TypeOK, OneRunner

(* What a drain does, message by message.                                  *)
LEMMA FoldEffect ==
  ASSUME IInv, phase # "idle", Fold
  PROVE  /\ Claimed \subseteq inbox
         /\ \A d \in Messages : at'[d] = IF d \in Claimed THEN "folded" ELSE at[d]
         /\ \A m \in Messages :
              m \in context' <=> m \in context \/ \E d \in Claimed : m \in batch[d]
         /\ \A m \in Messages :
              m \in covers'[holder] <=>
                m \in covers[holder] \/ \E d \in Claimed : m \in batch[d]
         /\ \A d \in Messages : d # holder => covers'[d] = covers[d]
         /\ context' \subseteq Messages
         /\ covers' \in [Messages -> SUBSET Messages]
         /\ at' \in [Messages -> Places]
         /\ inbox' = inbox \ Claimed
<1>0. TypeOK
  BY DEF IInv
<1>1. holder \in Messages
  BY HolderRuns
<1>2. Claimed \subseteq inbox
  BY DEF Claimed
<1> DEFINE Incoming == UNION {batch[d] : d \in Claimed}
<1>3. \A m : m \in Incoming <=> \E d \in Claimed : m \in batch[d]
  OBVIOUS
<1>4. Incoming \subseteq Messages
  BY <1>0, <1>2, <1>3 DEF TypeOK
<1>5. /\ context' = context \cup Incoming
      /\ covers' = [covers EXCEPT ![holder] = @ \cup Incoming]
      /\ inbox' = inbox \ Claimed
      /\ at' = [d \in Messages |-> IF d \in Claimed THEN "folded" ELSE at[d]]
  BY DEF Fold
<1> HIDE DEF Incoming
<1> QED
  BY <1>0, <1>1, <1>2, <1>3, <1>4, <1>5 DEF TypeOK, Places

LEMMA TypeStep == IInv /\ [Next]_vars => TypeOK'
<1> SUFFICES ASSUME IInv, [Next]_vars PROVE TypeOK'
  OBVIOUS
<1>0. TypeOK
  BY DEF IInv
<1>a. phase # "idle" => holder \in Messages
  BY HolderRuns
<1> USE <1>0, <1>a, DispatchAssumption DEF TypeOK, Places, Phases, Results
<1>1. ASSUME NEW m \in Messages, Arrive(m) PROVE TypeOK'
  BY <1>1 DEF Arrive, dispatches, turn
<1>2. CASE Flush
  BY <1>2, PendingIsNew DEF Flush, table, turn
<1>3. ASSUME NEW d \in Messages, Acquire(d) PROVE TypeOK'
  BY <1>3 DEF Acquire, table, batcher
<1>4. ASSUME NEW d \in Messages, ExitFolded(d) \/ Apologise(d) PROVE TypeOK'
  BY <1>4 DEF ExitFolded, Apologise, table, batcher, turn
<1>5. ASSUME NEW d \in Messages, Interrupt(d) PROVE TypeOK'
  BY <1>5 DEF Interrupt, NextRound, table, batcher
<1>6. CASE Load
  BY <1>6 DEF Load, History, Arrived, table, batcher, dispatches
<1>7. CASE CallModel
  BY <1>7, FoldEffect DEF CallModel, table, batcher
<1>8. CASE UseTools \/ AskEnds \/ Ask \/ AgentFails
  BY <1>8 DEF UseTools, AskEnds, Ask, AgentFails, table, batcher, dispatches
<1>9. CASE EndRound
  BY <1>9 DEF EndRound, NextRound, table, batcher, dispatches
<1>10. CASE Draft
  BY <1>10, FoldEffect DEF Draft, table, batcher
<1>11. CASE Publish
  <2>1. result \in {"reply", "silent", "error"}
    BY <1>11 DEF Publish, IInv, ResultInv
  <2> QED
    BY <1>11, <2>1 DEF Publish, table, batcher, dispatches
<1>12. CASE Store
  BY <1>12 DEF Store, Release, batcher
<1>13. CASE TurnFails
  BY <1>13 DEF TurnFails, Release, table, batcher
<1>14. CASE UNCHANGED vars
  BY <1>14 DEF vars, table, batcher, dispatches, turn
<1> QED
  BY <1>1, <1>2, <1>3, <1>4, <1>5, <1>6, <1>7, <1>8, <1>9, <1>10, <1>11, <1>12,
     <1>13, <1>14 DEF Next, TurnStep

LEMMA ResultStep == IInv /\ [Next]_vars => ResultInv'
<1> SUFFICES ASSUME IInv, [Next]_vars PROVE ResultInv'
  OBVIOUS
<1> USE DEF IInv, ResultInv
<1>1. ASSUME NEW d \in Messages, Arrive(d) \/ Acquire(d) \/ ExitFolded(d) \/ Apologise(d)
      PROVE  ResultInv'
  BY <1>1 DEF Arrive, Acquire, ExitFolded, Apologise, turn
<1>2. ASSUME NEW d \in Messages, Interrupt(d) PROVE ResultInv'
  BY <1>2 DEF Interrupt, NextRound
<1>3. CASE Flush \/ Load \/ CallModel \/ UseTools \/ Ask \/ AskEnds \/ AgentFails
  BY <1>3 DEF Flush, Load, CallModel, UseTools, Ask, AskEnds, AgentFails, turn
<1>4. CASE EndRound \/ Draft \/ Publish
  BY <1>4 DEF EndRound, NextRound, Draft, Publish
<1>5. CASE Store \/ TurnFails
  BY <1>5 DEF Store, TurnFails, Release
<1>6. CASE UNCHANGED vars
  BY <1>6 DEF vars, turn
<1> QED
  BY <1>1, <1>2, <1>3, <1>4, <1>5, <1>6 DEF Next, TurnStep

LEMMA RunnerStep == IInv /\ [Next]_vars => OneRunner' /\ InboxWaits'
<1> SUFFICES ASSUME IInv, [Next]_vars PROVE OneRunner' /\ InboxWaits'
  OBVIOUS
<1>0. TypeOK /\ OneRunner /\ InboxWaits
  BY DEF IInv
<1>a. phase # "idle" => holder \in Messages /\ at[holder] = "running"
  BY HolderRuns
<1>b. NoMessage \notin Messages
  BY DispatchAssumption
<1> USE <1>0, <1>a, <1>b DEF TypeOK, OneRunner, InboxWaits, Foldable
<1>1. ASSUME NEW m \in Messages, Arrive(m) PROVE OneRunner' /\ InboxWaits'
  BY <1>1 DEF Arrive, dispatches, turn
<1>2. CASE Flush
  BY <1>2, PendingIsNew DEF Flush, turn
<1>3. ASSUME NEW d \in Messages, Acquire(d) PROVE OneRunner' /\ InboxWaits'
  BY <1>3 DEF Acquire
<1>4. ASSUME NEW d \in Messages, ExitFolded(d) \/ Apologise(d)
      PROVE  OneRunner' /\ InboxWaits'
  BY <1>4 DEF ExitFolded, Apologise, turn
<1>5. ASSUME NEW d \in Messages, Interrupt(d) PROVE OneRunner' /\ InboxWaits'
  BY <1>5 DEF Interrupt, NextRound
<1>6. CASE Load \/ UseTools \/ EndRound \/ Ask \/ AskEnds \/ AgentFails \/ Publish
  BY <1>6 DEF Load, UseTools, EndRound, NextRound, Ask, AskEnds, AgentFails,
     Publish, dispatches
<1>7. CASE CallModel
  BY <1>7, FoldEffect DEF CallModel
<1>8. CASE Draft
  BY <1>8, FoldEffect DEF Draft
<1>9. CASE Store \/ TurnFails
  BY <1>9 DEF Store, TurnFails, Release
<1>10. CASE UNCHANGED vars
  BY <1>10 DEF vars, dispatches, turn
<1> QED
  BY <1>1, <1>2, <1>3, <1>4, <1>5, <1>6, <1>7, <1>8, <1>9, <1>10
  DEF Next, TurnStep

(* A step that neither accepts nor flushes leaves the messages and the     *)
(* batches as they are; dispatches only leave the queue.                   *)
LEMMA OtherStep ==
  ASSUME IInv, [Next]_vars, ~Flush, \A m \in Messages : ~Arrive(m)
  PROVE  /\ seq' = seq /\ pending' = pending /\ last' = last
         /\ batch' = batch /\ ticket' = ticket
         /\ top' \in Nat /\ top <= top'
         /\ \A d \in Messages : at'[d] = "none" <=> at[d] = "none"
         /\ \A d \in Messages : at'[d] = "waiting" => at[d] = "waiting"
<1>0. TypeOK /\ InboxWaits
  BY DEF IInv
<1>a. phase # "idle" => holder \in Messages /\ at[holder] = "running"
  BY HolderRuns
<1>b. Claimed \subseteq inbox
  BY DEF Claimed
<1> DEFINE Goal ==
      /\ seq' = seq /\ pending' = pending /\ last' = last
      /\ batch' = batch /\ ticket' = ticket
      /\ top' \in Nat /\ top <= top'
      /\ \A d \in Messages : at'[d] = "none" <=> at[d] = "none"
      /\ \A d \in Messages : at'[d] = "waiting" => at[d] = "waiting"
<1> USE <1>0, <1>a, <1>b DEF TypeOK, InboxWaits
<1>1. ASSUME NEW d \in Messages, Acquire(d) PROVE Goal
  BY <1>1 DEF Acquire, table, batcher
<1>2. ASSUME NEW d \in Messages, ExitFolded(d) \/ Apologise(d) PROVE Goal
  BY <1>2 DEF ExitFolded, Apologise, table, batcher
<1>3. ASSUME NEW d \in Messages, Interrupt(d) PROVE Goal
  BY <1>3 DEF Interrupt, table, batcher
<1>4. CASE Load \/ UseTools \/ EndRound \/ Ask \/ AskEnds \/ AgentFails \/ Publish
  BY <1>4 DEF Load, UseTools, EndRound, Ask, AskEnds, AgentFails, Publish,
     dispatches, table, batcher
<1>5. CASE CallModel \/ Draft
  BY <1>5, FoldEffect DEF CallModel, Draft, table, batcher
<1>6. CASE Store \/ TurnFails
  BY <1>6 DEF Store, TurnFails, Release, table, batcher
<1>7. CASE UNCHANGED vars
  BY <1>7 DEF vars, dispatches, table, batcher
<1> QED
  BY <1>1, <1>2, <1>3, <1>4, <1>5, <1>6, <1>7 DEF Next, TurnStep

LEMMA BatcherStep == IInv /\ [Next]_vars => BatcherInv' /\ SeqInv'
<1> SUFFICES ASSUME IInv, [Next]_vars PROVE BatcherInv' /\ SeqInv'
  OBVIOUS
<1>0. TypeOK /\ BatcherInv /\ SeqInv
  BY DEF IInv
<1> USE <1>0 DEF TypeOK, BatcherInv, SeqInv, Arrived
<1>1. ASSUME NEW m \in Messages, Arrive(m) PROVE BatcherInv' /\ SeqInv'
  BY <1>1 DEF Arrive
<1>2. CASE Flush
  BY <1>2 DEF Flush, table
<1>3. CASE ~Flush /\ \A m \in Messages : ~Arrive(m)
  BY <1>3, OtherStep
<1> QED
  BY <1>1, <1>2, <1>3

(* A step of a turn changes only what the turn of the holder covers.       *)
LEMMA CoversStep ==
  ASSUME IInv, [Next]_vars, NEW d \in Messages, at[d] = "none"
  PROVE  covers'[d] = covers[d]
<1>0. TypeOK
  BY DEF IInv
<1>a. phase # "idle" => holder \in Messages /\ at[holder] = "running"
  BY HolderRuns
<1> USE <1>0, <1>a DEF TypeOK
<1>1. ASSUME NEW e \in Messages,
             Arrive(e) \/ Acquire(e) \/ ExitFolded(e) \/ Apologise(e) \/ Interrupt(e)
      PROVE  covers'[d] = covers[d]
  BY <1>1 DEF Arrive, Acquire, ExitFolded, Apologise, Interrupt, turn
<1>2. CASE \/ Flush \/ Load \/ UseTools \/ EndRound \/ Ask \/ AskEnds \/ AgentFails
           \/ Publish \/ Store \/ TurnFails
  BY <1>2 DEF Flush, Load, UseTools, EndRound, Ask, AskEnds, AgentFails, Publish,
     Store, TurnFails, Release, turn
<1>3. CASE CallModel \/ Draft
  BY <1>3, FoldEffect DEF CallModel, Draft
<1>4. CASE UNCHANGED vars
  BY <1>4 DEF vars, turn
<1> QED
  BY <1>1, <1>2, <1>3, <1>4 DEF Next, TurnStep

LEMMA BatchStep == IInv /\ [Next]_vars => BatchInv'
<1> SUFFICES ASSUME IInv, [Next]_vars PROVE BatchInv'
  OBVIOUS
<1>0. TypeOK /\ BatcherInv /\ SeqInv /\ BatchInv
  BY DEF IInv
<1>a. \A d \in Messages : at[d] = "none" => covers'[d] = {}
  BY <1>0, CoversStep DEF BatchInv
<1> USE <1>0, <1>a DEF TypeOK, BatcherInv, SeqInv, BatchInv, Arrived
<1>1. ASSUME NEW m \in Messages, Arrive(m) PROVE BatchInv'
  BY <1>1 DEF Arrive, dispatches, turn
<1>2. CASE Flush
  BY <1>2, PendingIsNew DEF Flush, table, turn
<1>3. CASE ~Flush /\ \A m \in Messages : ~Arrive(m)
  BY <1>3, OtherStep
<1> QED
  BY <1>1, <1>2, <1>3

LEMMA TicketStep == IInv /\ [Next]_vars => TicketInv'
<1> SUFFICES ASSUME IInv, [Next]_vars PROVE TicketInv'
  OBVIOUS
<1>0. TypeOK /\ BatcherInv /\ SeqInv /\ BatchInv /\ TicketInv
  BY DEF IInv
<1> USE <1>0 DEF TypeOK, TicketInv
<1>1. ASSUME NEW m \in Messages, Arrive(m) PROVE TicketInv'
  BY <1>1 DEF Arrive, dispatches, BatchInv, Arrived
<1>2. CASE Flush
  BY <1>2, PendingIsNew DEF Flush, table, BatcherInv, SeqInv, BatchInv, Arrived
<1>3. CASE ~Flush /\ \A m \in Messages : ~Arrive(m)
  BY <1>3, OtherStep
<1> QED
  BY <1>1, <1>2, <1>3

(* Nobody in the queue came before the running turn: the lock is fair.     *)
LEMMA FirstStep == IInv /\ [Next]_vars => FirstInv'
<1> SUFFICES ASSUME IInv, [Next]_vars PROVE FirstInv'
  OBVIOUS
<1>0. TypeOK /\ OneRunner /\ BatcherInv /\ SeqInv /\ TicketInv /\ FirstInv
  BY DEF IInv
<1>a. phase # "idle" => holder \in Messages /\ at[holder] = "running"
  BY HolderRuns
<1>b. NoMessage \notin Messages
  BY DispatchAssumption
<1> USE <1>0, <1>a, <1>b DEF TypeOK, FirstInv
<1>1. ASSUME NEW m \in Messages, Arrive(m) PROVE FirstInv'
  BY <1>1 DEF Arrive, dispatches, turn
<1>2. CASE Flush
  BY <1>2, PendingIsNew DEF Flush, turn, OneRunner, BatcherInv, SeqInv, TicketInv
<1>3. ASSUME NEW d \in Messages, Acquire(d) PROVE FirstInv'
  BY <1>3 DEF Acquire, FirstInLine, TicketInv
<1>4. CASE /\ ~Flush /\ \A m \in Messages : ~Arrive(m) /\ ~Acquire(m)
  <2>1. holder' \in {holder, NoMessage}
    BY <1>4 DEF Next, TurnStep, ExitFolded, Apologise, Interrupt, Load, UseTools,
       EndRound, Ask, AskEnds, AgentFails, Publish, CallModel, Draft, Store,
       TurnFails, Release, vars, turn
  <2> QED
    BY <1>4, <2>1, OtherStep
<1> QED
  BY <1>1, <1>2, <1>3, <1>4

LEMMA CoverStep == IInv /\ [Next]_vars => CoverInv'
<1> SUFFICES ASSUME IInv, [Next]_vars PROVE CoverInv'
  OBVIOUS
<1>0. TypeOK /\ OneRunner /\ InboxWaits /\ BatcherInv /\ BatchInv /\ CoverInv
  BY DEF IInv
<1>a. phase # "idle" => holder \in Messages /\ at[holder] = "running"
  BY HolderRuns
<1>b. NoMessage \notin Messages
  BY DispatchAssumption
<1> USE <1>0, <1>a, <1>b DEF TypeOK, CoverInv, OneTurnPerMessage
<1>1. ASSUME NEW m \in Messages, Arrive(m) PROVE CoverInv'
  BY <1>1 DEF Arrive, dispatches, turn, Arrived
<1>2. CASE Flush
  BY <1>2, PendingIsNew DEF Flush, table, turn, Arrived, BatchInv, OneRunner
<1>3. ASSUME NEW d \in Messages, Acquire(d) PROVE CoverInv'
  BY <1>3 DEF Acquire, table, batcher, Arrived, BatchInv
<1>4. ASSUME NEW d \in Messages, ExitFolded(d) \/ Apologise(d) PROVE CoverInv'
  BY <1>4 DEF ExitFolded, Apologise, table, batcher, turn, Arrived
<1>5. CASE \/ Load \/ UseTools \/ EndRound \/ Ask \/ AskEnds \/ AgentFails
           \/ Publish \/ \E d \in Messages : Interrupt(d)
  <2>1. /\ seq' = seq /\ pending' = pending /\ at' = at /\ batch' = batch
        /\ holder' = holder /\ covers' = covers /\ phase' # "starting"
    BY <1>5 DEF Load, UseTools, EndRound, NextRound, Ask, AskEnds, AgentFails,
       Publish, Interrupt, table, batcher, dispatches
  <2> QED
    BY <2>1 DEF Arrived
<1>6. CASE CallModel \/ Draft
  <2>1. /\ seq' = seq /\ pending' = pending /\ batch' = batch
        /\ holder' = holder /\ holder \in Messages /\ phase' # "starting"
    BY <1>6 DEF CallModel, Draft, table, batcher
  <2>2. CASE Fold
    <3>1. \A d \in Claimed : d \in Messages /\ at[d] = "waiting"
      BY DEF Claimed, InboxWaits
    <3>2. \A d \in Messages : at'[d] = IF d \in Claimed THEN "folded" ELSE at[d]
      BY <1>6, <2>2, FoldEffect DEF CallModel, Draft
    <3>3. \A m \in Messages : m \in covers'[holder] <=>
             m \in covers[holder] \/ \E d \in Claimed : m \in batch[d]
      BY <1>6, <2>2, FoldEffect DEF CallModel, Draft
    <3>4. /\ \A d \in Messages : d # holder => covers'[d] = covers[d]
          /\ covers' \in [Messages -> SUBSET Messages]
      BY <1>6, <2>2, FoldEffect DEF CallModel, Draft
    <3>5. \A d \in Messages : covers'[d] \subseteq Arrived \ pending
      BY <2>1, <3>1, <3>3, <3>4 DEF BatchInv
    <3>6. \A d \in Messages : at'[d] \in {"waiting", "folded"} => covers'[d] = {}
      BY <1>6, <2>1, <3>1, <3>2, <3>4 DEF CallModel, Draft
    <3>7. \A d, e \in Messages : at'[e] = "waiting" => covers'[d] \cap batch[e] = {}
      BY <2>1, <3>1, <3>2, <3>3, <3>4 DEF BatchInv
    <3>8. \A d, e \in Messages : d # e => covers'[d] \cap covers'[e] = {}
      BY <2>1, <3>1, <3>3, <3>4
    <3>9. covers'[holder] # {}
      BY <2>1, <3>3, <1>b
    <3> QED
      BY <2>1, <3>5, <3>6, <3>7, <3>8, <3>9 DEF Arrived
  <2>3. CASE UNCHANGED <<at, inbox, context, covers, round>>
    BY <2>1, <2>3 DEF Arrived
  <2> QED
    BY <1>6, <2>2, <2>3 DEF CallModel, Draft
<1>7. CASE Store \/ TurnFails
  BY <1>7 DEF Store, TurnFails, Release, table, batcher, Arrived
<1>8. CASE UNCHANGED vars
  BY <1>8 DEF vars, table, batcher, dispatches, turn, Arrived
<1> QED
  BY <1>1, <1>2, <1>3, <1>4, <1>5, <1>6, <1>7, <1>8 DEF Next, TurnStep

(* What a turn reads when it starts is older than everything in the queue. *)
LEMMA HistoryIsOlder ==
  ASSUME IInv, holder # NoMessage
  PROVE  /\ History \subseteq Arrived \ pending
         /\ batch[holder] \subseteq History
         /\ \A e \in Messages : at[e] = "waiting" => History \cap batch[e] = {}
<1>0. /\ TypeOK /\ OneRunner /\ BatcherInv /\ SeqInv /\ BatchInv /\ TicketInv
      /\ FirstInv
  BY DEF IInv
<1>1. holder \in Messages /\ at[holder] = "running"
  BY <1>0, HolderRuns DEF OneRunner
<1>2. /\ holder \in batch[holder]
      /\ seq[holder] <= ticket[holder]
      /\ \A m \in pending : ticket[holder] < seq[m]
  BY <1>0, <1>1 DEF BatchInv, TicketInv
<1>3. \A e \in Messages : at[e] = "waiting" =>
        \A m \in batch[e] : ticket[holder] < seq[m]
  BY <1>0, <1>1 DEF TicketInv, FirstInv
<1>4. History \subseteq Arrived \ pending
  BY <1>0, <1>1, <1>2 DEF History, Arrived, TypeOK, BatchInv
<1>5. batch[holder] \subseteq History
  BY <1>0, <1>1, <1>2 DEF History, Arrived, TypeOK, BatchInv, SeqInv
<1>6. ASSUME NEW e \in Messages, at[e] = "waiting" PROVE History \cap batch[e] = {}
  BY <1>0, <1>1, <1>2, <1>3, <1>6 DEF History, Arrived, TypeOK, BatchInv
<1> QED
  BY <1>4, <1>5, <1>6

LEMMA ReadStep == IInv /\ [Next]_vars => ContextInv' /\ AnswersWhatItRead'
<1> SUFFICES ASSUME IInv, [Next]_vars PROVE ContextInv' /\ AnswersWhatItRead'
  OBVIOUS
<1>0. /\ TypeOK /\ OneRunner /\ InboxWaits /\ BatcherInv /\ BatchInv /\ CoverInv
      /\ ContextInv /\ AnswersWhatItRead
  BY DEF IInv
<1>a. phase # "idle" => holder \in Messages /\ at[holder] = "running"
  BY HolderRuns
<1>b. NoMessage \notin Messages
  BY DispatchAssumption
<1> USE <1>0, <1>a, <1>b DEF TypeOK, ContextInv, AnswersWhatItRead
<1>1. ASSUME NEW m \in Messages, Arrive(m) PROVE ContextInv' /\ AnswersWhatItRead'
  BY <1>1 DEF Arrive, dispatches, turn, Arrived
<1>2. CASE Flush
  BY <1>2, PendingIsNew DEF Flush, table, turn, Arrived
<1>3. ASSUME NEW d \in Messages, Acquire(d) PROVE ContextInv' /\ AnswersWhatItRead'
  BY <1>3 DEF Acquire, table, batcher, Arrived, OneRunner
<1>4. ASSUME NEW d \in Messages, ExitFolded(d) \/ Apologise(d)
      PROVE  ContextInv' /\ AnswersWhatItRead'
  BY <1>4 DEF ExitFolded, Apologise, table, batcher, turn, Arrived
<1>5. CASE Load
  BY <1>5, HistoryIsOlder DEF Load, table, batcher, dispatches, Arrived, CoverInv
<1>6. CASE \/ UseTools \/ EndRound \/ Ask \/ AskEnds \/ AgentFails
           \/ Publish \/ \E d \in Messages : Interrupt(d)
  <2>1. /\ seq' = seq /\ pending' = pending /\ at' = at /\ batch' = batch
        /\ holder' = holder /\ covers' = covers /\ context' = context
        /\ phase \notin {"idle", "starting"} /\ phase' \notin {"idle", "starting"}
    BY <1>6 DEF UseTools, EndRound, NextRound, Ask, AskEnds, AgentFails,
       Publish, Interrupt, table, batcher, dispatches
  <2> QED
    BY <2>1 DEF Arrived, Phases
<1>7. CASE CallModel \/ Draft
  <2>1. /\ seq' = seq /\ pending' = pending /\ batch' = batch
        /\ holder' = holder /\ holder \in Messages
        /\ phase \notin {"idle", "starting"} /\ phase' \notin {"idle", "starting"}
    BY <1>7 DEF CallModel, Draft, table, batcher
  <2>2. CASE Fold
    <3>1. \A d \in Claimed : d \in Messages /\ at[d] = "waiting"
      BY DEF Claimed, InboxWaits
    <3>2. \A d \in Messages : at'[d] = IF d \in Claimed THEN "folded" ELSE at[d]
      BY <1>7, <2>2, FoldEffect DEF CallModel, Draft
    <3>3. /\ \A m \in Messages : m \in covers'[holder] <=>
                m \in covers[holder] \/ \E d \in Claimed : m \in batch[d]
          /\ \A m \in Messages :
                m \in context' <=> m \in context \/ \E d \in Claimed : m \in batch[d]
          /\ context' \subseteq Messages
          /\ covers' \in [Messages -> SUBSET Messages]
      BY <1>7, <2>2, FoldEffect DEF CallModel, Draft
    <3>4. covers[holder] \subseteq context
      BY <1>7 DEF CallModel, Draft
    <3>5. covers'[holder] \subseteq context'
      BY <2>1, <3>3, <3>4
    <3>6. context' \subseteq Arrived \ pending
      BY <3>1, <3>3 DEF BatchInv
    <3>7. \A e \in Messages : at'[e] = "waiting" => context' \cap batch[e] = {}
      BY <3>1, <3>2, <3>3 DEF BatchInv
    <3> QED
      BY <2>1, <3>5, <3>6, <3>7 DEF Arrived
  <2>3. CASE UNCHANGED <<at, inbox, context, covers, round>>
    BY <1>7, <2>1, <2>3 DEF Arrived, CallModel, Draft
  <2> QED
    BY <1>7, <2>2, <2>3 DEF CallModel, Draft
<1>8. CASE Store \/ TurnFails
  BY <1>8 DEF Store, TurnFails, Release, table, batcher
<1>9. CASE UNCHANGED vars
  BY <1>9 DEF vars, table, batcher, dispatches, turn, Arrived
<1> QED
  BY <1>1, <1>2, <1>3, <1>4, <1>5, <1>6, <1>7, <1>8, <1>9 DEF Next, TurnStep

LEMMA LostStep == IInv /\ [Next]_vars => NothingLost'
<1> SUFFICES ASSUME IInv, [Next]_vars PROVE NothingLost'
  OBVIOUS
<1>0. /\ TypeOK /\ InboxWaits /\ BatchInv /\ CoverInv /\ NothingLost
  BY DEF IInv
<1>a. phase # "idle" => holder \in Messages /\ at[holder] = "running"
  BY HolderRuns
<1> USE <1>0, <1>a DEF TypeOK, NothingLost, Arrived
<1>1. ASSUME NEW m \in Messages, Arrive(m) PROVE NothingLost'
  BY <1>1 DEF Arrive, dispatches, turn
<1>2. CASE Flush
  BY <1>2, PendingIsNew DEF Flush, table, turn
<1>3. ASSUME NEW d \in Messages, Acquire(d) PROVE NothingLost'
  BY <1>3 DEF Acquire, table, batcher, CoverInv
<1>4. ASSUME NEW d \in Messages, ExitFolded(d) \/ Apologise(d) PROVE NothingLost'
  BY <1>4 DEF ExitFolded, Apologise, table, batcher, turn
<1>5. CASE \/ Load \/ UseTools \/ EndRound \/ Ask \/ AskEnds \/ AgentFails
           \/ Publish \/ \E d \in Messages : Interrupt(d)
  <2>1. /\ seq' = seq /\ pending' = pending /\ at' = at /\ batch' = batch
        /\ covers' = covers
    BY <1>5 DEF Load, UseTools, EndRound, Ask, AskEnds, AgentFails,
       Publish, Interrupt, table, batcher, dispatches
  <2> QED
    BY <2>1
<1>6. CASE CallModel \/ Draft
  <2>1. seq' = seq /\ pending' = pending /\ batch' = batch /\ phase # "idle"
    BY <1>6 DEF CallModel, Draft, table, batcher
  <2>2. CASE Fold
    BY <2>1, <2>2, FoldEffect
  <2>3. CASE UNCHANGED <<at, inbox, context, covers, round>>
    BY <2>1, <2>3
  <2> QED
    BY <1>6, <2>2, <2>3 DEF CallModel, Draft
<1>7. CASE Store \/ TurnFails
  BY <1>7 DEF Store, TurnFails, Release, table, batcher
<1>8. CASE UNCHANGED vars
  BY <1>8 DEF vars, table, batcher, dispatches, turn
<1> QED
  BY <1>1, <1>2, <1>3, <1>4, <1>5, <1>6, <1>7, <1>8 DEF Next, TurnStep

-----------------------------------------------------------------------------
(* The theorems                                                            *)

LEMMA InitIInv == Init => IInv
<1> SUFFICES ASSUME Init PROVE IInv
  OBVIOUS
<1> USE DispatchAssumption DEF Init
<1>1. TypeOK
  BY DEF TypeOK, Places, Phases, Results
<1>2. OneRunner /\ InboxWaits /\ ResultInv
  BY DEF OneRunner, InboxWaits, ResultInv
<1>3. BatcherInv /\ SeqInv /\ BatchInv /\ TicketInv /\ FirstInv
  BY DEF BatcherInv, SeqInv, BatchInv, TicketInv, FirstInv, Arrived
<1>4. CoverInv /\ ContextInv /\ AnswersWhatItRead /\ NothingLost
  BY DEF CoverInv, OneTurnPerMessage, ContextInv, AnswersWhatItRead,
     NothingLost, Arrived
<1> QED
  BY <1>1, <1>2, <1>3, <1>4 DEF IInv

(* The conjunction of everything above is inductive.                       *)
LEMMA Invariant == Spec => []IInv
<1>1. IInv /\ [Next]_vars => IInv'
  BY TypeStep, ResultStep, RunnerStep, BatcherStep, BatchStep, TicketStep,
     FirstStep, CoverStep, ReadStep, LostStep DEF IInv
<1> QED
  BY InitIInv, <1>1, PTL DEF Spec

(* The variables keep their types, and a turn is in progress exactly when  *)
(* a dispatch holds the user lock.                                         *)
THEOREM TypeCorrect == Spec => [](TypeOK /\ OneRunner)
<1>1. IInv => TypeOK /\ OneRunner
  BY DEF IInv
<1> QED
  BY Invariant, <1>1, PTL

(* Exactly-once: a message folded into a running turn never gets a turn of *)
(* its own, whatever arrives, waits, fails or is interrupted.              *)
THEOREM TakenOnce == Spec => []OneTurnPerMessage
<1>1. IInv => OneTurnPerMessage
  BY DEF IInv, CoverInv
<1> QED
  BY Invariant, <1>1, PTL

(* A persisted message is always in the batcher, in the queue for the lock *)
(* or in a turn.                                                           *)
THEOREM NeverLost == Spec => []NothingLost
<1>1. IInv => NothingLost
  BY DEF IInv
<1> QED
  BY Invariant, <1>1, PTL

(* The model has read every message of the turn it is answering for.       *)
THEOREM ReadsBeforeAnswering == Spec => []AnswersWhatItRead
<1>1. IInv => AnswersWhatItRead
  BY DEF IInv
<1> QED
  BY Invariant, <1>1, PTL

(* What may still be folded is not in the history: this rests on the lock  *)
(* being first come first served, and on batches following seq order.      *)
THEOREM ReadsOnce == Spec => []NothingReadTwice
<1>1. IInv => NothingReadTwice
  BY DEF IInv, ContextInv, InboxWaits, TypeOK, NothingReadTwice
<1> QED
  BY Invariant, <1>1, PTL

(* The inbox never offers a turn its own dispatch or a finished one.       *)
THEOREM InboxOnlyWaits == Spec => []InboxWaits
<1>1. IInv => InboxWaits
  BY DEF IInv
<1> QED
  BY Invariant, <1>1, PTL

(* The poll of a message never interrupts an approval of the turn that is  *)
(* answering that message.                                                 *)
THEOREM InterruptsOthers == Spec => InterruptsFromOutside
<1>1. ASSUME IInv, [Next]_vars
      PROVE  \A d \in polled' \ polled : d \notin covers[holder]
  <2>0. TypeOK /\ OneRunner /\ BatchInv /\ CoverInv
    BY <1>1 DEF IInv
  <2>1. ASSUME NEW d \in Messages, Interrupt(d)
        PROVE  \A e \in polled' \ polled : e \notin covers[holder]
    <3>1. at[d] = "waiting" /\ polled' = polled \cup {d} /\ holder \in Messages
      BY <2>1, <1>1, HolderRuns DEF Interrupt, MayInterrupt
    <3>2. d \in batch[d] /\ covers[holder] \cap batch[d] = {}
      BY <2>0, <3>1 DEF BatchInv, CoverInv
    <3> QED
      BY <3>1, <3>2
  <2>2. CASE \A d \in Messages : ~Interrupt(d)
    <3>1. polled' = polled
      BY <1>1, <2>2 DEF Next, TurnStep, Arrive, Flush, Acquire, ExitFolded,
         Apologise, Load, CallModel, UseTools, EndRound, Ask, AskEnds, Draft,
         AgentFails, Publish, Store, TurnFails, Release, vars, dispatches, turn
    <3> QED
      BY <3>1
  <2> QED
    BY <2>1, <2>2
<1> QED
  BY Invariant, <1>1, PTL DEF Spec, InterruptsFromOutside

-----------------------------------------------------------------------------
(* Refinement of TurnContract                                              *)

Running == IF holder = NoMessage THEN {} ELSE covers[holder]

(* How each step looks through the mapping of Turns.                       *)
LEMMA StepRefines ==
  ASSUME IInv, [Next]_vars
  PROVE  [Turns!Next]_Turns!vars
<1>0. /\ TypeOK /\ OneRunner /\ InboxWaits /\ BatchInv /\ CoverInv
  BY DEF IInv
<1>a. phase # "idle" => holder \in Messages /\ at[holder] = "running"
  BY HolderRuns
<1>b. NoMessage \notin Messages
  BY DispatchAssumption
<1>c. \A m : m \in Taken <=> \E d \in Messages : m \in covers[d]
  BY DEF Taken
<1>d. \A m : m \in Taken' <=> \E d \in Messages : m \in covers'[d]
  BY DEF Taken
<1>e. Taken \subseteq Arrived
  BY <1>0, <1>c DEF CoverInv
<1> USE <1>0, <1>a, <1>b, <1>c, <1>d, <1>e DEF TypeOK
<1>1. ASSUME UNCHANGED <<seq, holder, covers>>
      PROVE  UNCHANGED Turns!vars
  BY <1>1 DEF Turns!vars, Taken, Arrived
<1>2. ASSUME NEW m \in Messages, Arrive(m) PROVE Turns!Accept(m)
  <2>1. /\ Arrived' = Arrived \cup {m} /\ m \notin Arrived
        /\ covers' = covers /\ holder' = holder
    BY <1>2 DEF Arrive, turn, Arrived
  <2>2. Taken' = Taken
    BY <2>1 DEF Taken
  <2>3. Running \subseteq Taken
    BY <1>0 DEF Running, OneRunner
  <2> QED
    BY <2>1, <2>2, <2>3 DEF Turns!Accept, Running
<1>3. ASSUME NEW d \in Messages, Acquire(d)
      PROVE  \E S \in SUBSET (Arrived \ Taken) : Turns!Begin(S)
  <2>1. /\ holder = NoMessage /\ holder' = d /\ at[d] = "waiting" /\ seq' = seq
        /\ covers' = [covers EXCEPT ![d] = batch[d]]
    BY <1>3 DEF Acquire, table
  <2>2. /\ d \in batch[d] /\ covers[d] = {} /\ batch[d] \subseteq Arrived
        /\ batch[d] \cap Taken = {}
    BY <2>1 DEF BatchInv, CoverInv
  <2>3. Taken' = Taken \cup batch[d] /\ covers'[d] = batch[d]
    BY <2>1, <2>2
  <2>4. Arrived' = Arrived
    BY <2>1 DEF Arrived
  <2>5. Turns!Begin(batch[d])
    BY <2>1, <2>2, <2>3, <2>4 DEF Turns!Begin
  <2> QED
    BY <2>2, <2>5
<1>4. ASSUME Fold, phase # "idle", seq' = seq, holder' = holder, batch' = batch
      PROVE  \E S \in SUBSET (Arrived \ Taken) : Turns!Join(S)
  <2> DEFINE S == {m \in Messages : \E d \in Claimed : m \in batch[d]}
  <2>1. \A d \in Claimed : d \in Messages /\ at[d] = "waiting"
    BY DEF Claimed, InboxWaits
  <2>2. S \subseteq Arrived \ Taken
    BY <2>1 DEF BatchInv, CoverInv
  <2>3. covers'[holder] = covers[holder] \cup S
    BY <1>4, FoldEffect
  <2>4. \A d \in Messages : d # holder => covers'[d] = covers[d]
    BY <1>4, FoldEffect
  <2>a. holder \in Messages
    BY <1>4
  <2> HIDE DEF S
  <2>5. Taken' = Taken \cup S
    BY <2>3, <2>4, <2>a
  <2>6. covers[holder] # {} /\ covers[holder] \subseteq Taken /\ holder # NoMessage
    BY <1>4 DEF CoverInv
  <2>7. Arrived' = Arrived
    BY <1>4 DEF Arrived
  <2>8. Turns!Join(S)
    BY <1>4, <2>2, <2>3, <2>5, <2>6, <2>7 DEF Turns!Join
  <2> QED
    BY <2>2, <2>8
<1>5. ASSUME Store \/ TurnFails PROVE Turns!End
  <2>1. /\ phase # "idle" /\ holder' = NoMessage /\ covers' = covers /\ seq' = seq
    BY <1>5 DEF Store, TurnFails, Release, table
  <2>2. Taken' = Taken /\ Arrived' = Arrived
    BY <2>1 DEF Taken, Arrived
  <2>3. covers[holder] # {} /\ covers[holder] \subseteq Taken /\ holder # NoMessage
    BY <2>1 DEF CoverInv
  <2> QED
    BY <2>1, <2>2, <2>3 DEF Turns!End
<1>6. CASE \/ Flush \/ Load \/ UseTools \/ EndRound \/ Ask \/ AskEnds \/ AgentFails
           \/ Publish \/ UNCHANGED vars
           \/ \E d \in Messages : ExitFolded(d) \/ Interrupt(d) \/ Apologise(d)
  BY <1>1, <1>6 DEF Flush, Load, UseTools, EndRound, Ask, AskEnds, AgentFails,
     Publish, ExitFolded, Interrupt, Apologise, table, turn, vars
<1>7. CASE CallModel
  BY <1>4, <1>7 DEF CallModel, table, Turns!Next
<1>8. CASE Draft
  <2>1. CASE Fold
    BY <1>4, <1>8, <2>1 DEF Draft, table, Turns!Next
  <2>2. CASE UNCHANGED <<at, inbox, context, covers, round>>
    BY <1>1, <1>8, <2>2 DEF Draft, table
  <2> QED
    BY <1>8, <2>1, <2>2 DEF Draft
<1> QED
  BY <1>2, <1>3, <1>5, <1>6, <1>7, <1>8 DEF Next, TurnStep, Turns!Next

(* Batching, folding, interruption and failure implement sequential turns  *)
(* that take every message once.                                           *)
THEOREM Refinement == Spec => ImplementsTurns
<1>1. Init => Turns!Init
  BY DispatchAssumption DEF Init, Turns!Init, Taken, Arrived
<1>2. IInv /\ [Next]_vars => [Turns!Next]_Turns!vars
  BY StepRefines
<1> QED
  BY Invariant, <1>1, <1>2, PTL DEF Spec, ImplementsTurns, Turns!Spec

(* A message is in the batcher, in the queue for the lock, or in one turn, *)
(* and turns exclude one another (MessagesAccounted).                      *)
THEOREM Accounted == Spec => []MessagesAccounted
<1>1. IInv => MessagesAccounted
  BY DEF IInv, CoverInv, MessagesAccounted
<1> QED
  BY Invariant, <1>1, PTL
===============================================================================
