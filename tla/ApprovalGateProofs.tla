-------------------------- MODULE ApprovalGateProofs --------------------------
(***************************************************************************)
(* Proofs about ApprovalGate, for any number of asks, replies, polls,      *)
(* faults, crashes and peers.                                              *)
(***************************************************************************)
EXTENDS ApprovalGate, TLAPS

USE DEF Asks, Tasks, Decisions, ActivePc, Active, askVars, taskVars, workerVars

TypeInv == TypeOK /\ Linked

(* Every variable keeps its type, whatever the actors do; a task and the   *)
(* cleaner hold an ask exactly while they need one.                        *)
LEMMA TypeInvariant == Spec => []TypeInv
<1> USE GateAssumption
<1>1. Init => TypeInv
  BY DEF Init, TypeInv, TypeOK, Linked, Idle
<1>2. TypeInv /\ [Next]_vars => TypeInv'
  <2> SUFFICES ASSUME TypeInv, [Next]_vars PROVE TypeInv'
    OBVIOUS
  <2> USE DEF TypeInv, TypeOK, Linked, AuditRows, Fault, DeleteRow, Log
  <2>1. ASSUME NEW a \in Asks, Request(a) PROVE TypeInv'
    BY <2>1 DEF Request
  <2>2. ASSUME NEW a \in Asks, AskStep(a) PROVE TypeInv'
    <3>1. CASE PersistRow(a)   BY <3>1 DEF PersistRow
    <3>2. CASE Register(a)     BY <3>2 DEF Register
    <3>3. CASE PublishFails(a) BY <3>3 DEF PublishFails
    <3>4. CASE Wake(a)         BY <3>4 DEF Wake
    <3>5. CASE Expire(a)       BY <3>5 DEF Expire
    <3>6. CASE DropRow(a)      BY <3>6 DEF DropRow
    <3>7. CASE LogTimeout(a)   BY <3>7 DEF LogTimeout
    <3>8. QED BY <2>2, <3>1, <3>2, <3>3, <3>4, <3>5, <3>6, <3>7 DEF AskStep
  <2>3. ASSUME NEW a \in Asks, CancelTurn(a) PROVE TypeInv'
    BY <2>3 DEF CancelTurn
  <2>4. ASSUME NEW t \in Tasks, NEW d \in Decisions, BeginResolve(t, d),
               seen' \in [Tasks -> Asks \cup {NoAsk}]
        PROVE  TypeInv'
    BY <2>4 DEF BeginResolve
  <2>5. ASSUME NEW t \in Tasks, NEW d \in Decisions, ReplyKeyword(t, d)
        PROVE  TypeInv'
    BY <2>4, <2>5 DEF ReplyKeyword
  <2>6. ASSUME NEW t \in Tasks, ReplyClassify(t) PROVE TypeInv'
    BY <2>6 DEF ReplyClassify
  <2>7. ASSUME NEW t \in Tasks, Poll(t) PROVE TypeInv'
    BY <2>4, <2>7 DEF Poll
  <2>8. ASSUME NEW t \in Tasks, CancelPoll(t) PROVE TypeInv'
    BY <2>8 DEF CancelPoll
  <2>9. ASSUME NEW t \in Tasks, TaskStep(t) PROVE TypeInv'
    <3>1. ASSUME NEW d \in Decisions, Classified(t, d) PROVE TypeInv'
      BY <2>4, <3>1 DEF Classified
    <3>2. CASE ClassifiedAmbiguous(t)
      <4>1. CASE BeginResolve(t, Interrupted)
        BY <2>4, <3>2, <4>1 DEF ClassifiedAmbiguous
      <4>2. CASE CanReprompt /\ ~BeginResolve(t, Interrupted)
        BY <3>2, <4>2 DEF ClassifiedAmbiguous, CanReprompt
      <4>3. QED BY <3>2, <4>1, <4>2 DEF ClassifiedAmbiguous
    <3>3. CASE ResolveDelete(t) BY <3>3 DEF ResolveDelete
    <3>4. CASE ResolveLog(t)
      <4>1. target[t] \in Asks
        BY <3>4 DEF ResolveLog
      <4>2. QED BY <3>4, <4>1 DEF ResolveLog
    <3>5. CASE ResolveWake(t)   BY <3>5 DEF ResolveWake
    <3>6. QED BY <2>9, <3>1, <3>2, <3>3, <3>4, <3>5 DEF TaskStep
  <2>10. CASE Crash        BY <2>10 DEF Crash, Idle
  <2>11. CASE Boot         BY <2>11 DEF Boot, Snapshot, Idle
  <2>12. CASE PeerBoot     BY <2>12 DEF PeerBoot, Snapshot, Idle
  <2>13. CASE CleanerStep
    <3>1. CASE CleanerPublish BY <3>1 DEF CleanerPublish
    <3>2. CASE CleanerDelete  BY <3>2 DEF CleanerDelete
    <3>3. CASE CleanerLog     BY <3>3 DEF CleanerLog, Idle
    <3>4. CASE CleanerGivesUp BY <3>4 DEF CleanerGivesUp, Idle
    <3>5. QED BY <2>13, <3>1, <3>2, <3>3, <3>4 DEF CleanerStep
  <2>14. CASE UNCHANGED vars BY <2>14 DEF vars
  <2>15. QED
    BY <2>1, <2>2, <2>3, <2>5, <2>6, <2>7, <2>8, <2>9, <2>10, <2>11, <2>12,
       <2>13, <2>14 DEF Next
<1>3. QED BY <1>1, <1>2, PTL DEF Spec

(* TypeOK alone, as the runs check it.                                     *)
THEOREM TypeCorrect == Spec => []TypeOK
<1>1. TypeInv => TypeOK BY DEF TypeInv
<1>2. QED BY <1>1, TypeInvariant, PTL

-----------------------------------------------------------------------------
(* The gate never names an ask that returned, expired or crashed: every    *)
(* way out of "waiting" pops the entry, except the turn's cancellation.    *)
THEOREM GateNamesWaiter == Spec => []GatePointsAtWaiter
<1> USE GateAssumption
<1>1. Init => GatePointsAtWaiter
  BY DEF Init, GatePointsAtWaiter
<1>2. TypeInv /\ GatePointsAtWaiter /\ [Next]_vars => GatePointsAtWaiter'
  <2> SUFFICES ASSUME TypeInv, GatePointsAtWaiter, [Next]_vars
               PROVE  GatePointsAtWaiter'
    OBVIOUS
  <2> USE DEF TypeInv, TypeOK, GatePointsAtWaiter
  <2>1. ASSUME NEW a \in Asks, Request(a) PROVE GatePointsAtWaiter'
    BY <2>1 DEF Request
  <2>2. ASSUME NEW a \in Asks, AskStep(a) PROVE GatePointsAtWaiter'
    BY <2>2 DEF AskStep, PersistRow, Register, PublishFails, Wake, Expire,
                DropRow, LogTimeout
  <2>3. ASSUME NEW a \in Asks, CancelTurn(a) PROVE GatePointsAtWaiter'
    BY <2>3 DEF CancelTurn
  <2>4. ASSUME UNCHANGED <<pc, pending>> PROVE GatePointsAtWaiter'
    BY <2>4
  <2>5. ASSUME NEW t \in Tasks, NEW d \in Decisions, ReplyKeyword(t, d)
        PROVE  GatePointsAtWaiter'
    BY <2>4, <2>5 DEF ReplyKeyword, BeginResolve
  <2>6. ASSUME NEW t \in Tasks, ReplyClassify(t) \/ Poll(t) \/ CancelPoll(t)
        PROVE  GatePointsAtWaiter'
    BY <2>4, <2>6 DEF ReplyClassify, Poll, CancelPoll, BeginResolve
  <2>7. ASSUME NEW t \in Tasks, TaskStep(t) PROVE GatePointsAtWaiter'
    BY <2>4, <2>7 DEF TaskStep, Classified, ClassifiedAmbiguous, BeginResolve,
                      ResolveDelete, ResolveLog, ResolveWake
  <2>8. CASE Crash BY <2>8 DEF Crash
  <2>9. CASE Boot \/ PeerBoot \/ CleanerStep
    BY <2>4, <2>9 DEF Boot, PeerBoot, CleanerStep, CleanerPublish,
                      CleanerDelete, CleanerLog, CleanerGivesUp
  <2>10. CASE UNCHANGED vars BY <2>4, <2>10 DEF vars
  <2>11. QED
    BY <2>1, <2>2, <2>3, <2>5, <2>6, <2>7, <2>8, <2>9, <2>10 DEF Next
<1>3. QED BY <1>1, <1>2, TypeInvariant, PTL DEF Spec

-----------------------------------------------------------------------------
(* What no fault-free behaviour loses: a "requested" row for every ask     *)
(* that left "idle", and every reference to an ask is to such an ask.      *)
Started(a) == pc[a] # "idle"
RequestedRow(a) == \E q \in audit : q.ask = a /\ q.event = "requested"

AuditInv ==
  /\ row # NoAsk => Started(row)
  /\ cleaner.ask # NoAsk => Started(cleaner.ask)
  /\ \A t \in Tasks : target[t] # NoAsk => Started(target[t])
  /\ faults = 0 => \A a \in Asks : Started(a) => RequestedRow(a)
  /\ AuditOrder

(* The audit log of an ask starts with its "requested" row.                *)
THEOREM AuditOrdered == Spec => []AuditOrder
<1> USE GateAssumption DEF Started, RequestedRow
<1>1. Init => AuditInv
  BY DEF Init, AuditInv, AuditOrder, Idle
<1>2. TypeInv /\ GatePointsAtWaiter /\ AuditInv /\ [Next]_vars => AuditInv'
  <2> SUFFICES ASSUME TypeInv, GatePointsAtWaiter, AuditInv, [Next]_vars
               PROVE  AuditInv'
    OBVIOUS
  <2> USE DEF TypeInv, TypeOK, Linked, AuditInv, AuditOrder, Fault, DeleteRow
  <2>1. ASSUME NEW a \in Asks, Request(a) PROVE AuditInv'
    <3> DEFINE new == [ask |-> a, event |-> "requested", by |-> a]
    <3>1. /\ pc' = [pc EXCEPT ![a] = "requested"]
          /\ UNCHANGED <<row, cleaner, target>>
      BY <2>1 DEF Request
    <3>2. ASSUME faults' = 0
          PROVE  faults = 0 /\ audit' = audit \cup {new}
      BY <2>1, <3>2 DEF Request, Log
    <3>3. ASSUME faults' = 0, NEW b \in Asks, Started(b)'
          PROVE  RequestedRow(b)'
      <4>1. CASE b = a
        <5>1. new \in audit' /\ new.ask = b /\ new.event = "requested"
          BY <3>2, <3>3, <4>1
        <5>2. QED BY <5>1
      <4>2. CASE b # a BY <3>1, <3>2, <3>3, <4>2
      <4>3. QED BY <4>1, <4>2
    <3>4. AuditOrder'
      <4>1. ASSUME faults' = 0, NEW e \in audit'
            PROVE  \E q \in audit' : q.ask = e.ask /\ q.event = "requested"
        <5>1. CASE e \in audit BY <3>2, <4>1, <5>1
        <5>2. CASE e = new BY <3>2, <4>1, <5>2
        <5>3. QED BY <3>2, <4>1, <5>1, <5>2
      <4>2. QED BY <4>1
    <3>5. QED BY <3>1, <3>3, <3>4
  <2>2. ASSUME NEW a \in Asks, AskStep(a) PROVE AuditInv'
    <3>1. CASE PersistRow(a) BY <3>1 DEF PersistRow
    <3>2. CASE Register(a) \/ PublishFails(a) \/ Wake(a) \/ Expire(a)
      BY <3>2 DEF Register, PublishFails, Wake, Expire
    <3>3. CASE DropRow(a) BY <3>3 DEF DropRow
    <3>4. CASE LogTimeout(a) BY <3>4 DEF LogTimeout, Log
    <3>5. QED BY <2>2, <3>1, <3>2, <3>3, <3>4 DEF AskStep
  <2>3. ASSUME NEW a \in Asks, CancelTurn(a) PROVE AuditInv'
    BY <2>3 DEF CancelTurn
  <2>4. ASSUME NEW t \in Tasks, NEW d \in Decisions, BeginResolve(t, d)
        PROVE  AuditInv'
    BY <2>4 DEF BeginResolve, GatePointsAtWaiter
  <2>5. ASSUME NEW t \in Tasks, NEW d \in Decisions, ReplyKeyword(t, d)
        PROVE  AuditInv'
    BY <2>4, <2>5 DEF ReplyKeyword
  <2>6. ASSUME NEW t \in Tasks, ReplyClassify(t) \/ CancelPoll(t)
        PROVE  AuditInv'
    BY <2>6 DEF ReplyClassify, CancelPoll
  <2>7. ASSUME NEW t \in Tasks, Poll(t) PROVE AuditInv'
    BY <2>4, <2>7 DEF Poll
  <2>8. ASSUME NEW t \in Tasks, TaskStep(t) PROVE AuditInv'
    <3>1. CASE \E d \in Decisions : Classified(t, d)
      BY <2>4, <3>1 DEF Classified
    <3>2. CASE ClassifiedAmbiguous(t)
      BY <2>4, <3>2 DEF ClassifiedAmbiguous
    <3>3. CASE ResolveDelete(t) BY <3>3 DEF ResolveDelete
    <3>4. CASE ResolveLog(t) BY <3>4 DEF ResolveLog, Log
    <3>5. CASE ResolveWake(t) BY <3>5 DEF ResolveWake
    <3>6. QED BY <2>8, <3>1, <3>2, <3>3, <3>4, <3>5 DEF TaskStep
  <2>9. CASE Crash BY <2>9 DEF Crash, Idle
  <2>10. CASE Boot \/ PeerBoot BY <2>10 DEF Boot, PeerBoot, Snapshot, Idle
  <2>11. CASE CleanerStep
    <3>1. CASE CleanerLog BY <3>1 DEF CleanerLog, Log, Idle
    <3>2. CASE CleanerPublish \/ CleanerDelete \/ CleanerGivesUp
      BY <3>2 DEF CleanerPublish, CleanerDelete, CleanerGivesUp, Idle
    <3>3. QED BY <2>11, <3>1, <3>2 DEF CleanerStep
  <2>12. CASE UNCHANGED vars BY <2>12 DEF vars
  <2>13. QED
    BY <2>1, <2>2, <2>3, <2>5, <2>6, <2>7, <2>8, <2>9, <2>10, <2>11, <2>12
    DEF Next
<1>3. AuditInv => AuditOrder BY DEF AuditInv
<1>4. QED BY <1>1, <1>2, <1>3, TypeInvariant, GateNamesWaiter, PTL DEF Spec

-----------------------------------------------------------------------------
(* Why an answered ask has no row: it is registered, hence resolved, only  *)
(* after its one write of the row, and resolve() deletes before it wakes.  *)
Written(a) == pc[a] \notin {"idle", "requested"}

RowInv ==
  /\ \A a \in Asks : event[a] => Written(a)
  /\ \A t \in Tasks : target[t] # NoAsk => Written(target[t])
  /\ faults = 0 =>
       \A t \in Tasks : tpc[t] \in {"logging", "waking"} => row # target[t]
  /\ AnsweredRowGone

(* A woken ask has no pending_approvals row, unless a delete failed.       *)
THEOREM AnsweredRowsGone == Spec => []AnsweredRowGone
<1> USE GateAssumption DEF Written
<1>1. Init => RowInv
  BY DEF Init, RowInv, AnsweredRowGone
<1>2. TypeInv /\ GatePointsAtWaiter /\ RowInv /\ [Next]_vars => RowInv'
  <2> SUFFICES ASSUME TypeInv, GatePointsAtWaiter, RowInv, [Next]_vars
               PROVE  RowInv'
    OBVIOUS
  <2> USE DEF TypeInv, TypeOK, Linked, RowInv, AnsweredRowGone, Fault, DeleteRow
  <2>1. ASSUME NEW a \in Asks, Request(a) PROVE RowInv'
    BY <2>1 DEF Request, Log
  <2>2. ASSUME NEW a \in Asks, AskStep(a) PROVE RowInv'
    <3>1. CASE PersistRow(a) BY <3>1 DEF PersistRow
    <3>2. CASE Register(a) \/ PublishFails(a) \/ Wake(a) \/ Expire(a)
      BY <3>2 DEF Register, PublishFails, Wake, Expire
    <3>3. CASE DropRow(a) BY <3>3 DEF DropRow
    <3>4. CASE LogTimeout(a) BY <3>4 DEF LogTimeout, Log
    <3>5. QED BY <2>2, <3>1, <3>2, <3>3, <3>4 DEF AskStep
  <2>3. ASSUME NEW a \in Asks, CancelTurn(a) PROVE RowInv'
    BY <2>3 DEF CancelTurn
  <2>4. ASSUME NEW t \in Tasks, NEW d \in Decisions, BeginResolve(t, d)
        PROVE  RowInv'
    BY <2>4 DEF BeginResolve, GatePointsAtWaiter
  <2>5. ASSUME NEW t \in Tasks, NEW d \in Decisions, ReplyKeyword(t, d)
        PROVE  RowInv'
    BY <2>4, <2>5 DEF ReplyKeyword
  <2>6. ASSUME NEW t \in Tasks, ReplyClassify(t) \/ CancelPoll(t)
        PROVE  RowInv'
    BY <2>6 DEF ReplyClassify, CancelPoll
  <2>7. ASSUME NEW t \in Tasks, Poll(t) PROVE RowInv'
    BY <2>4, <2>7 DEF Poll
  <2>8. ASSUME NEW t \in Tasks, TaskStep(t) PROVE RowInv'
    <3>1. CASE \E d \in Decisions : Classified(t, d)
      BY <2>4, <3>1 DEF Classified
    <3>2. CASE ClassifiedAmbiguous(t)
      BY <2>4, <3>2 DEF ClassifiedAmbiguous
    <3>3. CASE ResolveDelete(t) BY <3>3 DEF ResolveDelete
    <3>4. CASE ResolveLog(t) BY <3>4 DEF ResolveLog, Log
    <3>5. CASE ResolveWake(t) BY <3>5 DEF ResolveWake
    <3>6. QED BY <2>8, <3>1, <3>2, <3>3, <3>4, <3>5 DEF TaskStep
  <2>9. CASE Crash BY <2>9 DEF Crash
  <2>10. CASE Boot \/ PeerBoot BY <2>10 DEF Boot, PeerBoot
  <2>11. CASE CleanerStep
    BY <2>11 DEF CleanerStep, CleanerLog, Log, CleanerPublish, CleanerDelete,
                 CleanerGivesUp
  <2>12. CASE UNCHANGED vars BY <2>12 DEF vars
  <2>13. QED
    BY <2>1, <2>2, <2>3, <2>5, <2>6, <2>7, <2>8, <2>9, <2>10, <2>11, <2>12
    DEF Next
<1>3. RowInv => AnsweredRowGone BY DEF RowInv
<1>4. QED BY <1>1, <1>2, <1>3, TypeInvariant, GateNamesWaiter, PTL DEF Spec

-----------------------------------------------------------------------------
(* Asks of one requester do not overlap, so as long as heartbeat turns ask *)
(* for nothing a registered ask stays registered until it stops waiting.   *)
AloneInv ==
  /\ \A a, b \in Asks : Active(a) /\ Active(b) => a = b
  /\ WaiterReachable

(* Without heartbeat asks, resolve() reaches every ask that waits.         *)
THEOREM WaitersReachable ==
  ASSUME BeatAsks = {}
  PROVE  Spec => []WaiterReachable
<1> USE GateAssumption, BeatAsks = {}
<1>1. Init => AloneInv
  BY DEF Init, AloneInv, WaiterReachable
<1>2. TypeInv /\ AloneInv /\ [Next]_vars => AloneInv'
  <2> SUFFICES ASSUME TypeInv, AloneInv, [Next]_vars
               PROVE  AloneInv'
    OBVIOUS
  <2> USE DEF TypeInv, TypeOK, AloneInv, WaiterReachable
  <2>1. ASSUME NEW a \in Asks, Request(a) PROVE AloneInv'
    BY <2>1 DEF Request, SameRequester
  <2>2. ASSUME NEW a \in Asks, AskStep(a) PROVE AloneInv'
    BY <2>2 DEF AskStep, PersistRow, Register, PublishFails, Wake, Expire,
                DropRow, LogTimeout
  <2>3. ASSUME NEW a \in Asks, CancelTurn(a) PROVE AloneInv'
    BY <2>3 DEF CancelTurn
  <2>4. ASSUME UNCHANGED <<pc, pending>> PROVE AloneInv'
    BY <2>4
  <2>5. ASSUME NEW t \in Tasks, NEW d \in Decisions, ReplyKeyword(t, d)
        PROVE  AloneInv'
    BY <2>4, <2>5 DEF ReplyKeyword, BeginResolve
  <2>6. ASSUME NEW t \in Tasks, ReplyClassify(t) \/ Poll(t) \/ CancelPoll(t)
        PROVE  AloneInv'
    BY <2>4, <2>6 DEF ReplyClassify, Poll, CancelPoll, BeginResolve
  <2>7. ASSUME NEW t \in Tasks, TaskStep(t) PROVE AloneInv'
    BY <2>4, <2>7 DEF TaskStep, Classified, ClassifiedAmbiguous, BeginResolve,
                      ResolveDelete, ResolveLog, ResolveWake
  <2>8. CASE Crash BY <2>8 DEF Crash
  <2>9. CASE Boot \/ PeerBoot \/ CleanerStep
    BY <2>4, <2>9 DEF Boot, PeerBoot, CleanerStep, CleanerPublish,
                      CleanerDelete, CleanerLog, CleanerGivesUp
  <2>10. CASE UNCHANGED vars BY <2>4, <2>10 DEF vars
  <2>11. QED
    BY <2>1, <2>2, <2>3, <2>5, <2>6, <2>7, <2>8, <2>9, <2>10 DEF Next
<1>3. AloneInv => WaiterReachable BY DEF AloneInv
<1>4. QED BY <1>1, <1>2, <1>3, TypeInvariant, PTL DEF Spec

-----------------------------------------------------------------------------
(* A decision is always one that some task passed to resolve() for that    *)
(* very ask, and an ask has no outcome before it stops waiting.            *)
AnsweredBy(a, d) == \E t \in Tasks : target[t] = a /\ choice[t] = d

AnswerInv ==
  /\ \A a \in Asks : decision[a] # NoDecision => AnsweredBy(a, decision[a])
  /\ \A a \in Asks : outcome[a] \notin {NoDecision, Denied} =>
                      AnsweredBy(a, outcome[a])
  /\ \A a \in Asks : pc[a] \in {"idle", "requested", "persisted", "waiting"} =>
                      outcome[a] = NoDecision
  /\ \A t \in Polls : target[t] # NoAsk => choice[t] = Interrupted

(* resolve() on entry: the one place where a decision is recorded.         *)
LEMMA BeginResolveAnswers ==
  ASSUME TypeInv, AnswerInv, NEW t \in Tasks, NEW d \in Decisions,
         BeginResolve(t, d), tpc[t] \in {"idle", "classifying"},
         t \in Polls => d = Interrupted
  PROVE  AnswerInv'
<1> USE GateAssumption DEF TypeInv, TypeOK, Linked, AnsweredBy
<1>1. target[t] = NoAsk
  OBVIOUS
<1>2. ASSUME NEW a \in Asks, NEW e \in Decisions, AnsweredBy(a, e)
      PROVE  AnsweredBy(a, e)'
  <2>1. PICK u \in Tasks : target[u] = a /\ choice[u] = e
    BY <1>2
  <2>2. u # t
    BY <1>1, <2>1
  <2>3. target'[u] = a /\ choice'[u] = e
    BY <2>1, <2>2 DEF BeginResolve
  <2>4. QED BY <2>3
<1>3. UNCHANGED <<outcome, pc>>
  BY DEF BeginResolve
<1>4. ASSUME NEW a \in Asks, decision'[a] # NoDecision
      PROVE  AnsweredBy(a, decision[a])'
  <2>1. CASE decision'[a] = decision[a]
    BY <1>2, <1>4, <2>1 DEF AnswerInv
  <2>2. CASE decision'[a] # decision[a]
    <3>1. decision'[a] = d /\ target'[t] = a /\ choice'[t] = d
      BY <2>2 DEF BeginResolve
    <3>2. decision'[a] = d /\ t \in Tasks
      BY <3>1
    <3>3. QED BY <3>1, <3>2
  <2>3. QED BY <2>1, <2>2
<1>5. \A a \in Asks : outcome'[a] \notin {NoDecision, Denied} =>
        AnsweredBy(a, outcome[a])'
  <2> SUFFICES ASSUME NEW a \in Asks, outcome[a] \notin {NoDecision, Denied}
               PROVE  AnsweredBy(a, outcome[a])'
    BY <1>3
  <2>1. outcome[a] \in Decisions /\ outcome'[a] = outcome[a]
    BY <1>3
  <2>2. AnsweredBy(a, outcome[a])
    BY DEF AnswerInv
  <2>3. PICK u \in Tasks : target[u] = a /\ choice[u] = outcome[a]
    BY <2>2
  <2>4. u # t
    BY <1>1, <2>3
  <2>5. target'[u] = a /\ choice'[u] = outcome'[a]
    BY <2>1, <2>3, <2>4 DEF BeginResolve
  <2>6. QED BY <2>5
<1>6. \A u \in Polls : target'[u] # NoAsk => choice'[u] = Interrupted
  BY DEF AnswerInv, BeginResolve
<1>7. QED BY <1>3, <1>4, <1>5, <1>6 DEF AnswerInv

LEMMA AnswersRecorded == Spec => []AnswerInv
<1> USE GateAssumption
<1>1. Init => AnswerInv
  BY DEF Init, AnswerInv
<1>2. TypeInv /\ AnswerInv /\ [Next]_vars => AnswerInv'
  <2> SUFFICES ASSUME TypeInv, AnswerInv, [Next]_vars
               PROVE  AnswerInv'
    OBVIOUS
  <2> USE DEF TypeInv, TypeOK, Linked
  <2>1. ASSUME UNCHANGED <<decision, outcome, target, choice>>,
               \A a \in Asks : pc'[a] \in {"idle", "requested", "persisted",
                 "waiting"} => pc[a] \in {"idle", "requested", "persisted",
                 "waiting"}
        PROVE  AnswerInv'
    BY <2>1 DEF AnswerInv, AnsweredBy
  <2>2. ASSUME NEW a \in Asks, Request(a) \/ CancelTurn(a) PROVE AnswerInv'
    BY <2>1, <2>2 DEF Request, CancelTurn
  <2>3. ASSUME NEW a \in Asks, AskStep(a) PROVE AnswerInv'
    <3>1. CASE PersistRow(a) \/ Register(a) \/ DropRow(a) \/ LogTimeout(a)
      BY <2>1, <3>1 DEF PersistRow, Register, DropRow, LogTimeout
    <3>2. CASE PublishFails(a) \/ Expire(a)
      BY <3>2 DEF PublishFails, Expire, AnswerInv, AnsweredBy
    <3>3. CASE Wake(a)
      <4>1. UNCHANGED <<decision, target, choice>>
        BY <3>3 DEF Wake
      <4>2. outcome'[a] = IF decision[a] = NoDecision THEN Denied ELSE decision[a]
        BY <3>3 DEF Wake
      <4>3. \A b \in Asks : b # a => outcome'[b] = outcome[b] /\ pc'[b] = pc[b]
        BY <3>3 DEF Wake
      <4>4. pc'[a] = "closing"
        BY <3>3 DEF Wake
      <4>5. QED BY <4>1, <4>2, <4>3, <4>4 DEF AnswerInv, AnsweredBy
    <3>4. QED BY <2>3, <3>1, <3>2, <3>3 DEF AskStep
  <2>4. ASSUME NEW t \in Tasks, NEW d \in Decisions, ReplyKeyword(t, d)
        PROVE  AnswerInv'
    BY <2>4, BeginResolveAnswers DEF ReplyKeyword
  <2>5. ASSUME NEW t \in Tasks, ReplyClassify(t) \/ CancelPoll(t)
        PROVE  AnswerInv'
    BY <2>1, <2>5 DEF ReplyClassify, CancelPoll
  <2>6. ASSUME NEW t \in Tasks, Poll(t) PROVE AnswerInv'
    BY <2>6, BeginResolveAnswers DEF Poll
  <2>7. ASSUME NEW t \in Tasks, TaskStep(t) PROVE AnswerInv'
    <3>1. ASSUME NEW d \in Decisions, Classified(t, d) PROVE AnswerInv'
      BY <3>1, BeginResolveAnswers DEF Classified
    <3>2. CASE ClassifiedAmbiguous(t)
      <4>1. CASE BeginResolve(t, Interrupted)
        BY <3>2, <4>1, BeginResolveAnswers DEF ClassifiedAmbiguous
      <4>2. CASE CanReprompt /\ ~BeginResolve(t, Interrupted)
        BY <2>1, <3>2, <4>2 DEF ClassifiedAmbiguous
      <4>3. QED BY <3>2, <4>1, <4>2 DEF ClassifiedAmbiguous
    <3>3. CASE ResolveDelete(t) \/ ResolveLog(t) \/ ResolveWake(t)
      BY <2>1, <3>3 DEF ResolveDelete, ResolveLog, ResolveWake
    <3>4. QED BY <2>7, <3>1, <3>2, <3>3 DEF TaskStep
  <2>8. CASE Crash BY <2>1, <2>8 DEF Crash
  <2>9. CASE Boot \/ PeerBoot \/ CleanerStep
    BY <2>1, <2>9 DEF Boot, PeerBoot, CleanerStep, CleanerPublish,
                      CleanerDelete, CleanerLog, CleanerGivesUp
  <2>10. CASE UNCHANGED vars BY <2>1, <2>10 DEF vars
  <2>11. QED
    BY <2>2, <2>3, <2>4, <2>5, <2>6, <2>7, <2>8, <2>9, <2>10 DEF Next
<1>3. QED BY <1>1, <1>2, TypeInvariant, PTL DEF Spec

(* A tool runs only on a reply of the user that took this very ask.        *)
THEOREM GrantsNeedReplies == Spec => []GrantNeedsReply
<1>1. TypeInv /\ AnswerInv => GrantNeedsReply
  <2> SUFFICES ASSUME TypeInv, AnswerInv, NEW a \in Asks, outcome[a] \in Grants
               PROVE  \E t \in Replies : target[t] = a /\ choice[t] = outcome[a]
    BY DEF GrantNeedsReply
  <2>1. outcome[a] \notin {NoDecision, Denied, Interrupted}
    BY GateAssumption
  <2>2. PICK t \in Tasks : target[t] = a /\ choice[t] = outcome[a]
    BY <2>1 DEF AnswerInv, AnsweredBy
  <2>3. t \notin Polls
    BY <2>1, <2>2, GateAssumption DEF AnswerInv
  <2>4. QED BY <2>2, <2>3
<1>2. QED BY <1>1, TypeInvariant, AnswersRecorded, PTL

(* Memory, row and audit log agree on every ask (GateSound).               *)
THEOREM GateIsSound == Spec => []GateSound
<1>1. AuditOrder /\ AnsweredRowGone /\ GatePointsAtWaiter => GateSound
  BY DEF GateSound
<1>2. QED BY <1>1, AuditOrdered, AnsweredRowsGone, GateNamesWaiter, PTL

-----------------------------------------------------------------------------
(* The contract of the agent loop                                          *)

(* An ask that returns hands back a decision that was answered to it, or   *)
(* Denied, and it has returned nothing before.                             *)
LEMMA ReturnRefines ==
  ASSUME TypeInv, AnswerInv, NEW a \in Asks, NEW d \in Decisions,
         pc[a] \in {"persisted", "waiting"}, d = Denied \/ AnsweredBy(a, d),
         outcome' = [outcome EXCEPT ![a] = d], UNCHANGED <<target, choice>>
  PROVE  Contract!Return(a)
<1>1. outcome[a] = NoDecision
  BY DEF AnswerInv
<1>2. Answered' = Answered
  BY DEF Answered
<1>3. d \in Answered[a] \cup {Denied}
  BY DEF Answered, AnsweredBy
<1>4. QED BY <1>1, <1>2, <1>3 DEF Contract!Return

(* resolve() on entry is an answer to the ask that is pending, or nothing  *)
(* when there is none.                                                     *)
LEMMA ResolveRefines ==
  ASSUME TypeInv, NEW t \in Tasks, NEW d \in Decisions, BeginResolve(t, d),
         tpc[t] \in {"idle", "classifying"}
  PROVE  (\E a \in Asks : Contract!Answer(a, d)) \/ UNCHANGED Contract!contractVars
<1> USE GateAssumption
<1>1. /\ target[t] = NoAsk /\ choice' = [choice EXCEPT ![t] = d] /\ UNCHANGED outcome
      /\ choice \in [Tasks -> Decisions \cup {NoDecision}]
      /\ target \in [Tasks -> Asks \cup {NoAsk}]
  BY DEF TypeInv, TypeOK, Linked, BeginResolve
<1>2. CASE UNCHANGED target
  <2>1. \A a \in Asks : {u \in Tasks : target'[u] = a} = {u \in Tasks : target[u] = a}
    BY <1>2
  <2>2. \A a \in Asks : \A u \in Tasks : target[u] = a => choice'[u] = choice[u]
    BY <1>1
  <2>3. Answered' = Answered
    BY <2>1, <2>2 DEF Answered
  <2>4. QED BY <1>1, <2>3 DEF Contract!contractVars
<1>3. CASE pending # NoAsk /\ target' = [target EXCEPT ![t] = pending]
  <2>1. pending \in Asks
    BY <1>3 DEF TypeInv, TypeOK
  <2>2. ASSUME NEW a \in Asks
        PROVE  {choice'[u] : u \in {w \in Tasks : target'[w] = a}}
               = {choice[u] : u \in {w \in Tasks : target[w] = a}}
                   \cup (IF a = pending THEN {d} ELSE {})
    <3>1. \A u \in Tasks \ {t} : target'[u] = target[u] /\ choice'[u] = choice[u]
      BY <1>1, <1>3
    <3>2. target'[t] = pending /\ choice'[t] = d /\ target[t] # a
      BY <1>1, <1>3
    <3>3. QED BY <3>1, <3>2
  <2>3. Answered' = [Answered EXCEPT ![pending] = @ \cup {d}]
    BY <2>1, <2>2 DEF Answered
  <2>4. QED BY <1>1, <2>1, <2>3 DEF Contract!Answer
<1>4. QED BY <1>2, <1>3 DEF BeginResolve

(* How each step looks to the agent loop.                                  *)
LEMMA StepRefines ==
  ASSUME TypeInv, AnswerInv, [Next]_vars
  PROVE  [Contract!ContractNext]_(Contract!contractVars)
<1> USE GateAssumption
<1>1. ASSUME UNCHANGED <<target, choice, outcome>>
      PROVE  UNCHANGED Contract!contractVars
  BY <1>1 DEF Answered, Contract!contractVars
<1>2. ASSUME NEW a \in Asks, AskStep(a) PROVE [Contract!ContractNext]_(Contract!contractVars)
  <2>1. CASE PersistRow(a) \/ Register(a) \/ DropRow(a) \/ LogTimeout(a)
    BY <1>1, <2>1 DEF PersistRow, Register, DropRow, LogTimeout
  <2>2. CASE PublishFails(a) \/ Expire(a)
    <3>1. /\ pc[a] \in {"persisted", "waiting"} /\ UNCHANGED <<target, choice>>
          /\ outcome' = [outcome EXCEPT ![a] = Denied]
      BY <2>2 DEF PublishFails, Expire
    <3>2. Denied \in Decisions
      BY DEF Decisions
    <3>3. Contract!Return(a)
      BY <3>1, <3>2, ReturnRefines
    <3>4. QED BY <3>3 DEF Contract!ContractNext
  <2>3. CASE Wake(a)
    <3>1. /\ pc[a] \in {"persisted", "waiting"} /\ UNCHANGED <<target, choice>>
          /\ \E d \in Decisions : /\ d = Denied \/ AnsweredBy(a, d)
                                 /\ outcome' = [outcome EXCEPT ![a] = d]
      BY <2>3 DEF Wake, AnswerInv, TypeInv, TypeOK, Decisions
    <3>2. PICK d \in Decisions : /\ d = Denied \/ AnsweredBy(a, d)
                                 /\ outcome' = [outcome EXCEPT ![a] = d]
      BY <3>1
    <3>3. Contract!Return(a)
      BY <3>1, <3>2, ReturnRefines
    <3>4. QED BY <3>3 DEF Contract!ContractNext
  <2>4. QED BY <1>2, <2>1, <2>2, <2>3 DEF AskStep
<1>3. ASSUME NEW t \in Tasks, NEW d \in Decisions, BeginResolve(t, d),
             tpc[t] \in {"idle", "classifying"}
      PROVE  [Contract!ContractNext]_(Contract!contractVars)
  BY <1>3, ResolveRefines DEF Contract!ContractNext
<1>4. ASSUME NEW t \in Tasks,
             TaskStep(t) \/ Poll(t) \/ \E d \in Decisions : ReplyKeyword(t, d)
      PROVE  [Contract!ContractNext]_(Contract!contractVars)
  <2>1. CASE ResolveDelete(t) \/ ResolveLog(t) \/ ResolveWake(t)
    BY <1>1, <2>1 DEF ResolveDelete, ResolveLog, ResolveWake
  <2>2. CASE \E d \in Decisions : Classified(t, d) \/ ReplyKeyword(t, d)
    BY <1>3, <2>2 DEF Classified, ReplyKeyword
  <2>3. CASE Poll(t)
    BY <1>3, <2>3 DEF Poll
  <2>4. CASE ClassifiedAmbiguous(t)
    <3>1. CASE BeginResolve(t, Interrupted)
      BY <1>3, <2>4, <3>1 DEF ClassifiedAmbiguous
    <3>2. CASE ~BeginResolve(t, Interrupted)
      BY <1>1, <2>4, <3>2 DEF ClassifiedAmbiguous
    <3>3. QED BY <3>1, <3>2
  <2>5. QED BY <1>4, <2>1, <2>2, <2>3, <2>4 DEF TaskStep
<1>5. CASE \/ \E a \in Asks : Request(a) \/ CancelTurn(a)
           \/ \E t \in Tasks : ReplyClassify(t) \/ CancelPoll(t)
           \/ Crash \/ Boot \/ PeerBoot \/ UNCHANGED vars
  <2>1. UNCHANGED <<target, choice, outcome>>
    BY <1>5 DEF Request, CancelTurn, ReplyClassify, CancelPoll, Crash, Boot, PeerBoot, vars
  <2>2. QED BY <1>1, <2>1
<1>6. CASE CleanerStep
  <2>1. UNCHANGED <<target, choice, outcome>>
    BY <1>6 DEF CleanerStep, CleanerPublish, CleanerDelete, CleanerLog, CleanerGivesUp
  <2>2. QED BY <1>1, <2>1
<1>7. QED BY <1>2, <1>4, <1>5, <1>6 DEF Next

(* The gate keeps its promise to the agent loop: an ask returns once, with *)
(* a decision that was answered to this ask or with Denied.                *)
THEOREM GateRefines == Spec => ImplementsContract
<1>1. Init => Contract!ContractInit
  <2> SUFFICES ASSUME Init PROVE Contract!ContractInit
    OBVIOUS
  <2>1. \A a \in Asks : {t \in Tasks : target[t] = a} = {}
    BY GateAssumption DEF Init
  <2>2. Answered = [a \in Asks |-> {}]
    BY <2>1 DEF Answered
  <2>3. outcome = [a \in Asks |-> NoDecision]
    BY DEF Init
  <2>4. QED BY <2>2, <2>3 DEF Contract!ContractInit
<1>2. TypeInv /\ AnswerInv /\ [Next]_vars => [Contract!ContractNext]_(Contract!contractVars)
  BY StepRefines
<1>3. QED BY <1>1, <1>2, TypeInvariant, AnswersRecorded, PTL
         DEF Spec, ImplementsContract, Contract!ContractSpec
-----------------------------------------------------------------------------
(* Notices of interrupted approvals                                        *)

(* Without peers the clean-up has the database to itself: nothing runs     *)
(* unless the worker is up, the row that the clean-up reports is the one   *)
(* it read, and the row is of an ask that did not return.                  *)
Unlisted == {"idle", "requested", "expired", "done"}
NoticeInv ==
  /\ worker # "up" =>
       /\ \A a \in Asks : ~Active(a)
       /\ \A t \in Tasks : tpc[t] \in {"idle", "done"}
  /\ worker = "up" => cleaner.at = "idle"
  /\ cleaner.at = "publishing" => cleaner.ask = row
  /\ faults = 0 => \A a \in Asks : pc[a] \in Unlisted => row # a

LEMMA NoticeInductive ==
  ASSUME MaxPeerBoots = 0
  PROVE  Spec => []NoticeInv
<1> USE GateAssumption, MaxPeerBoots = 0 DEF Unlisted
<1>1. Init => NoticeInv
  BY DEF Init, NoticeInv, Idle
<1>2. TypeInv /\ NoticeInv /\ [Next]_vars => NoticeInv'
  <2> SUFFICES ASSUME TypeInv, NoticeInv, [Next]_vars PROVE NoticeInv'
    OBVIOUS
  <2> USE DEF TypeInv, TypeOK, Linked, NoticeInv, Fault, DeleteRow
  <2>1. ASSUME NEW a \in Asks, Request(a) \/ CancelTurn(a) PROVE NoticeInv'
    BY <2>1 DEF Request, CancelTurn, Log
  <2>2. ASSUME NEW a \in Asks, AskStep(a) PROVE NoticeInv'
    <3>1. worker = "up"
      BY <2>2 DEF AskStep, PersistRow, Register, PublishFails, Wake, Expire,
                  DropRow, LogTimeout
    <3>2. CASE PersistRow(a) \/ DropRow(a)
      BY <3>1, <3>2 DEF PersistRow, DropRow
    <3>3. CASE Register(a) \/ PublishFails(a) \/ Wake(a) \/ Expire(a)
      BY <3>1, <3>3 DEF Register, PublishFails, Wake, Expire
    <3>4. CASE LogTimeout(a)
      BY <3>1, <3>4 DEF LogTimeout, Log
    <3>5. QED BY <2>2, <3>2, <3>3, <3>4 DEF AskStep
  <2>3. ASSUME NEW t \in Tasks, NEW d \in Decisions, BeginResolve(t, d),
               worker = "up"
        PROVE  NoticeInv'
    BY <2>3 DEF BeginResolve
  <2>4. ASSUME NEW t \in Tasks,
               \/ \E d \in Decisions : ReplyKeyword(t, d)
               \/ ReplyClassify(t) \/ Poll(t) \/ CancelPoll(t)
        PROVE  NoticeInv'
    <3>1. worker = "up"
      BY <2>4 DEF ReplyKeyword, ReplyClassify, Poll, CancelPoll
    <3>2. CASE ReplyClassify(t) \/ CancelPoll(t)
      BY <3>1, <3>2 DEF ReplyClassify, CancelPoll
    <3>3. CASE Poll(t) \/ \E d \in Decisions : ReplyKeyword(t, d)
      BY <2>3, <3>1, <3>3 DEF Poll, ReplyKeyword
    <3>4. QED BY <2>4, <3>2, <3>3
  <2>5. ASSUME NEW t \in Tasks, TaskStep(t) PROVE NoticeInv'
    <3>1. worker = "up"
      BY <2>5 DEF TaskStep, Classified, ClassifiedAmbiguous, ResolveDelete,
                  ResolveLog, ResolveWake
    <3>2. CASE (\E d \in Decisions : Classified(t, d)) \/ ClassifiedAmbiguous(t)
      BY <2>3, <3>1, <3>2 DEF Classified, ClassifiedAmbiguous
    <3>3. CASE ResolveDelete(t) BY <3>1, <3>3 DEF ResolveDelete
    <3>4. CASE ResolveLog(t) \/ ResolveWake(t)
      BY <3>1, <3>4 DEF ResolveLog, ResolveWake, Log
    <3>5. QED BY <2>5, <3>2, <3>3, <3>4 DEF TaskStep
  <2>6. CASE Crash BY <2>6 DEF Crash, Idle
  <2>7. CASE Boot BY <2>7 DEF Boot, Snapshot, Idle
  <2>8. CASE PeerBoot BY <2>8 DEF PeerBoot
  <2>9. CASE CleanerStep
    <3>1. CASE CleanerPublish BY <3>1 DEF CleanerPublish
    <3>2. CASE CleanerDelete BY <3>2 DEF CleanerDelete
    <3>3. CASE CleanerLog BY <3>3 DEF CleanerLog, Idle, Log
    <3>4. CASE CleanerGivesUp BY <3>4 DEF CleanerGivesUp, Idle
    <3>5. QED BY <2>9, <3>1, <3>2, <3>3, <3>4 DEF CleanerStep
  <2>10. CASE UNCHANGED vars BY <2>10 DEF vars
  <2>11. QED
    BY <2>1, <2>2, <2>4, <2>5, <2>6, <2>7, <2>8, <2>9, <2>10 DEF Next
<1>3. QED BY <1>1, <1>2, TypeInvariant, PTL DEF Spec

(* Without a rolling restart, the user is told that an approval was        *)
(* interrupted only if its turn is gone and it was not answered.           *)
THEOREM NoticesAreTrue ==
  ASSUME MaxPeerBoots = 0
  PROVE  Spec => NoticeIsTrue
<1> USE GateAssumption
<1>1. TypeInv /\ NoticeInv /\ AnsweredRowGone /\ [Next]_vars =>
        [\A a \in notified' \ notified :
           faults = 0 => pc[a] \in {"lost", "cancelled"} /\ ~event[a]]_vars
  <2> SUFFICES ASSUME TypeInv, NoticeInv, AnsweredRowGone, Next,
                      NEW a \in notified' \ notified, faults = 0
               PROVE  pc[a] \in {"lost", "cancelled"} /\ ~event[a]
    OBVIOUS
  <2>1. CASE CleanerPublish
    <3>1. a = row /\ a \in Asks /\ worker # "up"
      BY <2>1 DEF CleanerPublish, TypeInv, TypeOK, Linked, NoticeInv
    <3>2. QED BY <3>1 DEF NoticeInv, Unlisted, AnsweredRowGone, TypeInv, TypeOK
  <2>2. CASE notified' = notified
    BY <2>2
  <2>3. ASSUME NEW b \in Asks, Request(b) \/ AskStep(b) \/ CancelTurn(b)
        PROVE  notified' = notified
    BY <2>3 DEF Request, CancelTurn, AskStep, PersistRow, Register, PublishFails,
                Wake, Expire, DropRow, LogTimeout
  <2>4. ASSUME NEW t \in Tasks,
               \/ \E d \in Decisions : ReplyKeyword(t, d)
               \/ ReplyClassify(t) \/ Poll(t) \/ CancelPoll(t) \/ TaskStep(t)
        PROVE  notified' = notified
    BY <2>4 DEF ReplyKeyword, ReplyClassify, Poll, CancelPoll, TaskStep, Classified,
                ClassifiedAmbiguous, BeginResolve, ResolveDelete, ResolveLog,
                ResolveWake
  <2>5. CASE Crash \/ Boot \/ PeerBoot \/ CleanerDelete \/ CleanerLog \/ CleanerGivesUp
    BY <2>2, <2>5 DEF Crash, Boot, PeerBoot, CleanerDelete, CleanerLog, CleanerGivesUp
  <2>6. QED BY <2>1, <2>2, <2>3, <2>4, <2>5 DEF Next, CleanerStep
<1>2. QED BY <1>1, NoticeInductive, AnsweredRowsGone, TypeInvariant, PTL
         DEF Spec, NoticeIsTrue
===============================================================================
