------------------------ MODULE InboundRecoveryProofs ------------------------
(* The safety of crash recovery for every set of messages and any number   *)
(* of crashes, heartbeats and failed intakes.                              *)
EXTENDS InboundRecovery, TLAPS

-----------------------------------------------------------------------------
(* The inductive invariant                                                 *)

(* A key comes before the row it guards, and a message in the intake has   *)
(* no row yet.                                                             *)
RowsInv ==
  /\ PersistedOnce
  /\ intake \cap Persisted = {}
  /\ intake \cup Persisted \subseteq seen
  /\ \A r \in inbound : r.seq <= top
  /\ \A o \in outbound : o.seq <= top

(* The places a message waits in for its turn do not overlap.              *)
Waiting == pending \cup orphans \cup Batches
Disjoint == \A i, j \in DOMAIN queue : i # j => queue[i].batch \cap queue[j].batch = {}

WaitInv ==
  /\ Waiting \subseteq Persisted /\ \A m \in Waiting : turns[m] = 0
  /\ covers \subseteq Persisted /\ \A m \in covers : turns[m] = 1
  /\ \A m \in Messages : turns[m] # 0 => m \in Persisted
  /\ pending \cap orphans = {} /\ Batches \cap (pending \cup orphans) = {}
  /\ Disjoint
  /\ phase = "idle" => covers = {}

(* Before the sweep, what this worker has taken on is younger than the     *)
(* freshness floor; a dead worker has taken nothing on.                    *)
FreshInv ==
  /\ up = "starting" => orphans = {}
  /\ up = "starting" =>
       \A m \in Messages : m \in Waiting \/ turns[m] # 0 => age[m] = "fresh"
  /\ up = "down" => \A m \in Messages : turns[m] = 0

(* What a stored reply answers is older than the reply, and is not waiting *)
(* for another one.                                                        *)
ReplyInv ==
  /\ StoredReplyOnce
  /\ \A o \in outbound : \A m \in o.for :
       /\ \E r \in inbound : r.msg = m /\ r.seq < o.seq
       /\ m \notin Waiting \cup covers

IInv == TypeOK /\ OneTurnPerWorker /\ RowsInv /\ WaitInv /\ FreshInv /\ ReplyInv

-----------------------------------------------------------------------------
(* Queues                                                                  *)

Entries == [own : Messages, batch : SUBSET Messages]

LEMMA AppendEntry ==
  ASSUME NEW q \in Seq(Entries), NEW e \in Entries
  PROVE  /\ Append(q, e) \in Seq(Entries)
         /\ DOMAIN Append(q, e) = DOMAIN q \cup {Len(q) + 1}
         /\ Len(q) + 1 \notin DOMAIN q
         /\ \A i \in DOMAIN q : Append(q, e)[i] = q[i]
         /\ Append(q, e)[Len(q) + 1] = e
  OBVIOUS

LEMMA TailEntries ==
  ASSUME NEW q \in Seq(Entries), q # << >>
  PROVE  /\ Tail(q) \in Seq(Entries)
         /\ Head(q) \in Entries /\ Head(q) = q[1] /\ 1 \in DOMAIN q
         /\ \A i \in DOMAIN Tail(q) :
              i + 1 \in DOMAIN q /\ i + 1 # 1 /\ Tail(q)[i] = q[i + 1]
         /\ \A i, j \in DOMAIN Tail(q) : i # j => i + 1 # j + 1
  OBVIOUS

LEMMA BatchMembers ==
  /\ \A m : m \in Batches <=> \E i \in DOMAIN queue : m \in queue[i].batch
  /\ \A m : m \in Batches' <=> \E i \in DOMAIN queue' : m \in queue'[i].batch
  BY DEF Batches

LEMMA PersistedMembers ==
  /\ \A m : m \in Persisted <=> \E r \in inbound : r.msg = m
  /\ \A m : m \in Persisted' <=> \E r \in inbound' : r.msg = m
  BY DEF Persisted

LEMMA PersistRow ==
  ASSUME NEW m, Persist(m)
  PROVE  Persisted' = Persisted \cup {m}
<1> DEFINE row == [msg |-> m, seq |-> top + 1]
<1>1. inbound' = inbound \cup {row}
  BY DEF Persist
<1>2. row.msg = m
  OBVIOUS
<1> HIDE DEF row
<1>3. ASSUME NEW x \in Persisted' PROVE x \in Persisted \cup {m}
  <2>1. PICK r \in inbound' : r.msg = x
    BY PersistedMembers
  <2>2. CASE r \in inbound
    BY <2>1, <2>2, PersistedMembers
  <2>3. CASE r = row
    BY <2>1, <2>3, <1>2
  <2> QED
    BY <2>2, <2>3, <1>1
<1>4. ASSUME NEW x \in Persisted \cup {m} PROVE x \in Persisted'
  <2>1. CASE x \in Persisted
    BY <2>1, <1>1, PersistedMembers
  <2>2. CASE x = m
    BY <2>2, <1>1, <1>2, PersistedMembers
  <2> QED
    BY <2>1, <2>2
<1> QED
  BY <1>3, <1>4

LEMMA QueueTypes ==
  ASSUME TypeOK
  PROVE  /\ queue \in Seq(Entries)
         /\ \A i \in DOMAIN queue : queue[i] \in Entries
         /\ Batches \subseteq Messages
         /\ Persisted \subseteq Messages
<1>1. queue \in Seq(Entries)
  BY DEF TypeOK, Entries
<1>2. \A i \in DOMAIN queue : queue[i] \in Entries
  BY <1>1
<1>3. Batches \subseteq Messages
  BY <1>2, BatchMembers DEF Entries
<1>4. Persisted \subseteq Messages
  BY PersistedMembers DEF TypeOK
<1> QED
  BY <1>1, <1>2, <1>3, <1>4

LEMMA TypeStep == TypeOK /\ [Next]_vars => TypeOK'
<1> SUFFICES ASSUME TypeOK, [Next]_vars PROVE TypeOK'
  OBVIOUS
<1>0. Batches \subseteq Messages
  BY QueueTypes
<1>a. queue # << >> => Head(queue) \in Entries /\ Tail(queue) \in Seq(Entries)
  BY QueueTypes, TailEntries
<1> USE RecoveryAssumption DEF TypeOK, Entries
<1>1. ASSUME NEW m \in Messages, Accept(m) \/ Refuse(m) \/ IntakeFails(m)
      PROVE  TypeOK'
  BY <1>1 DEF Accept, TryMarkSeen, Refuse, IntakeFails, durable, answers, turn,
     sweep, counters
<1>2. ASSUME NEW m \in Messages, Persist(m) PROVE TypeOK'
  BY <1>2 DEF Persist, answers, turn, sweep, counters
<1>3. ASSUME NEW m \in Messages, GrowOlder(m) PROVE TypeOK'
  BY <1>3 DEF GrowOlder, answers, turn, sweep, counters
<1>4. ASSUME NEW m \in Messages, DispatchOrphan(m) PROVE TypeOK'
  BY <1>4, AppendEntry DEF DispatchOrphan, durable, answers, turn, counters
<1>5. CASE Flush
  BY <1>5, AppendEntry DEF Flush, durable, answers, turn, sweep, counters
<1>6. CASE Begin
  BY <1>6, <1>a DEF Begin, Takes, durable, answers, sweep, counters
<1>7. CASE CallModel
  BY <1>7, <1>0 DEF CallModel, Takes, durable, answers, counters
<1>8. CASE Publish
  BY <1>8 DEF Publish, durable, answers, sweep, turn, counters
<1>9. CASE Store
  BY <1>9 DEF Store, Release, counters
<1>10. CASE EndUnstored \/ TurnFails
  BY <1>10 DEF EndUnstored, TurnFails, Release, counters
<1>11. CASE Heartbeat
  BY <1>11 DEF Heartbeat, answers, turn, sweep
<1>12. CASE Crash
  BY <1>12 DEF Crash, durable, answers
<1>13. CASE Boot
  BY <1>13 DEF Boot, answers, turn, sweep, counters
<1>14. CASE FindOrphans
  BY <1>14 DEF FindOrphans, durable, answers, turn, counters
<1>15. CASE UNCHANGED vars
  BY <1>15 DEF vars, durable, answers, turn, sweep, counters
<1> QED
  BY <1>1, <1>2, <1>3, <1>4, <1>5, <1>6, <1>7, <1>8, <1>9, <1>10, <1>11,
     <1>12, <1>13, <1>14, <1>15 DEF Next, EndTurn

-----------------------------------------------------------------------------
(* Preservation, one part of the invariant at a time                       *)

(* Every step adds at most one inbound row, for a message of the intake,   *)
(* and at most one outbound row, for the covered messages, both above top. *)
LEMMA RowsStep == IInv /\ [Next]_vars => RowsInv'
<1> SUFFICES ASSUME IInv, [Next]_vars PROVE RowsInv'
  OBVIOUS
<1>0. TypeOK /\ RowsInv
  BY DEF IInv
<1> USE <1>0 DEF TypeOK, RowsInv, PersistedOnce
<1>1. ASSUME NEW m \in Messages, Accept(m) PROVE RowsInv'
  BY <1>1 DEF Accept, TryMarkSeen, Persisted
<1>2. ASSUME NEW m \in Messages, Persist(m) PROVE RowsInv'
  <2>1. m \notin Persisted
    BY <1>2 DEF Persist
  <2>2. Persisted' = Persisted \cup {m}
    BY <1>2, PersistRow
  <2>3. PersistedOnce'
    BY <1>2, <2>1 DEF Persist, Persisted
  <2> QED
    BY <1>2, <2>1, <2>2, <2>3 DEF Persist
<1>3. ASSUME NEW m \in Messages, Refuse(m) \/ IntakeFails(m) \/ GrowOlder(m) \/ DispatchOrphan(m)
      PROVE  RowsInv'
  BY <1>3 DEF Refuse, IntakeFails, GrowOlder, DispatchOrphan, durable, Persisted
<1>4. CASE Flush \/ Begin \/ CallModel \/ Publish
  BY <1>4 DEF Flush, Begin, CallModel, Publish, durable, Persisted
<1>5. CASE Store \/ EndUnstored \/ TurnFails
  BY <1>5 DEF Store, EndUnstored, TurnFails, Release, Persisted
<1>6. CASE Heartbeat
  BY <1>6 DEF Heartbeat, Persisted
<1>7. CASE Crash \/ Boot \/ FindOrphans
  BY <1>7 DEF Crash, Boot, FindOrphans, durable, Persisted
<1>8. CASE UNCHANGED vars
  BY <1>8 DEF vars, durable, Persisted
<1> QED
  BY <1>1, <1>2, <1>3, <1>4, <1>5, <1>6, <1>7, <1>8 DEF Next, EndTurn

(* A dispatch appends a batch of messages that waited elsewhere.           *)
LEMMA AppendBatches ==
  ASSUME TypeOK, NEW e \in Entries, queue' = Append(queue, e)
  PROVE  /\ Batches' = Batches \cup e.batch
         /\ Disjoint /\ Batches \cap e.batch = {} => Disjoint'
<1>1. /\ DOMAIN queue' = DOMAIN queue \cup {Len(queue) + 1}
      /\ Len(queue) + 1 \notin DOMAIN queue
      /\ \A i \in DOMAIN queue : queue'[i] = queue[i]
      /\ queue'[Len(queue) + 1] = e
  BY AppendEntry, QueueTypes
<1>2. \A m : m \in Batches' <=> m \in Batches \/ m \in e.batch
  BY <1>1, BatchMembers
<1>3. ASSUME Disjoint, Batches \cap e.batch = {} PROVE Disjoint'
  BY <1>1, <1>3, BatchMembers DEF Disjoint
<1> QED
  BY <1>2, <1>3

(* A turn takes the first batch.                                           *)
LEMMA TailBatches ==
  ASSUME TypeOK, Disjoint, queue # << >>, queue' = Tail(queue)
  PROVE  /\ Head(queue).batch \subseteq Batches
         /\ Batches' \subseteq Batches \ Head(queue).batch
         /\ Disjoint'
<1>1. /\ Head(queue) \in Entries /\ Head(queue) = queue[1] /\ 1 \in DOMAIN queue
      /\ \A i \in DOMAIN queue' : i + 1 \in DOMAIN queue /\ i + 1 # 1 /\ queue'[i] = queue[i + 1]
      /\ \A i, j \in DOMAIN queue' : i # j => i + 1 # j + 1
  BY TailEntries, QueueTypes
<1>2. Head(queue).batch \subseteq Batches
  BY <1>1, BatchMembers
<1>3. ASSUME NEW m \in Batches' PROVE m \in Batches \ Head(queue).batch
  BY <1>1, <1>3, BatchMembers DEF Disjoint
<1>4. Disjoint'
  BY <1>1 DEF Disjoint
<1> QED
  BY <1>2, <1>3, <1>4

LEMMA EmptyBatches ==
  ASSUME queue' = << >> PROVE Batches' = {} /\ Disjoint'
  BY DEF Batches, Disjoint

LEMMA SameBatches ==
  ASSUME UNCHANGED queue PROVE Batches' = Batches /\ Disjoint' = Disjoint
  BY DEF Batches, Disjoint

LEMMA PersistedGrows == [Next]_vars => Persisted \subseteq Persisted'
<1> SUFFICES ASSUME [Next]_vars PROVE inbound \subseteq inbound'
  BY PersistedMembers
<1> QED
  BY DEF Next, EndTurn, vars, durable, Accept, Refuse, Persist, IntakeFails,
     GrowOlder, DispatchOrphan, Flush, Begin, CallModel, Publish, Store,
     EndUnstored, TurnFails, Release, Heartbeat, Crash, Boot, FindOrphans

LEMMA WaitStep == IInv /\ [Next]_vars => WaitInv' /\ OneTurnPerWorker'
<1> SUFFICES ASSUME IInv, [Next]_vars PROVE WaitInv' /\ OneTurnPerWorker'
  OBVIOUS
<1>0. TypeOK /\ RowsInv /\ WaitInv /\ FreshInv /\ OneTurnPerWorker
  BY DEF IInv
<1>p. Persisted \subseteq Persisted' /\ Persisted \subseteq Messages /\ Batches \subseteq Messages
  BY <1>0, PersistedGrows, QueueTypes
<1>t. turns \in [Messages -> Nat] /\ queue \in Seq(Entries) /\ orphans \subseteq Messages
      /\ pending \subseteq Messages /\ covers \subseteq Messages
  BY <1>0, QueueTypes DEF TypeOK
<1>i. \A m \in intake : m \notin Persisted
  BY <1>0 DEF RowsInv
<1> USE <1>0, <1>p, <1>t DEF WaitInv, Waiting, OneTurnPerWorker
<1>1. ASSUME NEW m \in Messages, Persist(m) PROVE WaitInv' /\ OneTurnPerWorker'
  <2>1. m \notin Persisted /\ m \in Persisted'
    <3>1. m \in intake
      BY <1>1 DEF Persist
    <3>2. Persisted' = Persisted \cup {m}
      BY <1>1, PersistRow
    <3> QED
      BY <3>1, <3>2, <1>i
  <2>2. turns[m] = 0
    BY <2>1
  <2>3. UNCHANGED <<queue, turns, covers, orphans, phase>> /\ pending' = pending \cup {m}
    BY <1>1 DEF Persist, turn, sweep
  <2>4. Batches' = Batches /\ Disjoint'
    BY <2>3, SameBatches
  <2> QED
    BY <2>1, <2>2, <2>3, <2>4
<1>2. ASSUME NEW m \in Messages, DispatchOrphan(m) PROVE WaitInv' /\ OneTurnPerWorker'
  <2> DEFINE e == [own |-> m, batch |-> {m}]
  <2>1. /\ UNCHANGED <<turns, covers, pending, phase>>
        /\ orphans' = orphans \ {m} /\ m \in orphans /\ queue' = Append(queue, e)
    BY <1>2 DEF DispatchOrphan, turn
  <2>2. e \in Entries /\ e.batch = {m}
    BY DEF Entries
  <2> HIDE DEF e
  <2>3. Batches' = Batches \cup {m} /\ Disjoint'
    BY <2>1, <2>2, AppendBatches
  <2> QED
    BY <2>1, <2>3
<1>3. CASE Flush
  <2>1. PICK m \in pending : queue' = Append(queue, [own |-> m, batch |-> pending])
    BY <1>3 DEF Flush
  <2> DEFINE e == [own |-> m, batch |-> pending]
  <2>2. e \in Entries /\ e.batch = pending
    BY DEF Entries
  <2>3. queue' = Append(queue, e)
    BY <2>1
  <2> HIDE DEF e
  <2>4. Batches' = Batches \cup pending /\ Disjoint'
    BY <2>2, <2>3, AppendBatches
  <2>5. UNCHANGED <<turns, covers, orphans, phase>> /\ pending' = {}
    BY <1>3 DEF Flush, turn, sweep
  <2> QED
    BY <2>4, <2>5
<1>4. CASE Begin
  <2>1. /\ Head(queue).batch \subseteq Batches
        /\ Batches' \subseteq Batches \ Head(queue).batch
        /\ Disjoint'
    BY <1>4, TailBatches DEF Begin
  <2>2. /\ UNCHANGED <<pending, orphans>> /\ phase' # "idle"
        /\ covers' = Head(queue).batch
        /\ turns' = [m \in Messages |-> IF m \in Head(queue).batch THEN turns[m] + 1 ELSE turns[m]]
    BY <1>4 DEF Begin, Takes, sweep
  <2> QED
    BY <2>1, <2>2
<1>5. CASE CallModel
  <2>1. Batches' = {} /\ Disjoint'
    BY <1>5, EmptyBatches DEF CallModel
  <2>2. /\ UNCHANGED <<pending, orphans>> /\ phase' # "idle"
        /\ covers' = covers \cup Batches
        /\ turns' = [m \in Messages |-> IF m \in Batches THEN turns[m] + 1 ELSE turns[m]]
    BY <1>5 DEF CallModel, Takes
  <2> QED
    BY <2>1, <2>2
<1>6. CASE Crash
  <2>1. Batches' = {} /\ Disjoint'
    BY <1>6, EmptyBatches DEF Crash
  <2>2. /\ pending' = {} /\ orphans' = {} /\ covers' = {} /\ phase' = "idle"
        /\ turns' = [m \in Messages |-> 0]
    BY <1>6 DEF Crash
  <2> QED
    BY <2>1, <2>2
<1>7. CASE FindOrphans
  <2>1. /\ UNCHANGED <<queue, turns, covers, pending, phase>>
        /\ orphans' = {m \in Messages : Orphan(m)}
        /\ up = "starting"
    BY <1>7 DEF FindOrphans, turn
  <2>2. \A m \in orphans' : m \in Persisted /\ m \notin Waiting /\ turns[m] = 0
    BY <2>1 DEF Orphan, FreshInv
  <2>3. Batches' = Batches /\ Disjoint'
    BY <2>1, SameBatches
  <2> QED
    BY <2>1, <2>2, <2>3
<1>8. CASE Store \/ EndUnstored \/ TurnFails
  <2>1. UNCHANGED <<queue, turns, pending, orphans>> /\ covers' = {}
    BY <1>8 DEF Store, EndUnstored, TurnFails, Release
  <2> QED
    BY <2>1, SameBatches
<1>9. ASSUME UNCHANGED <<queue, turns, pending, orphans, covers, phase>>
      PROVE  WaitInv' /\ OneTurnPerWorker'
  BY <1>9, SameBatches
<1>10. CASE Publish
  <2>1. UNCHANGED <<queue, turns, pending, orphans, covers>> /\ phase' # "idle"
    BY <1>10 DEF Publish, sweep
  <2> QED
    BY <2>1, SameBatches
<1>11. ASSUME NEW m \in Messages,
              Accept(m) \/ Refuse(m) \/ IntakeFails(m) \/ GrowOlder(m)
       PROVE  WaitInv' /\ OneTurnPerWorker'
  BY <1>11, <1>9 DEF Accept, Refuse, IntakeFails, GrowOlder, turn, sweep
<1>12. CASE Heartbeat \/ Boot \/ UNCHANGED vars
  BY <1>12, <1>9 DEF Heartbeat, Boot, vars, turn, sweep
<1> QED
  BY <1>1, <1>2, <1>3, <1>4, <1>5, <1>6, <1>7, <1>8, <1>10, <1>11, <1>12
     DEF Next, EndTurn

(* What the worker took on before the sweep is fresh: a row is fresh when  *)
(* it is stored, and none grows older before the sweep.                    *)
LEMMA FreshStep == IInv /\ [Next]_vars => FreshInv'
<1> SUFFICES ASSUME IInv, [Next]_vars PROVE FreshInv'
  OBVIOUS
<1>0. TypeOK /\ RowsInv /\ WaitInv /\ FreshInv /\ TypeOK'
  BY TypeStep DEF IInv
<1>t. turns \in [Messages -> Nat] /\ queue \in Seq(Entries) /\ orphans \subseteq Messages
      /\ pending \subseteq Messages /\ Batches \subseteq Messages
      /\ age \in [Messages -> {"fresh", "recent", "old"}]
  BY <1>0, QueueTypes DEF TypeOK
<1> USE <1>t, <1>0 DEF FreshInv, Waiting
<1>1. ASSUME NEW m \in Messages, Persist(m) PROVE FreshInv'
  <2>1. /\ UNCHANGED <<queue, turns, up, orphans>> /\ pending' = pending \cup {m}
        /\ age' = [age EXCEPT ![m] = "fresh"]
        /\ up # "down"
    BY <1>1 DEF Persist, turn, sweep, TypeOK
  <2> QED
    BY <2>1, SameBatches
<1>2. ASSUME NEW m \in Messages, DispatchOrphan(m) PROVE FreshInv'
  <2>1. up # "starting" /\ up' = up /\ turns' = turns
    BY <1>2 DEF DispatchOrphan
  <2> QED
    BY <2>1
<1>3. CASE Flush
  <2>1. PICK m \in pending : queue' = Append(queue, [own |-> m, batch |-> pending])
    BY <1>3 DEF Flush
  <2> DEFINE e == [own |-> m, batch |-> pending]
  <2>2. e \in Entries /\ e.batch = pending
    BY DEF Entries
  <2>3. queue' = Append(queue, e)
    BY <2>1
  <2> HIDE DEF e
  <2>4. Batches' = Batches \cup pending
    BY <2>2, <2>3, AppendBatches
  <2>5. UNCHANGED <<turns, orphans, up, age>> /\ pending' = {}
    BY <1>3 DEF Flush, durable, sweep
  <2> QED
    BY <2>4, <2>5
<1>4. CASE Begin
  <2>1. Head(queue).batch \subseteq Batches /\ Batches' \subseteq Batches
    BY <1>4, TailBatches DEF Begin, WaitInv
  <2>2. /\ UNCHANGED <<pending, orphans, up, age>>
        /\ turns' = [m \in Messages |-> IF m \in Head(queue).batch THEN turns[m] + 1 ELSE turns[m]]
        /\ queue # << >>
    BY <1>4 DEF Begin, Takes, sweep, durable
  <2>3. up # "down"
    BY <2>2 DEF TypeOK
  <2> QED
    BY <2>1, <2>2, <2>3
<1>5. CASE CallModel
  <2>1. Batches' = {}
    BY <1>5, EmptyBatches DEF CallModel
  <2>2. /\ UNCHANGED <<pending, orphans, up, age>>
        /\ turns' = [m \in Messages |-> IF m \in Batches THEN turns[m] + 1 ELSE turns[m]]
        /\ phase # "idle"
    BY <1>5 DEF CallModel, Takes, durable
  <2>3. up # "down"
    BY <2>2 DEF TypeOK
  <2> QED
    BY <2>1, <2>2, <2>3
<1>6. CASE Crash
  BY <1>6, EmptyBatches DEF Crash
<1>7. CASE Boot
  <2>1. up = "down" /\ UNCHANGED <<queue, turns, pending, orphans>>
    BY <1>7 DEF Boot, sweep
  <2>2. pending = {} /\ queue = << >> /\ orphans = {}
    BY <2>1 DEF TypeOK
  <2>3. Batches' = {} /\ pending' = {} /\ orphans' = {}
    BY <2>1, <2>2, EmptyBatches
  <2> QED
    BY <2>1, <2>3
<1>8. CASE FindOrphans
  BY <1>8 DEF FindOrphans
<1>9. ASSUME NEW m \in Messages, GrowOlder(m) PROVE FreshInv'
  <2>1. UNCHANGED <<queue, turns, pending, orphans, up>>
    BY <1>9 DEF GrowOlder, sweep
  <2>2. ASSUME up = "starting", NEW n \in Messages, age[n] = "fresh" PROVE age'[n] = "fresh"
    BY <1>9, <2>2 DEF GrowOlder
  <2> QED
    BY <2>1, <2>2, SameBatches
<1>10. ASSUME UNCHANGED <<queue, turns, pending, orphans, up, age>> PROVE FreshInv'
  BY <1>10, SameBatches
<1>11. CASE Store \/ EndUnstored \/ TurnFails
  BY <1>11, <1>10 DEF Store, EndUnstored, TurnFails, Release
<1>12. ASSUME NEW m \in Messages, Accept(m) \/ Refuse(m) \/ IntakeFails(m)
       PROVE  FreshInv'
  BY <1>12, <1>10 DEF Accept, Refuse, IntakeFails, turn, sweep, durable
<1>13. CASE Heartbeat \/ Publish \/ UNCHANGED vars
  BY <1>13, <1>10 DEF Heartbeat, Publish, vars, turn, sweep, durable
<1> QED
  BY <1>1, <1>2, <1>3, <1>4, <1>5, <1>6, <1>7, <1>8, <1>9, <1>11, <1>12, <1>13
     DEF Next, EndTurn

(* A stored reply is newer than the rows it answers, so the sweep passes   *)
(* them over, and nothing else brings an answered message back.            *)
Answered(m) == \E o \in outbound : m \in o.for
Held == Waiting \cup covers

LEMMA KeepsReplies ==
  ASSUME IInv, outbound' = outbound, inbound \subseteq inbound',
         \A m \in Held' : m \in Held \/ ~Answered(m)
  PROVE  ReplyInv'
<1>0. ReplyInv
  BY DEF IInv
<1>1. ASSUME NEW o \in outbound, NEW m \in o.for
      PROVE  /\ \E r \in inbound' : r.msg = m /\ r.seq < o.seq
             /\ m \notin Held'
  BY <1>0 DEF ReplyInv, Answered, Held
<1> QED
  BY <1>0, <1>1 DEF ReplyInv, StoredReplyOnce, Held

LEMMA AnsweredMasked ==
  ASSUME IInv, NEW m, Answered(m)
  PROVE  Masked(m) /\ m \in Persisted
<1>1. PICK o \in outbound : m \in o.for
  BY DEF Answered
<1>2. PICK r \in inbound : r.msg = m /\ r.seq < o.seq
  BY <1>1 DEF IInv, ReplyInv
<1>3. r.seq \in Nat /\ o.seq \in Nat
  BY DEF IInv, TypeOK
<1>4. o.seq > r.seq
  BY <1>2, <1>3
<1> QED
  BY <1>2, <1>4, PersistedMembers DEF Masked

LEMMA ReplyStep == IInv /\ [Next]_vars => ReplyInv'
<1> SUFFICES ASSUME IInv, [Next]_vars PROVE ReplyInv'
  OBVIOUS
<1>0. TypeOK /\ RowsInv /\ WaitInv /\ WaitInv' /\ ReplyInv
  BY WaitStep DEF IInv
<1>q. queue \in Seq(Entries) /\ orphans \subseteq Messages /\ pending \subseteq Messages
  BY <1>0, QueueTypes DEF TypeOK
<1>1. ASSUME NEW m \in Messages, Persist(m) PROVE ReplyInv'
  <2>1. /\ UNCHANGED <<queue, covers, orphans, outbound>> /\ pending' = pending \cup {m}
        /\ inbound \subseteq inbound' /\ m \in intake
    BY <1>1 DEF Persist, turn, sweep
  <2>2. m \notin Persisted
    BY <2>1, <1>0 DEF RowsInv
  <2>3. ~Answered(m)
    BY <2>2, AnsweredMasked
  <2>4. \A n \in Held' : n \in Held \/ n = m
    BY <2>1, SameBatches DEF Held, Waiting
  <2> QED
    BY <2>1, <2>3, <2>4, KeepsReplies
<1>2. ASSUME NEW m \in Messages, DispatchOrphan(m) PROVE ReplyInv'
  <2> DEFINE e == [own |-> m, batch |-> {m}]
  <2>1. /\ UNCHANGED <<covers, pending, outbound, inbound>>
        /\ orphans' = orphans \ {m} /\ m \in orphans /\ queue' = Append(queue, e)
    BY <1>2 DEF DispatchOrphan, turn, durable
  <2>2. e \in Entries /\ e.batch = {m}
    BY DEF Entries
  <2> HIDE DEF e
  <2>3. Batches' = Batches \cup {m}
    BY <2>1, <2>2, AppendBatches, <1>0
  <2>4. Held' \subseteq Held
    BY <2>1, <2>3 DEF Held, Waiting
  <2> QED
    BY <2>1, <2>4, KeepsReplies
<1>3. CASE Flush
  <2>1. PICK m \in pending : queue' = Append(queue, [own |-> m, batch |-> pending])
    BY <1>3 DEF Flush
  <2> DEFINE e == [own |-> m, batch |-> pending]
  <2>2. e \in Entries /\ e.batch = pending
    BY <1>q DEF Entries
  <2>3. queue' = Append(queue, e)
    BY <2>1
  <2> HIDE DEF e
  <2>4. Batches' = Batches \cup pending
    BY <2>2, <2>3, AppendBatches, <1>0
  <2>5. UNCHANGED <<covers, orphans, outbound, inbound>> /\ pending' = {}
    BY <1>3 DEF Flush, durable, sweep, turn
  <2> QED
    BY <2>4, <2>5, KeepsReplies DEF Held, Waiting
<1>4. CASE Begin
  <2>1. Head(queue).batch \subseteq Batches /\ Batches' \subseteq Batches
    BY <1>4, <1>0, TailBatches DEF Begin, WaitInv
  <2>2. /\ UNCHANGED <<pending, orphans, outbound, inbound>>
        /\ covers' = Head(queue).batch
    BY <1>4 DEF Begin, sweep, durable
  <2> QED
    BY <2>1, <2>2, KeepsReplies DEF Held, Waiting
<1>5. CASE CallModel
  <2>1. Batches' = {}
    BY <1>5, EmptyBatches DEF CallModel
  <2>2. /\ UNCHANGED <<pending, orphans, outbound, inbound>>
        /\ covers' = covers \cup Batches
    BY <1>5 DEF CallModel, durable
  <2> QED
    BY <2>1, <2>2, KeepsReplies DEF Held, Waiting
<1>6. CASE Crash
  <2>1. /\ Batches' = {} /\ pending' = {} /\ orphans' = {} /\ covers' = {}
        /\ UNCHANGED <<outbound, inbound>>
    BY <1>6, EmptyBatches DEF Crash, durable
  <2> QED
    BY <2>1, KeepsReplies DEF Held, Waiting
<1>7. CASE FindOrphans
  <2>1. /\ UNCHANGED <<queue, covers, pending, outbound, inbound>>
        /\ orphans' = {m \in Messages : Orphan(m)}
    BY <1>7 DEF FindOrphans, turn, durable
  <2>2. \A m \in orphans' : ~Answered(m)
    BY <2>1, AnsweredMasked DEF Orphan
  <2>3. Batches' = Batches
    BY <2>1, SameBatches
  <2> QED
    BY <2>1, <2>2, <2>3, KeepsReplies DEF Held, Waiting
<1>8. CASE Store
  <2> DEFINE n == [for |-> covers, seq |-> top + 1]
  <2>1. /\ UNCHANGED <<queue, pending, orphans, inbound>> /\ covers' = {}
        /\ outbound' = outbound \cup {n}
    BY <1>8 DEF Store, Release
  <2>2. n.for = covers /\ n.seq = top + 1
    OBVIOUS
  <2> HIDE DEF n
  <2>3. Held' = Waiting /\ Held' \cap covers = {}
    BY <2>1, <1>0, SameBatches DEF Held, Waiting, WaitInv
  <2>4. ASSUME NEW m \in covers PROVE \E r \in inbound' : r.msg = m /\ r.seq < n.seq
    <3>1. PICK r \in inbound : r.msg = m
      BY <1>0, PersistedMembers DEF WaitInv
    <3>2. r.seq \in Nat /\ r.seq <= top /\ top \in Nat
      BY <1>0 DEF TypeOK, RowsInv
    <3> QED
      BY <2>1, <2>2, <3>1, <3>2
  <2>5. ASSUME NEW o \in outbound, NEW m \in o.for
        PROVE  /\ \E r \in inbound' : r.msg = m /\ r.seq < o.seq
               /\ m \notin Held' /\ m \notin covers
    BY <1>0, <2>1, <2>3 DEF ReplyInv
  <2>6. ASSUME NEW o \in outbound', NEW m \in o.for
        PROVE  /\ \E r \in inbound' : r.msg = m /\ r.seq < o.seq
               /\ m \notin Held'
    BY <2>1, <2>2, <2>3, <2>4, <2>5
  <2>7. StoredReplyOnce'
    BY <1>0, <2>1, <2>2, <2>5 DEF ReplyInv, StoredReplyOnce
  <2> QED
    BY <2>6, <2>7 DEF ReplyInv, Held
<1>9. CASE Heartbeat
  <2> DEFINE n == [for |-> {}, seq |-> top + 1]
  <2>1. /\ UNCHANGED <<queue, pending, orphans, covers, inbound>>
        /\ outbound' = outbound \cup {n}
    BY <1>9 DEF Heartbeat, turn, sweep
  <2>2. n.for = {}
    OBVIOUS
  <2> HIDE DEF n
  <2>3. Held' = Held
    BY <2>1, SameBatches DEF Held, Waiting
  <2>4. ASSUME NEW o \in outbound', NEW m \in o.for
        PROVE  o \in outbound
    BY <2>1, <2>2
  <2>5. ASSUME NEW o \in outbound', NEW m \in o.for
        PROVE  /\ \E r \in inbound' : r.msg = m /\ r.seq < o.seq
               /\ m \notin Held'
    BY <1>0, <2>1, <2>3, <2>4 DEF ReplyInv, Held
  <2>6. StoredReplyOnce'
    BY <1>0, <2>4 DEF ReplyInv, StoredReplyOnce
  <2> QED
    BY <2>5, <2>6 DEF ReplyInv, Held
<1>10. CASE EndUnstored \/ TurnFails
  <2>1. UNCHANGED <<queue, pending, orphans, inbound, outbound>> /\ covers' = {}
    BY <1>10 DEF EndUnstored, TurnFails, Release
  <2> QED
    BY <2>1, SameBatches, KeepsReplies DEF Held, Waiting
<1>11. ASSUME UNCHANGED <<queue, pending, orphans, covers, inbound, outbound>>
       PROVE  ReplyInv'
  <2>1. Held' = Held
    BY <1>11, SameBatches DEF Held, Waiting
  <2> QED
    BY <1>11, <2>1, KeepsReplies
<1>12. ASSUME NEW m \in Messages,
              Accept(m) \/ Refuse(m) \/ IntakeFails(m) \/ GrowOlder(m)
       PROVE  ReplyInv'
  BY <1>12, <1>11 DEF Accept, Refuse, IntakeFails, GrowOlder, turn, sweep, durable
<1>13. CASE Publish \/ Boot \/ UNCHANGED vars
  BY <1>13, <1>11 DEF Publish, Boot, vars, turn, sweep, durable
<1> QED
  BY <1>1, <1>2, <1>3, <1>4, <1>5, <1>6, <1>7, <1>8, <1>9, <1>10, <1>12, <1>13
     DEF Next, EndTurn

-----------------------------------------------------------------------------
(* The theorems                                                            *)

LEMMA InitInv == Init => IInv
<1> SUFFICES ASSUME Init PROVE IInv
  OBVIOUS
<1>1. TypeOK
  BY RecoveryAssumption DEF Init, TypeOK
<1>2. Batches = {} /\ Disjoint /\ Persisted = {}
  BY BatchMembers, PersistedMembers DEF Init, Disjoint
<1>3. WaitInv /\ FreshInv /\ RowsInv /\ ReplyInv /\ OneTurnPerWorker
  BY <1>2 DEF Init, WaitInv, FreshInv, RowsInv, ReplyInv, OneTurnPerWorker,
     PersistedOnce, StoredReplyOnce, Waiting
<1> QED
  BY <1>1, <1>3 DEF IInv

LEMMA Invariance == Spec => []IInv
<1>1. IInv /\ [Next]_vars => IInv'
  BY TypeStep, RowsStep, WaitStep, FreshStep, ReplyStep DEF IInv
<1> QED
  BY <1>1, InitInv, PTL DEF Spec

(* Every variable keeps its type, a turn has a message of its own, and a   *)
(* crash leaves nothing in memory.                                         *)
THEOREM TypeCorrect == Spec => []TypeOK
<1>1. IInv => TypeOK
  BY DEF IInv
<1> QED
  BY <1>1, Invariance, PTL

(* However often a message is delivered, refused, lost in the intake or    *)
(* recovered, its row is stored at most once (try_mark_seen).              *)
THEOREM StoredOnce == Spec => []PersistedOnce
<1>1. IInv => PersistedOnce
  BY DEF IInv, RowsInv
<1> QED
  BY <1>1, Invariance, PTL

(* The sweep never dispatches what its own worker already dispatched       *)
(* (_FRESHNESS_FLOOR_SECONDS).                                             *)
THEOREM NoSecondTurn == Spec => []OneTurnPerWorker
<1>1. IInv => OneTurnPerWorker
  BY DEF IInv
<1> QED
  BY <1>1, Invariance, PTL

(* Over all restarts the stored replies answer disjoint messages.          *)
THEOREM NoSecondReply == Spec => []StoredReplyOnce
<1>1. IInv => StoredReplyOnce
  BY DEF IInv, ReplyInv
<1> QED
  BY <1>1, Invariance, PTL
===============================================================================
