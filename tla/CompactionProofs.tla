---------------------------- MODULE CompactionProofs ---------------------------
(***************************************************************************)
(* Theorems about Compaction, for any number of rows, events, restarts,    *)
(* deletes, admin compactions and edits: types, and the safety properties  *)
(* of the watermark, the events and the memory.                            *)
(***************************************************************************)
EXTENDS Compaction, FiniteSetTheorems, WellFoundedInduction, TLAPS

-----------------------------------------------------------------------------
(* The least and the largest number of a set                               *)

LEMMA LeastOf ==
  ASSUME NEW T \in SUBSET Nat, T # {}
  PROVE  \E x \in T : \A y \in T : x <= y
<1> DEFINE R == OpToRel(<, Nat)
<1>1. IsWellFoundedOn(R, Nat)
  BY NatLessThanWellFounded
<1>2. \A x, y \in Nat : y < x => <<y, x>> \in R
  BY DEF OpToRel
<1> HIDE DEF R
<1>3. PICK x \in T : \A y \in T : ~ (<<y, x>> \in R)
  BY <1>1, WFMin, Zenon
<1>4. x \in Nat
  OBVIOUS
<1>5. SUFFICES ASSUME NEW y \in T PROVE x <= y
  OBVIOUS
<1>6. y \in Nat /\ ~ (<<y, x>> \in R)
  BY <1>3, Zenon
<1>7. ~ (y < x)
  BY <1>2, <1>4, <1>6, Zenon
<1>8. x <= y
  BY <1>4, <1>6, <1>7
<1> QED BY <1>8

LEMMA LargestOf ==
  ASSUME NEW T \in SUBSET Nat, T # {}, NEW n \in Nat, \A y \in T : y <= n
  PROVE  \E x \in T : \A y \in T : y <= x
<1> DEFINE U == {k \in Nat : \A y \in T : y <= k}
<1>1. U \in SUBSET Nat /\ n \in U /\ U # {}
  OBVIOUS
<1>2. PICK u \in U : \A k \in U : u <= k
  BY <1>1, LeastOf
<1>3. CASE u \in T
  BY <1>2, <1>3
<1>4. CASE u \notin T
  <2>1. PICK t \in T : TRUE
    OBVIOUS
  <2>2. t <= u /\ t # u /\ t \in Nat /\ u \in Nat
    BY <1>2, <1>4
  <2>3. u - 1 \in Nat
    BY <2>2
  <2>4. \A y \in T : y <= u /\ y # u /\ y \in Nat
    BY <1>2, <1>4
  <2>5. \A y \in T : y <= u - 1
    BY <2>4, <2>2
  <2>6. u - 1 \in U
    BY <2>3, <2>5
  <2>7. u <= u - 1
    BY <2>6, <1>2
  <2> QED BY <2>7, <2>2
<1> QED BY <1>3, <1>4

(* The sequence numbers of the table are bounded, though not by a constant.*)
Bound(f, n) == n \in Nat /\ \A r \in Rows : f[r] <= n
Bounded == \E n \in Nat : Bound(seq, n)

LEMMA MaxExists ==
  ASSUME NEW f \in [Rows -> Nat], \E n \in Nat : Bound(f, n),
         NEW S \in SUBSET Rows
  PROVE  \E x \in {f[r] : r \in S} \cup {0} : \A r \in S : f[r] <= x
<1> DEFINE T == {f[r] : r \in S} \cup {0}
<1>1. T \in SUBSET Nat /\ T # {}
  OBVIOUS
<1>2. PICK n \in Nat : \A y \in T : y <= n
  BY DEF Bound
<1>3. PICK x \in T : \A y \in T : y <= x
  BY <1>1, <1>2, LargestOf
<1> QED BY <1>3

LEMMA MinExists ==
  ASSUME NEW f \in [Rows -> Nat], NEW S \in SUBSET Rows, S # {}
  PROVE  \E x \in {f[r] : r \in S} : \A r \in S : x <= f[r]
<1> DEFINE T == {f[r] : r \in S}
<1>1. T \in SUBSET Nat /\ T # {}
  OBVIOUS
<1>2. PICK x \in T : \A y \in T : x <= y
  BY <1>1, LeastOf
<1> QED BY <1>2

(* What TopOf and Span return.                                             *)
LEMMA TopIs ==
  ASSUME seq \in [Rows -> Nat], Bounded, NEW S \in SUBSET Rows
  PROVE  /\ TopOf(S) \in Nat
         /\ \A r \in S : seq[r] <= TopOf(S)
         /\ TopOf(S) = 0 \/ \E r \in S : TopOf(S) = seq[r]
<1>1. \E x \in {seq[r] : r \in S} \cup {0} : \A r \in S : seq[r] <= x
  BY MaxExists DEF Bounded
<1>2. /\ TopOf(S) \in {seq[r] : r \in S} \cup {0}
      /\ \A r \in S : seq[r] <= TopOf(S)
  BY <1>1 DEF TopOf
<1> QED BY <1>2

LEMMA SpanIs ==
  ASSUME seq \in [Rows -> Nat], Bounded, NEW S \in SUBSET Rows, S # {}
  PROVE  /\ Span(S) \in Spans
         /\ Span(S).rows = S /\ Span(S).hi = TopOf(S)
<1>1. TopOf(S) \in Nat
  BY TopIs
<1>2. \E x \in {seq[r] : r \in S} : \A r \in S : x <= seq[r]
  BY MinExists
<1>3. (CHOOSE n \in {seq[r] : r \in S} : \A r \in S : n <= seq[r]) \in Nat
  BY <1>2
<1> QED BY <1>1, <1>3 DEF Span, Spans

-----------------------------------------------------------------------------
(* Types                                                                   *)

TypeInv == TypeOK /\ Bounded

LEMMA InitTypes == Init => TypeInv
<1> SUFFICES ASSUME Init PROVE TypeInv
  OBVIOUS
<1> USE CompactionAssumption
<1>1. DOMAIN Legacy = 1..Len(Legacy) /\ Len(Legacy) \in Nat
  OBVIOUS
<1>2. \A r \in Rows : seq[r] \in Nat /\ seq[r] <= Len(Legacy)
  BY <1>1 DEF Init
<1>3. seq \in [Rows -> Nat] /\ Bounded
  BY <1>1, <1>2 DEF Init, Bounded, Bound
<1>4. born \in SUBSET Rows /\ taken \in SUBSET Inbound
  BY DEF Init
<1>5. NoSpan \in Spans /\ NoMemory \in Memories /\ NoAsk \in Asks
  BY DEF NoSpan, NoMemory, NoAsk, Spans, Memories, Asks
<1>6. NoEvent \in [status : {"none", "pending", "completed"}, span : Spans,
                   tries : 0..MaxAttempts, by : {"trim", "admin"}, era : Nat]
  BY <1>5 DEF NoEvent
<1> QED BY <1>3, <1>4, <1>5, <1>6 DEF Init, TypeInv, TypeOK

(* A row that is added gets the next number.                               *)
LEMMA AddIs ==
  ASSUME TypeInv, NEW r \in Rows, Add(r)
  PROVE  /\ seq' \in [Rows -> Nat] /\ born' \in SUBSET Rows /\ Bounded'
         /\ mark' = mark /\ era' = era
         /\ r \notin born /\ born' = born \cup {r}
         /\ \A q \in Rows \ {r} : seq'[q] = seq[q]
         /\ seq'[r] = Top + 1
<1>1. seq \in [Rows -> Nat] /\ Bounded /\ born \in SUBSET Rows
  BY DEF TypeInv, TypeOK
<1>2. Stored \in SUBSET Rows
  BY DEF Stored
<1>3. Top \in Nat /\ \A q \in Stored : seq[q] <= Top
  BY <1>1, <1>2, TopIs DEF Top
<1> HIDE DEF Top
<1>4. /\ seq' \in [Rows -> Nat] /\ seq'[r] = Top + 1
      /\ \A q \in Rows \ {r} : seq'[q] = seq[q]
  BY <1>1, <1>3 DEF Add
<1>5. \A q \in Rows : seq'[q] <= Top + 1
  BY <1>1, <1>3, <1>4 DEF Stored
<1>6. Bounded'
  BY <1>3, <1>5 DEF Bounded, Bound
<1> QED BY <1>1, <1>4, <1>6 DEF Add

(* Events and tasks after an event was written, or was not.                *)
EventTypes ==
  /\ made \in 0..MaxEvents /\ stale \in SUBSET Events
  /\ event \in [Events -> [status : {"none", "pending", "completed"},
                           span : Spans, tries : 0..MaxAttempts,
                           by : {"trim", "admin"}, era : Nat]]
  /\ task \in [Events -> {"idle", "starting", "calling", "closing"}]
  /\ input \in [Events -> SUBSET Rows] /\ base \in [Events -> Memories]
  /\ refused \in SUBSET Events

LEMMA RecordTypes ==
  ASSUME TypeInv, NEW span \in Spans, NEW by \in {"trim", "admin"},
         Record(span, by)
  PROVE  EventTypes'
<1> USE CompactionAssumption
<1>1. made + 1 \in Events /\ made' = made + 1 /\ made' \in 0..MaxEvents
  BY DEF TypeInv, TypeOK, Record, Events
<1>2. span.rows \in SUBSET Rows /\ era \in Nat
  BY DEF TypeInv, TypeOK, Spans
<1>3. [status |-> "pending", span |-> span, tries |-> 0, by |-> by, era |-> era]
        \in [status : {"none", "pending", "completed"}, span : Spans,
             tries : 0..MaxAttempts, by : {"trim", "admin"}, era : Nat]
  BY <1>2
<1> QED BY <1>1, <1>2, <1>3 DEF TypeInv, TypeOK, Record, EventTypes

LEMMA NothingTypes == TypeInv /\ RecordNothing => EventTypes'
BY DEF TypeInv, TypeOK, RecordNothing, EventTypes, events, tasks

LEMMA SameBound == Bounded /\ UNCHANGED seq => Bounded'
BY DEF Bounded, Bound

LEMMA NextTypes == TypeInv /\ [Next]_vars => TypeInv'
<1> SUFFICES ASSUME TypeInv, [Next]_vars PROVE TypeInv'
  OBVIOUS
<1> USE CompactionAssumption
<1>0. /\ TypeOK /\ Bounded /\ seq \in [Rows -> Nat]
      /\ Stored \in SUBSET Rows
      /\ Inbound \subseteq Rows /\ Outbound \subseteq Rows
  BY DEF TypeInv, TypeOK, Stored, Rows
<1>1. NoSpan \in Spans /\ NoMemory \in Memories /\ NoAsk \in Asks
  BY DEF NoSpan, NoMemory, NoAsk, Spans, Memories, Asks
<1>a. ASSUME NEW m \in Inbound, Arrive(m) PROVE TypeInv'
  <2>1. Add(m) /\ m \in Rows
    BY <1>a, <1>0 DEF Arrive
  <2> QED BY <1>a, <2>1, AddIs DEF Arrive, TypeInv, TypeOK, turn, events,
             tasks, docs, sweeping, bounds
<1>b. ASSUME NEW o \in Outbound, Proactive(o) PROVE TypeInv'
  <2>1. Add(o) /\ o \in Rows
    BY <1>b, <1>0 DEF Proactive
  <2> QED BY <1>b, <2>1, AddIs DEF Proactive, TypeInv, TypeOK, turn, events,
             tasks, docs, sweeping, bounds
<1>c. ASSUME NEW o \in Outbound, Reply(o) PROVE TypeInv'
  <2>1. Add(o) /\ o \in Rows
    BY <1>c, <1>0 DEF Reply
  <2> QED BY <1>c, <2>1, AddIs DEF Reply, EndTurn, TypeInv, TypeOK, events,
             tasks, docs, sweeping, bounds
<1>d. ASSUME NEW D \in SUBSET Rows, Delete(D) PROVE TypeInv'
  <2>1. /\ seq' \in [Rows -> Nat]
        /\ \A r \in Rows : seq'[r] = 0 \/ seq'[r] = seq[r]
        /\ mark' \in Nat /\ era' \in Nat /\ born' = born
    BY <1>d, <1>0 DEF Delete, Remove, TypeOK
  <2>2. Bounded'
    <3>1. PICK n \in Nat : \A r \in Rows : seq[r] <= n
      BY <1>0 DEF Bounded, Bound
    <3>2. \A r \in Rows : seq'[r] <= n
      BY <3>1, <2>1
    <3> QED BY <3>2 DEF Bounded, Bound
  <2> QED BY <1>d, <2>1, <2>2 DEF Delete, TypeInv, TypeOK, turn, events,
             tasks, docs, sweeping
<1>e. ASSUME NEW m \in Inbound, Begin(m) PROVE TypeInv'
  <2>1. Overflow(m) \in SUBSET Rows /\ Window(m) \in SUBSET Rows
    BY DEF Overflow, Window, Earlier, Loaded, Visible, Stored, Oldest
  <2>2. view' \in SUBSET Rows /\ dropped' \in SUBSET Rows
    BY <1>e, <2>1 DEF Begin
  <2> HIDE DEF Overflow, Window
  <2> QED BY <1>e, <1>0, <2>2, SameBound DEF Begin, TypeInv, TypeOK, table, events,
             tasks, docs, sweeping, bounds
<1>f. ASSUME NEW D \in SUBSET Rows, Trim(D) PROVE TypeInv'
  BY <1>f, <1>0, SameBound DEF Trim, TypeInv, TypeOK, table, events, tasks, docs,
     sweeping, bounds
<1>g. ASSUME NEW D \in SUBSET Rows, AdminReads(D) PROVE TypeInv'
  <2>1. D \subseteq Blank => [NoSpan EXCEPT !.hi = TopOf(D)] \in Spans
    BY <1>0, <1>1, TopIs DEF NoSpan, Spans
  <2>2. ~ (D \subseteq Blank) => Span(D \ Blank) \in Spans
    BY <1>0, SpanIs
  <2>3. asked' \in Asks
    BY <1>g, <1>1, <2>1, <2>2 DEF AdminReads, NoAsk, Asks
  <2>0. admins \in 0..MaxAdmins /\ MaxAdmins \in Nat
    BY <1>0 DEF TypeOK
  <2>4. admins' \in 0..MaxAdmins
    BY <1>g, <2>0 DEF AdminReads
  <2>5. UNCHANGED <<table, turn, events, tasks, docs, sweeping, restarts, deletes>>
    BY <1>g DEF AdminReads
  <2> QED BY <1>0, <2>3, <2>4, <2>5, SameBound DEF TypeInv, TypeOK, table,
             turn, events, tasks, docs, sweeping
<1>h. CASE ReadMark
  BY <1>h, <1>0, SameBound DEF ReadMark, TypeInv, TypeOK, table, events, tasks,
     docs, sweeping, bounds
<1>i. CASE Commit
  <2> DEFINE R == Above(known)
  <2>1. R \in SUBSET Rows
    BY <1>0 DEF TypeOK, Above
  <2>2. R # {} => Span(R) \in Spans /\ TopOf(R) \in Nat
    BY <2>1, <1>0, SpanIs, TopIs
  <2>3. \/ /\ R # {} /\ mark' = TopOf(R)
           /\ RecordNothing \/ Record(Span(R), "trim")
        \/ RecordNothing /\ UNCHANGED mark
    BY <1>i DEF Commit, HandOver, Cover
  <2> HIDE DEF R
  <2>4. EventTypes' /\ mark' \in Nat
    BY <2>2, <2>3, <1>0, RecordTypes, NothingTypes DEF TypeInv, TypeOK
  <2> QED BY <1>i, <1>0, <2>4, SameBound DEF Commit, TypeInv, TypeOK, EventTypes,
             docs, sweeping, bounds
<1>j. CASE EndUnstored
  BY <1>j, <1>0, SameBound DEF EndUnstored, EndTurn, TypeInv, TypeOK, table,
     events, tasks, docs, sweeping, bounds
<1>k. CASE AdminCommits
  <2>1. asked.span \in Spans /\ asked.span.hi \in Nat
    BY <1>0 DEF TypeOK, Asks, Spans
  <2>2. Record(asked.span, "admin") \/ RecordNothing
    BY <1>k DEF AdminCommits
  <2>3. EventTypes'
    BY <2>1, <2>2, <1>0, RecordTypes, NothingTypes DEF TypeInv, TypeOK
  <2>4. mark' \in Nat /\ era' \in Nat
    BY <1>k, <1>0, <2>1 DEF AdminCommits, TypeOK
  <2> QED BY <1>k, <1>0, <1>1, <2>3, <2>4, SameBound DEF AdminCommits, TypeInv,
             TypeOK, EventTypes, turn, docs, sweeping, bounds
<1>u. CASE AdminChecks
  <2>1. asked' \in Asks
    BY <1>u, <1>0 DEF AdminChecks, TypeOK, Asks
  <2> QED BY <1>u, <1>0, <2>1, SameBound DEF AdminChecks, TypeInv, TypeOK, table,
             turn, events, tasks, docs, sweeping, bounds
<1>l. ASSUME NEW e \in Events, Reads(e) \/ CallFails(e) PROVE TypeInv'
  <2>1. /\ task' \in [Events -> {"idle", "starting", "calling", "closing"}]
        /\ base' \in [Events -> Memories]
    <3>1. /\ task \in [Events -> {"idle", "starting", "calling", "closing"}]
          /\ base \in [Events -> Memories] /\ memory \in Memories
      BY <1>0 DEF TypeOK
    <3>2. /\ \/ task' = [task EXCEPT ![e] = "calling"]
             \/ task' = [task EXCEPT ![e] = "idle"]
          /\ \/ base' = [base EXCEPT ![e] = memory]
             \/ base' = [base EXCEPT ![e] = NoMemory]
      BY <1>l DEF Reads, CallFails
    <3> QED BY <3>1, <3>2, <1>1
  <2>2. UNCHANGED <<table, turn, asked, events, input, refused, docs, sweeping,
                    bounds>>
    BY <1>l DEF Reads, CallFails
  <2> QED BY <1>0, <2>1, <2>2, SameBound DEF TypeInv, TypeOK, table, turn,
             events, docs, sweeping, bounds
<1>m. ASSUME NEW e \in Events, Writes(e) PROVE TypeInv'
  <2>1. input[e] \in SUBSET Rows /\ memory \in Memories /\ refused \in SUBSET Events
    BY <1>0 DEF TypeOK
  <2>2. [memory EXCEPT !.facts = @ \cup input[e]] \in Memories
    BY <2>1 DEF Memories
  <2>3. memory' \in Memories /\ refused' \in SUBSET Events
    BY <1>m, <2>1, <2>2 DEF Writes, CompareAndSwap
  <2>4. /\ task' \in [Events -> {"idle", "starting", "calling", "closing"}]
        /\ base' \in [Events -> Memories]
    BY <1>m, <1>0, <1>1 DEF Writes, TypeOK
  <2>5. lost' \in Memories
    BY <1>m, <1>0 DEF Writes, TypeOK, Memories
  <2>6. UNCHANGED <<table, turn, asked, events, input, editor, draft, sweeping, bounds>>
    BY <1>m DEF Writes
  <2> QED BY <1>0, <2>3, <2>4, <2>5, <2>6, SameBound DEF TypeInv, TypeOK, table,
             turn, events, sweeping, bounds
<1>n. ASSUME NEW e \in Events, Closes(e) PROVE TypeInv'
  <2>1. event' \in [Events -> [status : {"none", "pending", "completed"},
                           span : Spans, tries : 0..MaxAttempts,
                           by : {"trim", "admin"}, era : Nat]]
    <3> DEFINE E == [status : {"none", "pending", "completed"}, span : Spans,
                     tries : 0..MaxAttempts, by : {"trim", "admin"}, era : Nat]
    <3>1. event \in [Events -> E]
      BY <1>0 DEF TypeOK
    <3>2. [event[e] EXCEPT !.status = "completed"] \in E
      BY <3>1
    <3> HIDE DEF E
    <3>3. [event EXCEPT ![e].status = "completed"] \in [Events -> E]
      BY <3>1, <3>2
    <3>4. event' \in [Events -> E]
      BY <1>n, <3>1, <3>3 DEF Closes
    <3> QED BY <3>4 DEF E
  <2> QED BY <1>n, <1>0, <2>1, SameBound DEF Closes, TypeInv, TypeOK, table,
             turn, docs, sweeping, bounds
<1>o. ASSUME NEW e \in Events, GrowStale(e) PROVE TypeInv'
  BY <1>o, <1>0, SameBound DEF GrowStale, TypeInv, TypeOK, table, turn, tasks,
     docs, sweeping, bounds
<1>p. ASSUME NEW e \in Events, Retry(e) PROVE TypeInv'
  <2>1. InRange(e) \in SUBSET Rows
    BY <1>0 DEF InRange
  <2>2. event[e].tries \in 0..MaxAttempts
    BY <1>0 DEF TypeOK
  <2>3. event' \in [Events -> [status : {"none", "pending", "completed"},
                           span : Spans, tries : 0..MaxAttempts,
                           by : {"trim", "admin"}, era : Nat]]
    <3> DEFINE E == [status : {"none", "pending", "completed"}, span : Spans,
                     tries : 0..MaxAttempts, by : {"trim", "admin"}, era : Nat]
    <3>1. event \in [Events -> E]
      BY <1>0 DEF TypeOK
    <3>2. [event[e] EXCEPT !.tries = MaxAttempts] \in E
      BY <3>1
    <3>3. event[e].tries < MaxAttempts => [event[e] EXCEPT !.tries = @ + 1] \in E
      <4>1. event[e].tries < MaxAttempts => event[e].tries + 1 \in 0..MaxAttempts
        BY <2>2
      <4> QED BY <3>1, <4>1
    <3> HIDE DEF E
    <3>4. \/ event' = event
          \/ event' = [event EXCEPT ![e].tries = MaxAttempts]
          \/ /\ event[e].tries < MaxAttempts
             /\ event' = [event EXCEPT ![e].tries = @ + 1]
      BY <1>p, <2>2 DEF Retry
    <3>5. event' \in [Events -> E]
      BY <3>1, <3>2, <3>3, <3>4
    <3> QED BY <3>5 DEF E
  <2> HIDE DEF InRange
  <2>4. /\ task' \in [Events -> {"idle", "starting", "calling", "closing"}]
        /\ input' \in [Events -> SUBSET Rows]
    <3>1. /\ task \in [Events -> {"idle", "starting", "calling", "closing"}]
          /\ input \in [Events -> SUBSET Rows]
      BY <1>0 DEF TypeOK
    <3>2. /\ task' = task \/ task' = [task EXCEPT ![e] = "starting"]
          /\ input' = input \/ input' = [input EXCEPT ![e] = InRange(e) \ Blank]
      BY <1>p DEF Retry
    <3> QED BY <3>1, <3>2, <2>1
  <2>5. sweep' \in SUBSET Events /\ retrying' \in Events \cup {0}
    BY <1>p, <1>0 DEF Retry, TypeOK
  <2>6. UNCHANGED <<table, turn, asked, made, stale, base, refused, docs, swept,
                    bounds>>
    BY <1>p DEF Retry
  <2> QED BY <1>0, <2>3, <2>4, <2>5, <2>6, SameBound DEF TypeInv, TypeOK, table,
             turn, docs, bounds
<1>q. ASSUME NEW k \in Editors, EditorReads(k) \/ EditorWrites(k) PROVE TypeInv'
  <2>1. /\ memory \in Memories /\ lost \in Memories /\ draft \in [Editors -> Memories]
        /\ editor \in [Editors -> {"none", "open", "saved"}]
    BY <1>0 DEF TypeOK
  <2>2. /\ draft' \in [Editors -> Memories]
        /\ editor' \in [Editors -> {"none", "open", "saved"}]
    BY <1>q, <1>1, <2>1 DEF EditorReads, EditorWrites
  <2>3. memory' \in Memories
    BY <1>q, <2>1 DEF EditorReads, EditorWrites, Memories
  <2>4. lost' \in Memories
    BY <1>q, <2>1, <2>3 DEF EditorReads, EditorWrites, Memories
  <2>5. UNCHANGED <<table, turn, asked, events, tasks, sweeping, bounds>>
    BY <1>q DEF EditorReads, EditorWrites
  <2> QED BY <1>0, <2>2, <2>3, <2>4, <2>5, SameBound DEF TypeInv, TypeOK, table, turn,
             events, tasks, sweeping, bounds
<1>r. CASE Restart
  <2>1. restarts' \in 0..MaxRestarts
    BY <1>r, <1>0 DEF Restart, TypeOK
  <2>2. /\ task' \in [Events -> {"idle", "starting", "calling", "closing"}]
        /\ base' \in [Events -> Memories]
    BY <1>r, <1>1 DEF Restart
  <2>3. /\ holder' = NoRow /\ phase' = "idle" /\ stage' = "none"
        /\ view' = {} /\ dropped' = {} /\ known' = 0 /\ asked' = NoAsk
        /\ swept' = FALSE /\ sweep' = {} /\ retrying' = 0
        /\ UNCHANGED <<table, taken, events, input, refused, docs, deletes, admins>>
    BY <1>r DEF Restart
  <2> QED BY <1>0, <1>1, <2>1, <2>2, <2>3, SameBound DEF TypeInv, TypeOK, table,
             events, docs
<1>s. CASE SweepStarts
  BY <1>s, <1>0, SameBound DEF SweepStarts, TypeInv, TypeOK, table, turn,
     events, tasks, docs, bounds
<1>t. CASE UNCHANGED vars
  BY <1>t, <1>0, SameBound DEF vars, TypeInv, TypeOK, table, turn, events, tasks,
     docs, sweeping, bounds
<1> QED BY <1>a, <1>b, <1>c, <1>d, <1>e, <1>f, <1>g, <1>h, <1>i, <1>j, <1>k,
           <1>l, <1>m, <1>n, <1>o, <1>p, <1>q, <1>r, <1>s, <1>t, <1>u DEF Next

(* Types, and a turn holds the user lock exactly while it is in progress.  *)
THEOREM TypeCorrect == Spec => []TypeOK
<1>1. TypeInv => TypeOK
  BY DEF TypeInv
<1> QED BY InitTypes, NextTypes, <1>1, PTL DEF Spec

-----------------------------------------------------------------------------
(* Events, their tasks and the memory                                      *)

(* Nothing is known of an event that was not written yet.                  *)
FutureInv ==
  \A e \in Events :
    e > made => event[e] = NoEvent /\ task[e] = "idle" /\ e \notin stale \cup sweep

(* What was written to the memory stays, or an editor wrote over it: from  *)
(* the write on, which comes before the event is closed.                   *)
MemoryInv ==
  /\ \A k \in Editors : editor[k] = "saved" => k \in memory.edits \cup lost.edits
  /\ \A e \in Events :
       (event[e].status = "completed" \/ task[e] = "closing") /\ e \notin refused
         => input[e] \subseteq memory.facts \cup lost.facts

(* No event that the sweep will take is being compacted: those it found    *)
(* were old, and before it nobody compacts an old event.                   *)
SweepInv ==
  /\ ~swept => sweep = {} /\ \A e \in stale : task[e] = "idle"
  /\ \A e \in sweep : task[e] = "idle"

EventInv == FutureInv /\ MemoryInv /\ SweepInv

LEMMA InitEvents == Init => EventInv
BY DEF Init, EventInv, FutureInv, MemoryInv, SweepInv, NoEvent, NoMemory

LEMMA RecordEvents ==
  ASSUME TypeInv, EventInv, NEW span, NEW by, Record(span, by),
         UNCHANGED <<docs, sweeping>>
  PROVE  EventInv'
<1> USE CompactionAssumption
<1>1. /\ made + 1 \in Events /\ made' = made + 1 /\ made \in Nat
      /\ Events \subseteq Nat
  BY DEF TypeInv, TypeOK, Record, Events
<1>2. \A e \in Events \ {made + 1} :
        /\ event'[e] = event[e] /\ task'[e] = task[e] /\ input'[e] = input[e]
  BY <1>1 DEF TypeInv, TypeOK, Record
<1>3. /\ event'[made + 1].status = "pending" /\ task'[made + 1] = "starting"
      /\ stale' = stale /\ refused' = refused
  BY <1>1 DEF TypeInv, TypeOK, Record
<1>4. /\ memory' = memory /\ lost' = lost /\ editor' = editor
      /\ sweep' = sweep /\ swept' = swept
  BY DEF docs, sweeping
<1>5. made + 1 \notin stale \cup sweep
  BY <1>1 DEF EventInv, FutureInv
<1>6. FutureInv'
  <2> SUFFICES ASSUME NEW e \in Events, e > made'
               PROVE  (event[e] = NoEvent /\ task[e] = "idle" /\ e \notin stale \cup sweep)'
    BY DEF FutureInv
  <2>1. e > made /\ e # made + 1
    BY <1>1
  <2> QED BY <2>1, <1>2, <1>3, <1>4 DEF EventInv, FutureInv, NoEvent, NoSpan
<1>7. MemoryInv'
  BY <1>2, <1>3, <1>4 DEF EventInv, MemoryInv
<1>8. SweepInv'
  BY <1>1, <1>2, <1>3, <1>4, <1>5 DEF EventInv, SweepInv, TypeInv, TypeOK
<1> QED BY <1>6, <1>7, <1>8 DEF EventInv

LEMMA SameEvents ==
  EventInv /\ UNCHANGED <<events, tasks, docs, sweeping>> => EventInv'
BY DEF EventInv, FutureInv, MemoryInv, SweepInv, NoEvent, NoSpan, events, tasks,
   docs, sweeping

LEMMA NextEvents == TypeInv /\ EventInv /\ [Next]_vars => EventInv'
<1> SUFFICES ASSUME TypeInv, EventInv, [Next]_vars PROVE EventInv'
  OBVIOUS
<1>0. /\ TypeOK /\ FutureInv /\ MemoryInv /\ SweepInv
      /\ Events \subseteq Nat /\ made \in Nat
      /\ task \in [Events -> {"idle", "starting", "calling", "closing"}]
      /\ event \in [Events -> [status : {"none", "pending", "completed"},
                           span : Spans, tries : 0..MaxAttempts,
                           by : {"trim", "admin"}, era : Nat]]
      /\ input \in [Events -> SUBSET Rows]
      /\ stale \in SUBSET Events /\ sweep \in SUBSET Events
  BY DEF TypeInv, TypeOK, EventInv, Events
<1>1. CASE UNCHANGED <<events, tasks, docs, sweeping>>
  BY <1>1, SameEvents
<1>2. ASSUME NEW span, NEW by, Record(span, by), UNCHANGED <<docs, sweeping>>
      PROVE  EventInv'
  BY <1>2, RecordEvents
<1>a. CASE Commit
  <2>1. UNCHANGED <<docs, sweeping>>
    BY <1>a DEF Commit
  <2>2. \/ \E span, by : Record(span, by)
        \/ UNCHANGED <<events, tasks>>
    BY <1>a DEF Commit, HandOver, Cover, RecordNothing
  <2> QED BY <2>1, <2>2, <1>1, <1>2
<1>b. CASE AdminCommits
  <2>1. UNCHANGED <<docs, sweeping>>
    BY <1>b DEF AdminCommits
  <2>2. \/ \E span, by : Record(span, by)
        \/ UNCHANGED <<events, tasks>>
    BY <1>b DEF AdminCommits, RecordNothing
  <2> QED BY <2>1, <2>2, <1>1, <1>2
<1>c. ASSUME NEW e \in Events, Reads(e) \/ CallFails(e) PROVE EventInv'
  <2>1. /\ task[e] # "idle"
        /\ task' = [task EXCEPT ![e] = "calling"] \/ task' = [task EXCEPT ![e] = "idle"]
        /\ UNCHANGED <<events, input, refused, docs, sweeping>>
    BY <1>c DEF Reads, CallFails
  <2>2. \A f \in Events \ {e} : task'[f] = task[f]
    BY <2>1, <1>0
  <2>3. task'[e] \in {"calling", "idle"}
    BY <2>1, <1>0
  <2>4. FutureInv'
    BY <2>1, <2>2, <1>0 DEF FutureInv, NoEvent, NoSpan, events, sweeping
  <2>5. MemoryInv'
    BY <2>1, <2>2, <2>3, <1>0 DEF MemoryInv, events, docs
  <2>6. SweepInv'
    BY <2>1, <2>2, <1>0 DEF SweepInv, events, sweeping
  <2> QED BY <2>4, <2>5, <2>6 DEF EventInv
<1>d. ASSUME NEW e \in Events, Writes(e) PROVE EventInv'
  <2>1. /\ task[e] = "calling" /\ task' = [task EXCEPT ![e] = "closing"]
        /\ UNCHANGED <<events, input, editor, sweeping>>
    BY <1>d DEF Writes
  <2>2. \A f \in Events \ {e} : task'[f] = task[f]
    BY <2>1, <1>0
  <2>3. memory \in Memories /\ lost \in Memories
    BY <1>0 DEF TypeOK
  <2>4. /\ memory'.edits = memory.edits /\ lost'.edits = lost.edits
        /\ memory.facts \subseteq memory'.facts
        /\ lost'.facts = lost.facts \ memory'.facts
        /\ e \notin refused' => input[e] \subseteq memory'.facts
        /\ refused' \ {e} = refused \ {e}
    BY <1>d, <2>3 DEF Writes, CompareAndSwap, Memories
  <2>5. FutureInv'
    BY <2>1, <2>2, <1>0 DEF FutureInv, NoEvent, NoSpan, events, sweeping
  <2>6. MemoryInv'
    BY <2>1, <2>2, <2>4, <1>0 DEF MemoryInv, events
  <2>7. SweepInv'
    BY <2>1, <2>2, <1>0 DEF SweepInv, events, sweeping
  <2> QED BY <2>5, <2>6, <2>7 DEF EventInv
<1>e. ASSUME NEW e \in Events, Closes(e) PROVE EventInv'
  <2>1. /\ task[e] = "closing" /\ task' = [task EXCEPT ![e] = "idle"]
        /\ stale' \subseteq stale
        /\ UNCHANGED <<made, input, refused, docs, sweeping>>
    BY <1>e DEF Closes, tasks
  <2>2. \A f \in Events \ {e} : task'[f] = task[f] /\ event'[f] = event[f]
    BY <1>e, <1>0 DEF Closes
  <2>3. task'[e] = "idle" /\ e <= made
    BY <2>1, <1>0 DEF FutureInv
  <2>4. FutureInv'
    BY <2>1, <2>2, <2>3, <1>0 DEF FutureInv, NoEvent, NoSpan, sweeping
  <2>5. MemoryInv'
    BY <2>1, <2>2, <2>3, <1>0 DEF MemoryInv, docs
  <2>6. SweepInv'
    BY <2>1, <2>2, <2>3, <1>0 DEF SweepInv, sweeping
  <2> QED BY <2>4, <2>5, <2>6 DEF EventInv
<1>f. ASSUME NEW e \in Events, GrowStale(e) PROVE EventInv'
  <2>1. /\ ~swept /\ event[e].status = "pending" /\ task[e] = "idle"
        /\ stale' = stale \cup {e}
        /\ UNCHANGED <<made, event, tasks, docs, sweeping>>
    BY <1>f DEF GrowStale
  <2>2. e <= made
    BY <2>1, <1>0 DEF FutureInv, NoEvent
  <2>3. FutureInv'
    BY <2>1, <2>2, <1>0 DEF FutureInv, NoEvent, NoSpan, tasks, sweeping
  <2>4. MemoryInv' /\ SweepInv'
    BY <2>1, <1>0 DEF MemoryInv, SweepInv, tasks, docs, sweeping
  <2> QED BY <2>3, <2>4 DEF EventInv
<1>g. ASSUME NEW e \in Events, Retry(e) PROVE EventInv'
  <2>1. /\ e \in sweep /\ sweep' = sweep \ {e}
        /\ UNCHANGED <<made, stale, refused, docs, swept>>
    BY <1>g DEF Retry
  <2>2. \A f \in Events \ {e} :
          task'[f] = task[f] /\ event'[f] = event[f] /\ input'[f] = input[f]
    BY <1>g, <1>0 DEF Retry
  <2>3. swept /\ task[e] = "idle" /\ e <= made
    BY <2>1, <1>0 DEF SweepInv, FutureInv
  <2>4. \/ event'[e].status = event[e].status /\ task'[e] = "idle" /\ input'[e] = input[e]
        \/ event'[e].status = "pending" /\ task'[e] # "closing"
    BY <1>g, <1>0, <2>3 DEF Retry
  <2>5. FutureInv'
    BY <2>1, <2>2, <2>3, <1>0 DEF FutureInv, NoEvent, NoSpan
  <2>6. MemoryInv'
    BY <2>1, <2>2, <2>4, <1>0 DEF MemoryInv, docs
  <2>7. SweepInv'
    BY <2>1, <2>2, <2>3, <1>0 DEF SweepInv
  <2> QED BY <2>5, <2>6, <2>7 DEF EventInv
<1>h. ASSUME NEW k \in Editors, EditorReads(k) \/ EditorWrites(k) PROVE EventInv'
  <2>1. /\ memory \in Memories /\ lost \in Memories /\ draft[k] \in Memories
        /\ editor \in [Editors -> {"none", "open", "saved"}]
    BY <1>0 DEF TypeOK
  <2>2. UNCHANGED <<events, tasks, sweeping>>
    BY <1>h DEF EditorReads, EditorWrites
  <2>3. /\ memory.facts \cup lost.facts \subseteq memory'.facts \cup lost'.facts
        /\ memory.edits \cup lost.edits \subseteq memory'.edits \cup lost'.edits
        /\ editor'[k] = "saved" => k \in memory'.edits
        /\ \A j \in Editors \ {k} : editor'[j] = editor[j]
    BY <1>h, <2>1 DEF EditorReads, EditorWrites, Memories
  <2>4. FutureInv' /\ SweepInv'
    BY <2>2, <1>0 DEF FutureInv, SweepInv, NoEvent, NoSpan, events, tasks, sweeping
  <2>5. MemoryInv'
    BY <2>2, <2>3, <1>0 DEF MemoryInv, events, tasks
  <2> QED BY <2>4, <2>5 DEF EventInv
<1>i. CASE Restart
  <2>1. /\ task' = [f \in Events |-> "idle"] /\ swept' = FALSE /\ sweep' = {}
        /\ UNCHANGED <<events, input, refused, docs>>
    BY <1>i DEF Restart
  <2>2. FutureInv' /\ SweepInv'
    BY <2>1, <1>0 DEF FutureInv, SweepInv, NoEvent, NoSpan, events
  <2>3. MemoryInv'
    BY <2>1, <1>0 DEF MemoryInv, events, docs
  <2> QED BY <2>2, <2>3 DEF EventInv
<1>j. CASE SweepStarts
  <2>1. /\ ~swept /\ swept' = TRUE /\ sweep' \subseteq stale
        /\ UNCHANGED <<events, tasks, docs>>
    BY <1>j DEF SweepStarts, Retryable
  <2>2. FutureInv' /\ SweepInv'
    BY <2>1, <1>0 DEF FutureInv, SweepInv, NoEvent, NoSpan, events, tasks
  <2>3. MemoryInv'
    BY <2>1, <1>0 DEF MemoryInv, events, tasks, docs
  <2> QED BY <2>2, <2>3 DEF EventInv
<1>k. CASE UNCHANGED vars
  BY <1>k, <1>1 DEF vars
<1>l. ASSUME \/ \E m \in Inbound : Arrive(m) \/ Begin(m)
             \/ \E o \in Outbound : Proactive(o) \/ Reply(o)
             \/ \E D \in SUBSET Rows : Delete(D) \/ Trim(D) \/ AdminReads(D)
             \/ ReadMark \/ EndUnstored \/ AdminChecks
      PROVE  EventInv'
  BY <1>l, <1>1 DEF Arrive, Begin, Proactive, Reply, Delete, Trim, AdminReads,
     AdminChecks, ReadMark, EndUnstored, EndTurn
<1> QED BY <1>a, <1>b, <1>c, <1>d, <1>e, <1>f, <1>g, <1>h, <1>i, <1>j, <1>k,
           <1>l DEF Next

IInv == TypeInv /\ EventInv

LEMMA Inductive == Spec => []IInv
<1>1. Init => IInv
  BY InitTypes, InitEvents DEF IInv
<1>2. IInv /\ [Next]_vars => IInv'
  BY NextTypes, NextEvents DEF IInv
<1> QED BY <1>1, <1>2, PTL DEF Spec

(* What a compaction has written to the memory no other compaction undoes, *)
(* and none undoes an edit: only an editor does, who writes over what it   *)
(* has not read (write_memory_async).                                      *)
THEOREM NothingIsUndone == Spec => []NothingUndone
<1>1. IInv => NothingUndone
  <2> SUFFICES ASSUME IInv PROVE NothingUndone
    OBVIOUS
  <2>1. made \in 0..MaxEvents /\ MaxEvents \in Nat
    BY CompactionAssumption DEF IInv, TypeInv, TypeOK
  <2>2. 1..made \subseteq Events
    BY <2>1 DEF Events
  <2> QED BY <2>2 DEF IInv, EventInv, MemoryInv, NothingUndone
<1> QED BY Inductive, <1>1, PTL

(* The sweep at start-up counts an attempt only for an event that nobody   *)
(* is compacting (_GRACE_SECONDS).                                         *)
THEOREM LiveIsSpared == Spec => SweepSparesLive
<1>1. ASSUME IInv, [Next]_vars, NEW e \in Events, event'[e].tries # event[e].tries
      PROVE  task[e] = "idle"
  <2>0. /\ FutureInv /\ SweepInv /\ made \in Nat
        /\ event \in [Events -> [status : {"none", "pending", "completed"},
                           span : Spans, tries : 0..MaxAttempts,
                           by : {"trim", "admin"}, era : Nat]]
    BY <1>1 DEF IInv, TypeInv, TypeOK, EventInv
  <2>1. ASSUME NEW span, NEW by, Record(span, by) PROVE task[e] = "idle"
    <3>1. e = made + 1
      BY <1>1, <2>0, <2>1 DEF Record
    <3> QED BY <3>1, <2>0 DEF FutureInv
  <2>2. CASE Commit \/ AdminCommits
    <3>1. (\E span, by : Record(span, by)) \/ event' = event
      BY <2>2 DEF Commit, HandOver, Cover, AdminCommits, RecordNothing, events
    <3> QED BY <3>1, <2>1, <1>1
  <2>3. ASSUME NEW f \in Events, Closes(f) PROVE FALSE
    BY <1>1, <2>0, <2>3 DEF Closes
  <2>4. ASSUME NEW f \in Events, Retry(f) PROVE task[e] = "idle"
    <3>1. f = e /\ e \in sweep
      BY <1>1, <2>0, <2>4 DEF Retry
    <3> QED BY <3>1, <2>0 DEF SweepInv
  <2>5. CASE event' = event
    BY <2>5, <1>1
  <2> QED BY <1>1, <2>2, <2>3, <2>4, <2>5
         DEF Next, vars, Arrive, Begin, Proactive, Reply, Delete, Trim, AdminReads,
             AdminChecks, ReadMark, EndUnstored, EndTurn, Reads, CallFails, Writes,
             GrowStale, EditorReads, EditorWrites, Restart, SweepStarts, events
<1>2. IInv /\ [Next]_vars => [\A e \in Events :
         event'[e].tries # event[e].tries => task[e] = "idle"]_vars
  BY <1>1
<1> QED BY Inductive, <1>2, PTL DEF Spec, SweepSparesLive

-----------------------------------------------------------------------------
(* The watermark and what is handed over                                   *)

(* What is in the table, in the view of a turn or on its way to an event   *)
(* was stored once, so that no row to come is meant.                       *)
BornInv ==
  /\ \A r \in Rows : seq[r] # 0 => r \in born
  /\ view \cup dropped \subseteq born

(* The events of turns, since the last reset of the watermark, are below   *)
(* it, also below the watermark that a transaction works with.             *)
Trimmed(e) == e \in 1..made /\ event[e].by = "trim" /\ event[e].era = era
TrimmedInv ==
  /\ \A e \in 1..made : event[e].era <= era
  /\ \A e \in 1..made : Trimmed(e) =>
       \A r \in event[e].span.rows :
         r \in born /\ seq[r] <= mark /\ (phase = "committing" => seq[r] <= known)

(* What a turn drops is older than what it keeps.                          *)
Pressing == phase \in {"recording", "committing"}
DroppedInv ==
  Pressing => \A d \in dropped, r \in view \ (dropped \cup Blank) : seq[d] < seq[r]

TrimInv == BornInv /\ TrimmedInv /\ DroppedInv /\ TrimsApart

LEMMA InitTrims == Init => TrimInv
<1> SUFFICES ASSUME Init PROVE TrimInv
  OBVIOUS
<1>1. \A r \in Rows : seq[r] # 0 => r \in born
  BY DEF Init
<1>2. made = 0 /\ 1..made = {} /\ phase = "idle" /\ view = {} /\ dropped = {}
  BY DEF Init
<1> QED BY <1>1, <1>2 DEF TrimInv, BornInv, TrimmedInv, DroppedInv, Pressing, TrimsApart

(* The events and their rows: what no action changes once it is written.   *)
KeepsSpans ==
  /\ made' = made
  /\ \A e \in 1..made : /\ event'[e].span = event[e].span
                        /\ event'[e].by = event[e].by /\ event'[e].era = event[e].era

(* Steps that let the turn and the rows alone, but may raise the mark.     *)
LEMMA StillTrims ==
  ASSUME TypeInv, TrimInv, KeepsSpans, mark' \in Nat, mark <= mark',
         UNCHANGED <<seq, born, era, turn>>
  PROVE  TrimInv'
<1>1. \A e \in 1..made : event[e].span.rows \in SUBSET Rows
  BY CompactionAssumption DEF TypeInv, TypeOK, Events, Spans
<1>2. mark \in Nat /\ known \in Nat /\ seq \in [Rows -> Nat] /\ era \in Nat
  BY DEF TypeInv, TypeOK
<1>3. BornInv' /\ DroppedInv'
  BY DEF TrimInv, BornInv, DroppedInv, Pressing, turn
<1>4. TrimmedInv'
  <2>1. ASSUME NEW e \in 1..made, Trimmed(e)', NEW r \in event[e].span.rows
        PROVE  r \in born /\ seq[r] <= mark' /\ (phase = "committing" => seq[r] <= known)
    <3>1. Trimmed(e)
      BY <2>1 DEF Trimmed, KeepsSpans
    <3>2. r \in born /\ seq[r] <= mark /\ (phase = "committing" => seq[r] <= known)
      BY <3>1 DEF TrimInv, TrimmedInv
    <3>3. seq[r] \in Nat
      BY <1>1, <1>2
    <3> QED BY <3>2, <3>3, <1>2
  <2>2. made' = made /\ \A e \in 1..made : event'[e].span = event[e].span /\ event'[e].era <= era
    BY DEF TrimInv, TrimmedInv, KeepsSpans
  <2> QED BY <2>1, <2>2 DEF TrimmedInv, turn
<1>5. TrimsApart'
  BY DEF TrimInv, TrimsApart, KeepsSpans
<1> QED BY <1>3, <1>4, <1>5 DEF TrimInv

(* A new row: the events and the turn know only older ones.                *)
LEMMA AddTrims ==
  ASSUME TypeInv, TrimInv, NEW q \in Rows, Add(q), KeepsSpans,
         UNCHANGED turn \/ EndTurn
  PROVE  TrimInv'
<1>1. /\ mark' = mark /\ era' = era /\ q \notin born /\ born' = born \cup {q}
      /\ \A r \in Rows \ {q} : seq'[r] = seq[r]
  BY AddIs
<1>2. \A e \in 1..made : event[e].span.rows \in SUBSET Rows
  BY CompactionAssumption DEF TypeInv, TypeOK, Events, Spans
<1>3. /\ view' \cup dropped' \subseteq view \cup dropped
      /\ \/ phase' = "idle"
         \/ phase' = phase /\ view' = view /\ dropped' = dropped /\ known' = known
  BY DEF turn, EndTurn
<1>4. view \subseteq Rows /\ dropped \subseteq Rows
  BY DEF TypeInv, TypeOK
<1>5. BornInv'
  BY <1>1, <1>3 DEF TrimInv, BornInv
<1>6. DroppedInv'
  BY <1>1, <1>3, <1>4 DEF TrimInv, BornInv, DroppedInv, Pressing
<1>7. TrimmedInv'
  <2>1. ASSUME NEW e \in 1..made, Trimmed(e)', NEW r \in event[e].span.rows
        PROVE  /\ r \in born' /\ seq'[r] <= mark'
               /\ phase' = "committing" => seq'[r] <= known'
    <3>1. Trimmed(e)
      BY <1>1, <2>1 DEF Trimmed, KeepsSpans
    <3>2. r \in born /\ seq[r] <= mark /\ (phase = "committing" => seq[r] <= known)
      BY <3>1 DEF TrimInv, TrimmedInv
    <3> QED BY <1>1, <1>2, <1>3, <3>2
  <2>2. made' = made /\ \A e \in 1..made : event'[e].span = event[e].span /\ event'[e].era <= era'
    BY <1>1 DEF TrimInv, TrimmedInv, KeepsSpans
  <2> QED BY <2>1, <2>2 DEF TrimmedInv
<1>8. TrimsApart'
  BY DEF TrimInv, TrimsApart, KeepsSpans
<1> QED BY <1>5, <1>6, <1>7, <1>8 DEF TrimInv

(* The oldest rows of a set are older than the others.                     *)
LEMMA OldestFirst ==
  ASSUME seq \in [Rows -> Nat], NEW S \in SUBSET Rows, NEW n \in Nat,
         NEW d \in Oldest(S, n), NEW r \in S \ Oldest(S, n)
  PROVE  seq[d] < seq[r]
<1> DEFINE Below(q) == {p \in S : seq[p] < seq[q]}
<1>1. IsFiniteSet(Below(d)) /\ d \in Rows /\ r \in Rows
  BY CompactionAssumption, FS_Subset DEF Oldest
<1>2. Cardinality(Below(d)) < n /\ ~ (Cardinality(Below(r)) < n)
  BY DEF Oldest
<1>3. SUFFICES ASSUME ~ (seq[d] < seq[r]) PROVE FALSE
  OBVIOUS
<1>4. seq[d] \in Nat /\ seq[r] \in Nat /\ \A p \in S : seq[p] \in Nat
  BY <1>1
<1>5. Below(r) \subseteq Below(d)
  BY <1>3, <1>4
<1> HIDE DEF Below
<1>6. /\ IsFiniteSet(Below(r)) /\ Cardinality(Below(r)) <= Cardinality(Below(d))
  BY <1>1, <1>5, FS_Subset
<1>7. Cardinality(Below(r)) \in Nat /\ Cardinality(Below(d)) \in Nat
  BY <1>1, <1>6, FS_CardinalityType
<1> QED BY <1>2, <1>6, <1>7

LEMMA BeginTrims ==
  ASSUME TypeInv, TrimInv, NEW m \in Inbound, Begin(m)
  PROVE  TrimInv'
<1> USE CompactionAssumption
<1>1. /\ seq \in [Rows -> Nat] /\ Bounded /\ mark \in Nat /\ phase = "idle"
  BY DEF TypeInv, TypeOK, Begin
<1>2. /\ Earlier(m) \in SUBSET Stored /\ Stored \in SUBSET Rows
      /\ Earlier(m) \in SUBSET Rows
  BY DEF Earlier, Loaded, Visible, Stored
<1>3. /\ Overflow(m) \in SUBSET Earlier(m) /\ Window(m) \in SUBSET Earlier(m)
  BY DEF Overflow, Window, Oldest
<1>6. \A d \in Overflow(m), r \in Window(m) \ Overflow(m) : seq[d] < seq[r]
  <2> SUFFICES ASSUME NEW d \in Overflow(m), NEW r \in Window(m) \ Overflow(m)
               PROVE  seq[d] < seq[r]
    OBVIOUS
  <2> DEFINE total == Cardinality(Earlier(m)) + 1
             count == Smaller(total - 1, Smaller(total - Limit + Surplus, PerTurn))
  <2>1. Cardinality(Earlier(m)) \in Nat
    BY <1>2, FS_Subset, FS_CardinalityType
  <2>2. total > Limit /\ Overflow(m) = Oldest(Earlier(m), count)
    BY DEF Overflow
  <2>3. count \in Nat
    <3>1. total - 1 \in Nat /\ total - Limit + Surplus \in Nat /\ PerTurn \in Nat
      BY <2>1, <2>2
    <3> HIDE DEF total
    <3> QED BY <3>1 DEF Smaller
  <2> HIDE DEF count, total
  <2>4. r \in Earlier(m) \ Oldest(Earlier(m), count)
    BY <2>2, <1>3
  <2> QED BY <1>1, <1>2, <2>2, <2>3, <2>4, OldestFirst
<1>7. /\ dropped' \subseteq Overflow(m) /\ Overflow(m) \ Blank \subseteq dropped'
      /\ view' = Window(m) /\ phase' # "committing"
      /\ UNCHANGED <<seq, born, mark, era, made, event>>
  BY DEF Begin, events, table
<1>8. Stored \subseteq born
  BY DEF TrimInv, BornInv, Stored
<1> HIDE DEF Overflow, Window
<1>9. BornInv'
  BY <1>2, <1>3, <1>7, <1>8 DEF TrimInv, BornInv
<1>10. DroppedInv'
  BY <1>6, <1>7 DEF DroppedInv
<1>11. TrimmedInv'
  BY <1>1, <1>7 DEF TrimInv, TrimmedInv, Trimmed
<1>12. TrimsApart'
  BY <1>7 DEF TrimInv, TrimsApart
<1> QED BY <1>9, <1>10, <1>11, <1>12 DEF TrimInv

LEMMA DeleteTrims ==
  ASSUME TypeInv, TrimInv, NEW D \in SUBSET Rows, Delete(D)
  PROVE  TrimInv'
<1>1. /\ seq \in [Rows -> Nat] /\ mark \in Nat /\ era \in Nat /\ phase = "idle"
  BY DEF TypeInv, TypeOK, Delete
<1>2. /\ \A r \in Rows : seq'[r] = 0 \/ seq'[r] = seq[r]
      /\ born' = born /\ UNCHANGED <<turn, made, event>>
      /\ \/ mark' = 0 /\ era' = era + 1
         \/ UNCHANGED <<mark, era>>
  BY <1>1 DEF Delete, Remove, events
<1>3. BornInv' /\ DroppedInv'
  BY <1>1, <1>2 DEF TrimInv, BornInv, DroppedInv, Pressing, turn
<1>4. TrimmedInv'
  <2>1. \A e \in 1..made : event[e].era <= era /\ event[e].era \in Nat
    BY CompactionAssumption DEF TrimInv, TrimmedInv, TypeInv, TypeOK, Events
  <2>2. \A e \in 1..made : event'[e].era <= era'
    BY <1>1, <1>2, <2>1
  <2>3. ASSUME NEW e \in 1..made, Trimmed(e)', NEW r \in event[e].span.rows
        PROVE  r \in born /\ seq'[r] <= mark'
    <3>1. event[e].by = "trim" /\ event[e].era = era'
      BY <1>2, <2>3 DEF Trimmed
    <3>2. UNCHANGED <<mark, era>>
      BY <1>1, <1>2, <2>1, <3>1
    <3>3. r \in born /\ seq[r] <= mark
      BY <3>1, <3>2 DEF TrimInv, TrimmedInv, Trimmed
    <3>4. event[e].span.rows \in SUBSET Rows
      BY CompactionAssumption DEF TypeInv, TypeOK, Events, Spans
    <3> QED BY <1>1, <1>2, <3>2, <3>3, <3>4
  <2> QED BY <1>1, <1>2, <2>2, <2>3 DEF TrimmedInv, turn
<1>5. TrimsApart'
  BY <1>2 DEF TrimInv, TrimsApart
<1> QED BY <1>3, <1>4, <1>5 DEF TrimInv

(* The rows of the transaction are above the watermark it read, and the    *)
(* watermark comes to stand on the last of them.                           *)
LEMMA CommitTrims ==
  ASSUME TypeInv, TrimInv, Commit
  PROVE  TrimInv'
<1> USE CompactionAssumption
<1> DEFINE R == Above(known)
<1>1. /\ seq \in [Rows -> Nat] /\ Bounded /\ mark \in Nat /\ known \in Nat
      /\ made \in Nat /\ phase = "committing" /\ dropped \subseteq Rows
  BY DEF TypeInv, TypeOK, Commit
<1>2. /\ dropped' = {} /\ view' = view /\ phase' \notin {"committing", "recording"}
      /\ UNCHANGED <<seq, born, era>>
  BY DEF Commit
<1>3. BornInv' /\ DroppedInv'
  BY <1>2 DEF TrimInv, BornInv, DroppedInv, Pressing
<1>4. \/ R # {} /\ Record(Span(R), "trim") /\ mark' = TopOf(R)
      \/ R # {} /\ RecordNothing /\ mark' = TopOf(R)
      \/ RecordNothing /\ UNCHANGED mark
  BY DEF Commit, HandOver, Cover
<1>5. CASE RecordNothing /\ UNCHANGED mark
  <2>1. KeepsSpans
    BY <1>5 DEF RecordNothing, events, KeepsSpans
  <2>2. TrimmedInv'
    BY <1>2, <1>5, <2>1 DEF TrimInv, TrimmedInv, Trimmed, KeepsSpans
  <2>3. TrimsApart'
    BY <2>1 DEF TrimInv, TrimsApart, KeepsSpans
  <2> QED BY <1>3, <2>2, <2>3 DEF TrimInv
<1>7. CASE R # {} /\ RecordNothing /\ mark' = TopOf(R)
  <2>1. KeepsSpans
    BY <1>7 DEF RecordNothing, events, KeepsSpans
  <2>2. PICK t \in R : TRUE
    BY <1>7
  <2>3. t \in Rows /\ R \in SUBSET Rows
    BY <1>1 DEF Above
  <2>4. seq[t] <= mark' /\ seq[t] > known /\ mark' \in Nat /\ seq[t] \in Nat
    BY <1>1, <1>7, <2>2, <2>3, TopIs DEF Above
  <2>5. \A e \in 1..made : event[e].span.rows \in SUBSET Rows
    BY DEF TypeInv, TypeOK, Events, Spans
  <2>6. ASSUME NEW e \in 1..made, Trimmed(e)', NEW r \in event[e].span.rows
        PROVE  r \in born /\ seq[r] <= mark'
    <3>1. Trimmed(e)
      BY <1>2, <2>1, <2>6 DEF Trimmed, KeepsSpans
    <3>2. r \in born /\ seq[r] <= known /\ seq[r] \in Nat
      BY <1>1, <2>5, <2>6, <3>1 DEF TrimInv, TrimmedInv
    <3> QED BY <1>1, <2>4, <3>2
  <2>7. TrimmedInv'
    BY <1>2, <2>1, <2>6 DEF TrimInv, TrimmedInv, KeepsSpans
  <2>8. TrimsApart'
    BY <2>1 DEF TrimInv, TrimsApart, KeepsSpans
  <2> QED BY <1>3, <2>7, <2>8 DEF TrimInv
<1>6. CASE R # {} /\ Record(Span(R), "trim") /\ mark' = TopOf(R)
  <2>1. /\ Span(R).rows = R /\ R \subseteq Rows
        /\ \A r \in R : seq[r] <= mark' /\ seq[r] > known /\ r \in born
        /\ mark' \in Nat
    BY <1>1, <1>6, SpanIs, TopIs DEF TrimInv, BornInv, Above
  <2> DEFINE n == made + 1
  <2>2. made' = n /\ n \in Events
    <3>1. made' = n /\ made < MaxEvents
      BY <1>6 DEF Record
    <3> QED BY <1>1, <3>1 DEF Events
  <2>3. /\ event'[n].span.rows = R /\ event'[n].by = "trim" /\ event'[n].era = era
        /\ \A e \in Events \ {n} : event'[e] = event[e]
    BY <1>6, <2>1, <2>2 DEF Record, TypeInv, TypeOK
  <2>4. 1..made \subseteq Events \ {n} /\ 1..made' = (1..made) \cup {n}
    BY <1>1, <2>2 DEF Events
  <2> HIDE DEF R, n
  <2>5. PICK t \in R : TRUE
    BY <1>6
  <2>6. \A e \in 1..made : Trimmed(e) =>
          \A r \in event[e].span.rows : r \in born /\ seq[r] <= known
    BY <1>1 DEF TrimInv, TrimmedInv
  <2>7. \A e \in 1..made : Trimmed(e) =>
          /\ \A r \in event[e].span.rows : seq[r] <= mark'
          /\ event[e].span.rows \cap R = {}
    <3> SUFFICES ASSUME NEW e \in 1..made, Trimmed(e), NEW r \in event[e].span.rows
                 PROVE  seq[r] <= mark' /\ r \notin R
      OBVIOUS
    <3>1. event[e].span.rows \in SUBSET Rows
      BY <2>4 DEF TypeInv, TypeOK, Spans
    <3>2. seq[r] \in Nat /\ seq[t] \in Nat /\ seq[r] <= known
      BY <1>1, <2>1, <2>6, <3>1
    <3>3. seq[t] <= mark' /\ seq[t] > known
      BY <2>1
    <3>4. seq[r] <= mark'
      BY <1>1, <2>1, <3>2, <3>3
    <3>5. r \notin R
      BY <1>1, <2>1, <3>2
    <3> QED BY <3>4, <3>5
  <2>8. TrimmedInv'
    <3>1. era \in Nat
      BY DEF TypeInv, TypeOK
    <3>2. \A e \in 1..made' : event'[e].era <= era'
      BY <1>2, <2>3, <2>4, <3>1 DEF TrimInv, TrimmedInv
    <3>3. \A e \in 1..made : Trimmed(e)' => Trimmed(e)
      BY <1>2, <2>3, <2>4 DEF Trimmed
    <3>4. ASSUME NEW e \in 1..made', Trimmed(e)', NEW r \in event'[e].span.rows
          PROVE  r \in born /\ seq[r] <= mark'
      <4>1. CASE e = n
        BY <4>1, <3>4, <2>1, <2>3
      <4>2. CASE e # n
        <5>1. e \in 1..made /\ event'[e] = event[e]
          BY <4>2, <2>3, <2>4
        <5>2. Trimmed(e)
          BY <3>3, <3>4, <5>1
        <5> QED BY <5>1, <5>2, <2>6, <2>7, <3>4
      <4> QED BY <4>1, <4>2
    <3> QED BY <1>2, <3>2, <3>4 DEF TrimmedInv
  <2>9. TrimsApart'
    <3> SUFFICES ASSUME NEW e \in 1..made', NEW f \in 1..made', e # f,
                        event'[e].by = "trim", event'[f].by = "trim",
                        event'[e].era = event'[f].era
                 PROVE  event'[e].span.rows \cap event'[f].span.rows = {}
      BY DEF TrimsApart
    <3>1. CASE e = n
      <4>1. f \in 1..made /\ event'[f] = event[f]
        BY <3>1, <2>3, <2>4
      <4>2. Trimmed(f)
        BY <4>1, <3>1, <2>3 DEF Trimmed
      <4> QED BY <3>1, <4>1, <4>2, <2>3, <2>7
    <3>2. CASE f = n
      <4>1. e \in 1..made /\ event'[e] = event[e]
        BY <3>2, <2>3, <2>4
      <4>2. Trimmed(e)
        BY <4>1, <3>2, <2>3 DEF Trimmed
      <4> QED BY <3>2, <4>1, <4>2, <2>3, <2>7
    <3>3. CASE e # n /\ f # n
      BY <3>3, <2>3, <2>4 DEF TrimInv, TrimsApart
    <3> QED BY <3>1, <3>2, <3>3
  <2> QED BY <1>3, <2>8, <2>9 DEF TrimInv
<1> QED BY <1>4, <1>5, <1>6, <1>7

(* An admin compaction is no event of a turn, and if it lowers the mark it *)
(* starts an era in which no turn has trimmed yet.                         *)
LEMMA AdminTrims ==
  ASSUME TypeInv, TrimInv, AdminCommits
  PROVE  TrimInv'
<1> USE CompactionAssumption
<1>1. /\ mark \in Nat /\ asked.span.hi \in Nat /\ known \in Nat /\ made \in Nat
      /\ seq \in [Rows -> Nat] /\ era \in Nat
  BY DEF TypeInv, TypeOK, Asks, Spans
<1>2. /\ UNCHANGED <<seq, born, turn>>
      /\ \/ era' = era /\ mark' \in Nat /\ mark <= mark'
         \/ era' = era + 1
  BY <1>1 DEF AdminCommits
<1>3. \A e \in 1..made' : \/ e \in 1..made /\ event'[e] = event[e]
                          \/ event'[e].by = "admin" /\ event'[e].era = era
  <2>1. CASE RecordNothing
    BY <2>1 DEF RecordNothing, events
  <2>2. CASE Record(asked.span, "admin")
    <3> DEFINE n == made + 1
    <3>1. made' = n /\ n \in Events
      BY <1>1, <2>2 DEF Record, Events, TypeInv, TypeOK
    <3>2. /\ event'[n].by = "admin" /\ event'[n].era = era
          /\ \A e \in Events \ {n} : event'[e] = event[e]
      BY <2>2, <3>1 DEF Record, TypeInv, TypeOK
    <3>3. 1..made \subseteq Events \ {n} /\ 1..made' = (1..made) \cup {n}
      BY <1>1, <3>1 DEF Events
    <3> QED BY <3>2, <3>3
  <2> QED BY <2>1, <2>2 DEF AdminCommits
<1>4. BornInv' /\ DroppedInv'
  BY <1>2 DEF TrimInv, BornInv, DroppedInv, Pressing, turn
<1>5. TrimsApart'
  BY <1>3 DEF TrimInv, TrimsApart
<1>6. \A e \in 1..made : event[e].era \in Nat /\ event[e].era <= era
  BY DEF TrimInv, TrimmedInv, TypeInv, TypeOK, Events
<1>7. \A e \in 1..made' : event'[e].era <= era'
  BY <1>1, <1>2, <1>3, <1>6
<1>8. ASSUME NEW e \in 1..made', Trimmed(e)', NEW r \in event'[e].span.rows
      PROVE  r \in born /\ seq[r] <= mark' /\ (phase = "committing" => seq[r] <= known)
  <2>1. e \in 1..made /\ event'[e] = event[e]
    BY <1>3, <1>8 DEF Trimmed
  <2>2. era' = era /\ mark' \in Nat /\ mark <= mark'
    BY <1>1, <1>2, <1>6, <1>8, <2>1 DEF Trimmed
  <2>3. Trimmed(e)
    BY <1>8, <2>1, <2>2 DEF Trimmed
  <2>4. r \in born /\ seq[r] <= mark /\ (phase = "committing" => seq[r] <= known)
    BY <1>8, <2>1, <2>3 DEF TrimInv, TrimmedInv
  <2>5. event[e].span.rows \in SUBSET Rows
    BY <2>1 DEF TypeInv, TypeOK, Events, Spans
  <2>6. seq[r] \in Nat
    BY <1>1, <1>8, <2>1, <2>5
  <2> QED BY <1>1, <2>2, <2>4, <2>6
<1>9. TrimmedInv'
  BY <1>2, <1>7, <1>8 DEF TrimmedInv, turn
<1> QED BY <1>4, <1>5, <1>9 DEF TrimInv

LEMMA NextTrims == TypeInv /\ TrimInv /\ [Next]_vars => TrimInv'
<1> SUFFICES ASSUME TypeInv, TrimInv, [Next]_vars PROVE TrimInv'
  OBVIOUS
<1>0. /\ mark \in Nat /\ Inbound \subseteq Rows /\ Outbound \subseteq Rows
      /\ 1..made \subseteq Events
      /\ event \in [Events -> [status : {"none", "pending", "completed"},
                           span : Spans, tries : 0..MaxAttempts,
                           by : {"trim", "admin"}, era : Nat]]
  BY CompactionAssumption DEF TypeInv, TypeOK, Rows, Events
<1>1. ASSUME UNCHANGED <<made, event>> PROVE KeepsSpans
  BY <1>1 DEF KeepsSpans
<1>2. CASE UNCHANGED <<table, turn>> /\ KeepsSpans
  BY <1>0, <1>2, StillTrims DEF table
<1>a. ASSUME NEW m \in Inbound, Arrive(m) PROVE TrimInv'
  BY <1>a, <1>0, <1>1, AddTrims DEF Arrive, events
<1>b. ASSUME NEW o \in Outbound, Proactive(o) PROVE TrimInv'
  BY <1>b, <1>0, <1>1, AddTrims DEF Proactive, events
<1>c. ASSUME NEW o \in Outbound, Reply(o) PROVE TrimInv'
  BY <1>c, <1>0, <1>1, AddTrims DEF Reply, EndTurn, events
<1>d. ASSUME NEW D \in SUBSET Rows, Trim(D) PROVE TrimInv'
  <2>1. /\ dropped' = D /\ view' = view /\ phase' # "committing" /\ D \subseteq view
        /\ \A d \in D, r \in view \ (D \cup Blank) : seq[d] < seq[r]
        /\ UNCHANGED <<table, made, event>>
    BY <1>d DEF Trim, Prefixes, events
  <2>2. BornInv' /\ DroppedInv'
    BY <2>1 DEF TrimInv, BornInv, DroppedInv, table
  <2>3. TrimmedInv' /\ TrimsApart'
    BY <2>1 DEF TrimInv, TrimmedInv, Trimmed, TrimsApart, table
  <2> QED BY <2>2, <2>3 DEF TrimInv
<1>e. CASE ReadMark
  <2>1. /\ phase = "recording" /\ phase' = "committing" /\ known' = mark
        /\ UNCHANGED <<table, view, dropped, made, event>>
    BY <1>e DEF ReadMark, events
  <2>2. BornInv' /\ DroppedInv'
    BY <2>1 DEF TrimInv, BornInv, DroppedInv, Pressing, table
  <2>3. TrimmedInv' /\ TrimsApart'
    BY <2>1, <1>0 DEF TrimInv, TrimmedInv, Trimmed, TrimsApart, table
  <2> QED BY <2>2, <2>3 DEF TrimInv
<1>f. CASE EndUnstored \/ Restart
  <2>1. /\ phase' = "idle" /\ view' = {} /\ dropped' = {}
        /\ UNCHANGED <<table, made, event>>
    BY <1>f DEF EndUnstored, EndTurn, Restart, events
  <2>2. BornInv' /\ DroppedInv'
    BY <2>1 DEF TrimInv, BornInv, DroppedInv, Pressing, table
  <2>3. TrimmedInv' /\ TrimsApart'
    BY <2>1 DEF TrimInv, TrimmedInv, Trimmed, TrimsApart, table
  <2> QED BY <2>2, <2>3 DEF TrimInv
<1>g. ASSUME NEW e \in Events, Closes(e) \/ Retry(e) PROVE TrimInv'
  <2>1. /\ UNCHANGED <<table, turn, made>>
        /\ \/ event' = event
           \/ event' = [event EXCEPT ![e].status = "completed"]
           \/ event' = [event EXCEPT ![e].tries = MaxAttempts]
           \/ event' = [event EXCEPT ![e].tries = @ + 1]
    BY <1>g DEF Closes, Retry
  <2>2. KeepsSpans
    BY <2>1, <1>0 DEF KeepsSpans
  <2> QED BY <2>1, <2>2, <1>2
<1>h. ASSUME \/ \E D \in SUBSET Rows : AdminReads(D)
             \/ \E e \in Events : \/ Reads(e) \/ CallFails(e) \/ Writes(e)
                                  \/ GrowStale(e)
             \/ \E k \in Editors : EditorReads(k) \/ EditorWrites(k)
             \/ AdminChecks \/ SweepStarts \/ UNCHANGED vars
      PROVE  TrimInv'
  <2>1. UNCHANGED <<table, turn, made, event>>
    BY <1>h DEF AdminReads, AdminChecks, Reads, CallFails, Writes, GrowStale,
       EditorReads, EditorWrites, SweepStarts, vars, events
  <2> QED BY <2>1, <1>1, <1>2
<1> QED BY <1>a, <1>b, <1>c, <1>d, <1>e, <1>f, <1>g, <1>h, BeginTrims, DeleteTrims,
           CommitTrims, AdminTrims DEF Next

(* A row that a turn showed the model and that is below the watermark of   *)
(* its transaction, or below the live one when an admin is about to lower  *)
(* that, was handed over.                                                  *)
Covered(r) == \E e \in 1..made : r \in event[e].span.rows
CoveredInv ==
  phase # "idle" => \A r \in view \ Blank :
    /\ phase = "committing" /\ mark < seq[r] /\ seq[r] <= known => Covered(r)
    /\ /\ asked.step = "raises" /\ asked.span.hi < seq[r]
       /\ seq[r] <= mark \/ (phase = "committing" /\ seq[r] <= known)
       => Covered(r)

LEMMA StillCovers ==
  ASSUME TypeInv, CoveredInv, KeepsSpans, UNCHANGED <<view, phase, mark, known, asked>>,
         phase # "idle" => \A r \in view : seq'[r] = seq[r]
  PROVE  CoveredInv'
BY DEF CoveredInv, Covered, KeepsSpans

(* The transaction of a trigger hands over what it hides.                  *)
LEMMA CommitCovers ==
  ASSUME TypeInv, TrimInv, Commit, NEW r \in view \ Blank,
         seq[r] > known, seq[r] > mark, seq[r] <= mark'
  PROVE  \E e \in 1..made' : r \in event'[e].span.rows
<1> USE CompactionAssumption
<1> DEFINE R == Above(known)
           n == made + 1
<1>1. /\ seq \in [Rows -> Nat] /\ Bounded /\ mark \in Nat /\ known \in Nat
      /\ made \in Nat /\ dropped \subseteq Rows /\ view \subseteq Rows
      /\ phase = "committing"
  BY DEF TypeInv, TypeOK, Commit
<1>2. R # {} /\ Cover(R)
  BY <1>1 DEF Commit, HandOver
<1>3. R \in SUBSET Rows /\ mark' = TopOf(R)
  BY <1>1, <1>2 DEF Above, Cover
<1>4. CASE r \in dropped
  <2>1. r \in R /\ ~ (R \subseteq Blank)
    BY <1>4 DEF Above
  <2>2. Record(Span(R), "trim") /\ Span(R).rows = R
    BY <1>1, <1>2, <1>3, <2>1, SpanIs DEF Cover
  <2>3. made' = n /\ n \in Events /\ n \in 1..made'
    BY <1>1, <2>2 DEF Record, Events, TypeInv, TypeOK
  <2>4. event'[n].span.rows = R
    BY <2>2, <2>3 DEF Record, TypeInv, TypeOK
  <2> QED BY <2>1, <2>3, <2>4
<1>5. CASE r \notin dropped
  <2>1. PICK d \in R : mark' = seq[d]
    BY <1>1, <1>3, TopIs
  <2>2. d \in dropped /\ seq[d] \in Nat /\ seq[r] \in Nat
    BY <1>1, <2>1 DEF Above
  <2>3. seq[d] < seq[r]
    BY <1>1, <1>5, <2>2 DEF TrimInv, DroppedInv, Pressing
  <2> QED BY <2>1, <2>2, <2>3
<1> QED BY <1>4, <1>5

LEMMA NextCovered == TypeInv /\ TrimInv /\ CoveredInv /\ [Next]_vars => CoveredInv'
<1> SUFFICES ASSUME TypeInv, TrimInv, CoveredInv, [Next]_vars PROVE CoveredInv'
  OBVIOUS
<1>0. /\ mark \in Nat /\ known \in Nat /\ seq \in [Rows -> Nat] /\ made \in Nat
      /\ asked \in Asks /\ view \subseteq Rows /\ dropped \subseteq Rows
      /\ Inbound \subseteq Rows /\ Outbound \subseteq Rows /\ 1..made \subseteq Events
      /\ phase = "idle" <=> holder = NoRow
      /\ event \in [Events -> [status : {"none", "pending", "completed"},
                           span : Spans, tries : 0..MaxAttempts,
                           by : {"trim", "admin"}, era : Nat]]
  BY CompactionAssumption DEF TypeInv, TypeOK, Rows, Events
<1>1. CASE phase' = "idle"
  BY <1>1 DEF CoveredInv
<1>2. ASSUME NEW q \in Rows, Add(q), KeepsSpans, UNCHANGED <<turn, asked>>
      PROVE  CoveredInv'
  <2>1. /\ mark' = mark /\ q \notin born /\ \A r \in Rows \ {q} : seq'[r] = seq[r]
    BY <1>2, AddIs
  <2>2. \A r \in view : seq'[r] = seq[r]
    BY <1>0, <2>1 DEF TrimInv, BornInv
  <2> QED BY <1>2, <2>1, <2>2, StillCovers DEF turn
<1>3. ASSUME UNCHANGED <<made, event>> PROVE KeepsSpans
  BY <1>3 DEF KeepsSpans
<1>a. ASSUME NEW m \in Inbound, Arrive(m) PROVE CoveredInv'
  BY <1>a, <1>0, <1>2, <1>3 DEF Arrive, events
<1>b. ASSUME NEW o \in Outbound, Proactive(o) PROVE CoveredInv'
  BY <1>b, <1>0, <1>2, <1>3 DEF Proactive, events
<1>c. ASSUME NEW D \in SUBSET Rows, Delete(D) PROVE CoveredInv'
  <2>1. phase' = "idle"
    BY <1>c, <1>0 DEF Delete, turn
  <2> QED BY <2>1, <1>1
<1>d. ASSUME NEW m \in Inbound, Begin(m) PROVE CoveredInv'
  <2>1. /\ view' = Window(m) /\ phase' # "committing" /\ UNCHANGED <<seq, mark>>
    BY <1>d DEF Begin, table
  <2>2. Window(m) \subseteq Visible
    BY DEF Window, Earlier, Loaded
  <2>3. \A r \in view' : seq[r] > mark /\ seq[r] \in Nat
    BY <1>0, <2>1, <2>2 DEF Visible, Stored
  <2> QED BY <1>0, <2>1, <2>3 DEF CoveredInv
<1>e. ASSUME NEW D \in SUBSET Rows, Trim(D) PROVE CoveredInv'
  <2>1. /\ phase' \notin {"committing", "idle"} /\ phase # "idle"
        /\ UNCHANGED <<seq, mark, view, asked, made, event>>
    BY <1>e DEF Trim, table, events
  <2>2. \A r \in view : Covered(r) => Covered(r)'
    BY <2>1 DEF Covered
  <2> QED BY <2>1, <2>2 DEF CoveredInv
<1>f. CASE ReadMark
  <2>1. /\ phase = "recording" /\ phase' = "committing" /\ known' = mark
        /\ UNCHANGED <<seq, mark, view, asked, made, event>>
    BY <1>f DEF ReadMark, table, events
  <2>2. \A r \in view : seq[r] \in Nat
    BY <1>0
  <2>3. \A r \in view : Covered(r) => Covered(r)'
    BY <2>1 DEF Covered
  <2>4. \A r \in view : ~ (mark < seq[r] /\ seq[r] <= mark)
    BY <1>0, <2>2
  <2> QED BY <1>0, <2>1, <2>3, <2>4 DEF CoveredInv
<1>g. CASE Commit
  <2>1. /\ phase = "committing" /\ phase' \notin {"committing", "idle"}
        /\ UNCHANGED <<seq, view, asked>>
    BY <1>g DEF Commit
  <2>2. ASSUME NEW r \in view \ Blank, Covered(r) PROVE Covered(r)'
    <3>1. \A e \in 1..made : e \in 1..made' /\ event'[e] = event[e]
      <4>1. (\E span, by : Record(span, by)) \/ RecordNothing
        BY <1>g DEF Commit, HandOver, Cover
      <4>2. CASE RecordNothing
        BY <4>2 DEF RecordNothing, events
      <4>3. ASSUME NEW span, NEW by, Record(span, by)
            PROVE  \A e \in 1..made : e \in 1..made' /\ event'[e] = event[e]
        BY <4>3, <1>0 DEF Record
      <4> QED BY <4>1, <4>2, <4>3
    <3> QED BY <2>2, <3>1 DEF Covered
  <2>3. ASSUME NEW r \in view \ Blank, asked.step = "raises", asked.span.hi < seq[r],
               seq[r] <= mark'
        PROVE  Covered(r)'
    <3>1. CASE seq[r] <= mark \/ seq[r] <= known
      <4>1. Covered(r)
        BY <2>1, <2>3, <3>1 DEF CoveredInv
      <4> QED BY <4>1, <2>2
    <3>2. CASE ~ (seq[r] <= mark \/ seq[r] <= known)
      <4>1. seq[r] > mark /\ seq[r] > known
        BY <1>0, <3>2
      <4> QED BY <1>g, <2>3, <4>1, CommitCovers DEF Covered
    <3> QED BY <3>1, <3>2
  <2> QED BY <2>1, <2>3 DEF CoveredInv
<1>h. CASE AdminChecks
  <2>1. /\ asked'.step = "raises" => asked.span.hi > mark /\ asked'.span = asked.span
        /\ UNCHANGED <<seq, mark, view, phase, known, made, event>>
    BY <1>h, <1>0 DEF AdminChecks, Asks, table, turn, events
  <2>2. asked.span.hi \in Nat /\ \A r \in view : seq[r] \in Nat
    BY <1>0 DEF Asks, Spans
  <2> QED BY <1>0, <2>1, <2>2 DEF CoveredInv, Covered
<1>i. CASE AdminCommits
  <2>1. /\ asked' = NoAsk /\ UNCHANGED <<seq, view, phase, known>>
        /\ mark' = mark \/ (asked.step = "raises" /\ mark' = asked.span.hi)
    BY <1>i DEF AdminCommits, turn
  <2>2. ASSUME NEW r \in view \ Blank, Covered(r) PROVE Covered(r)'
    <3>1. \A e \in 1..made : e \in 1..made' /\ event'[e] = event[e]
      <4>1. (\E span, by : Record(span, by)) \/ RecordNothing
        BY <1>i DEF AdminCommits
      <4>2. CASE RecordNothing
        BY <4>2 DEF RecordNothing, events
      <4>3. ASSUME NEW span, NEW by, Record(span, by)
            PROVE  \A e \in 1..made : e \in 1..made' /\ event'[e] = event[e]
        BY <4>3, <1>0 DEF Record
      <4> QED BY <4>1, <4>2, <4>3
    <3> QED BY <2>2, <3>1 DEF Covered
  <2> QED BY <2>1, <2>2 DEF CoveredInv, NoAsk
<1>j. ASSUME NEW D \in SUBSET Rows, AdminReads(D) PROVE CoveredInv'
  <2>1. /\ asked'.step = "read" /\ UNCHANGED <<seq, mark, view, phase, known, made, event>>
    BY <1>j DEF AdminReads, NoAsk, table, turn, events
  <2> QED BY <2>1 DEF CoveredInv, Covered
<1>k. ASSUME NEW e \in Events, Closes(e) \/ Retry(e) PROVE CoveredInv'
  <2>1. /\ UNCHANGED <<table, turn, asked, made>>
        /\ \/ event' = event
           \/ event' = [event EXCEPT ![e].status = "completed"]
           \/ event' = [event EXCEPT ![e].tries = MaxAttempts]
           \/ event' = [event EXCEPT ![e].tries = @ + 1]
    BY <1>k DEF Closes, Retry
  <2>2. KeepsSpans
    BY <2>1, <1>0 DEF KeepsSpans
  <2> QED BY <2>1, <2>2, StillCovers DEF table, turn
<1>l. ASSUME \/ \E e \in Events : \/ Reads(e) \/ CallFails(e) \/ Writes(e)
                                  \/ GrowStale(e)
             \/ \E k \in Editors : EditorReads(k) \/ EditorWrites(k)
             \/ SweepStarts \/ UNCHANGED vars
      PROVE  CoveredInv'
  <2>1. UNCHANGED <<table, turn, asked, made, event>>
    BY <1>l DEF Reads, CallFails, Writes, GrowStale, EditorReads, EditorWrites,
       SweepStarts, vars, events
  <2> QED BY <2>1, <1>3, StillCovers DEF table, turn
<1>m. ASSUME \/ \E o \in Outbound : Reply(o)
             \/ EndUnstored \/ Restart
      PROVE  CoveredInv'
  <2>1. phase' = "idle"
    BY <1>m DEF Reply, EndUnstored, EndTurn, Restart
  <2> QED BY <2>1, <1>1
<1> QED BY <1>a, <1>b, <1>c, <1>d, <1>e, <1>f, <1>g, <1>h, <1>i, <1>j, <1>k, <1>l,
           <1>m DEF Next

WInv == TypeInv /\ TrimInv /\ CoveredInv

LEMMA WatermarkInductive == Spec => []WInv
<1>1. Init => CoveredInv
  BY DEF Init, CoveredInv
<1>2. Init => WInv
  BY <1>1, InitTypes, InitTrims DEF WInv
<1>3. WInv /\ [Next]_vars => WInv'
  BY NextTypes, NextTrims, NextCovered DEF WInv
<1> QED BY <1>2, <1>3, PTL DEF Spec

(* No row is handed over twice by turns while nobody takes the watermark   *)
(* back.                                                                   *)
THEOREM TrimsStayApart == Spec => []TrimsApart
<1>1. WInv => TrimsApart
  BY DEF WInv, TrimInv
<1> QED BY WatermarkInductive, <1>1, PTL

(* What a turn showed the model and hides from the next one is handed to   *)
(* compaction, however the trims, the admin and new messages interleave.   *)
THEOREM HandsOver == Spec => HandsOverWhatItHides
<1> DEFINE Hidden(r) == r \in Blank \/ \E e \in 1..made' : r \in event'[e].span.rows
<1>1. ASSUME WInv, [Next]_vars, phase = "committing", phase' \notin {"committing", "idle"},
             NEW r \in view, seq[r] > mark, seq[r] <= mark'
      PROVE  Hidden(r)
  <2>0. /\ TypeInv /\ seq \in [Rows -> Nat] /\ mark \in Nat /\ known \in Nat
        /\ made \in Nat /\ view \subseteq Rows /\ seq[r] \in Nat
        /\ phase = "idle" <=> holder = NoRow
    BY <1>1, CompactionAssumption DEF WInv, TypeInv, TypeOK
  <2>1. Commit
    BY <1>1, <2>0 DEF Next, vars, turn, Arrive, Begin, Proactive, Reply, Delete, Trim,
       AdminReads, AdminChecks, AdminCommits, ReadMark, EndUnstored, EndTurn, Reads,
       CallFails, Writes, Closes, GrowStale, Retry, EditorReads, EditorWrites, Restart,
       SweepStarts
  <2>2. CASE r \notin Blank /\ seq[r] <= known
    <3>1. PICK e \in 1..made : r \in event[e].span.rows
      BY <1>1, <2>2 DEF WInv, CoveredInv, Covered
    <3>2. (\E span, by : Record(span, by)) \/ RecordNothing
      BY <2>1 DEF Commit, HandOver, Cover
    <3>3. e \in 1..made' /\ event'[e] = event[e]
      <4>1. CASE RecordNothing
        BY <4>1 DEF RecordNothing, events
      <4>2. ASSUME NEW span, NEW by, Record(span, by)
            PROVE  e \in 1..made' /\ event'[e] = event[e]
        <5>1. e \in Events
          BY <2>0, CompactionAssumption DEF TypeInv, TypeOK, Events
        <5> QED BY <4>2, <5>1, <2>0 DEF Record, TypeInv, TypeOK
      <4> QED BY <3>2, <4>1, <4>2
    <3> QED BY <3>1, <3>3
  <2>3. CASE r \notin Blank /\ seq[r] > known
    BY <1>1, <2>1, <2>3, CommitCovers DEF WInv
  <2> QED BY <2>0, <2>2, <2>3
<1>2. WInv /\ [Next]_vars =>
        [phase = "committing" /\ phase' \notin {"committing", "idle"} =>
           \A r \in view : seq[r] > mark /\ seq[r] <= mark' => Hidden(r)]_vars
  BY <1>1
<1> QED BY WatermarkInductive, <1>2, PTL DEF Spec, HandsOverWhatItHides

(* Only the commit of an admin compaction can put the watermark above the  *)
(* rows of the table, where it hides every message to come.                *)
THEOREM OnlyAdminsOvershoot == Spec => OnlyAdminOvershoots
<1>1. ASSUME WInv, WInv', [Next]_vars, mark <= Top, mark' > Top'
      PROVE  asked # NoAsk /\ asked' = NoAsk
  <2>0. /\ TypeInv /\ TypeInv' /\ seq \in [Rows -> Nat] /\ Bounded /\ mark \in Nat
        /\ Stored \in SUBSET Rows /\ Inbound \subseteq Rows /\ Outbound \subseteq Rows
        /\ Top \in Nat /\ mark' \in Nat /\ known \in Nat /\ dropped \subseteq Rows
        /\ seq' \in [Rows -> Nat] /\ Bounded'
    <3>1. Stored \in SUBSET Rows
      BY DEF Stored
    <3> QED BY <1>1, <3>1, TopIs DEF WInv, TypeInv, TypeOK, Rows, Top
  <2>1. Top' \in Nat /\ \A r \in Stored' : seq'[r] <= Top'
    <3> DEFINE top == Top'
    <3>1. top = CHOOSE k \in {seq'[r] : r \in Stored'} \cup {0} :
                  \A r \in Stored' : seq'[r] <= k
      BY DEF Top, TopOf
    <3>2. Stored' \in SUBSET Rows
      BY DEF Stored
    <3>3. \E k \in {seq'[r] : r \in Stored'} \cup {0} : \A r \in Stored' : seq'[r] <= k
      BY <2>0, <3>2, MaxExists DEF Bounded
    <3> HIDE DEF top
    <3>4. /\ top \in {seq'[r] : r \in Stored'} \cup {0}
          /\ \A r \in Stored' : seq'[r] <= top
      BY <3>1, <3>3
    <3>5. top \in Nat /\ \A r \in Stored' : seq'[r] <= top
      BY <2>0, <3>2, <3>4
    <3> QED BY <3>5 DEF top
  <2>2. ASSUME UNCHANGED seq PROVE Top' = Top
    BY <2>2 DEF Top, TopOf, Stored
  <2>3. ASSUME NEW S \in SUBSET Stored PROVE TopOf(S) <= Top
    <3>1. S \in SUBSET Rows
      BY <2>0
    <3>2. TopOf(S) = 0 \/ \E r \in S : TopOf(S) = seq[r]
      BY <2>0, <3>1, TopIs
    <3>3. \A r \in Stored : seq[r] <= Top
      BY <2>0, TopIs DEF Top
    <3> QED BY <2>0, <3>2, <3>3
  <2>4. CASE AdminCommits
    BY <2>4 DEF AdminCommits, NoAsk
  <2>5. ASSUME NEW q \in Rows, Add(q) PROVE FALSE
    <3>1. seq'[q] = Top + 1 /\ mark' = mark
      BY <2>0, <2>5, AddIs
    <3>2. q \in Stored'
      BY <2>0, <3>1 DEF Stored
    <3>3. Top + 1 <= Top'
      BY <2>1, <3>1, <3>2
    <3> QED BY <1>1, <2>0, <2>1, <3>1, <3>3
  <2>6. ASSUME NEW S \in SUBSET Rows, Delete(S) PROVE FALSE
    <3>1. /\ \A r \in Stored \ S : seq'[r] = seq[r]
          /\ \/ mark' = 0
             \/ mark' = mark /\ (mark = 0 \/ ~ (TopOf(Stored \ S) <= mark))
      BY <2>0, <2>6 DEF Delete, Remove, Stored
    <3>2. mark' = mark /\ ~ (TopOf(Stored \ S) <= mark)
      BY <1>1, <2>0, <2>1, <3>1
    <3>3. /\ TopOf(Stored \ S) \in Nat
          /\ TopOf(Stored \ S) = 0 \/ \E r \in Stored \ S : TopOf(Stored \ S) = seq[r]
      BY <2>0, TopIs
    <3>4. PICK r \in Stored \ S : TopOf(Stored \ S) = seq[r]
      BY <2>0, <3>2, <3>3
    <3>5. seq[r] > mark /\ r \in Rows
      BY <2>0, <3>2, <3>3, <3>4
    <3>6. r \in Stored' /\ seq'[r] = seq[r]
      BY <2>0, <3>1, <3>5 DEF Stored
    <3>7. seq[r] <= Top'
      BY <2>1, <3>6
    <3> QED BY <1>1, <2>0, <2>1, <3>2, <3>5, <3>7
  <2>8. CASE Commit
    <3> DEFINE R == Above(known)
    <3>1. R \in SUBSET Stored
      BY <2>0 DEF Stored, Above
    <3>2. UNCHANGED seq /\ mark' \in {mark, TopOf(R)}
      BY <2>8 DEF Commit, HandOver, Cover
    <3> QED BY <1>1, <2>0, <2>2, <2>3, <3>1, <3>2
  <2>9. CASE UNCHANGED <<seq, mark>>
    BY <1>1, <2>0, <2>2, <2>9
  <2> QED BY <1>1, <2>0, <2>4, <2>5, <2>6, <2>8, <2>9
         DEF Next, vars, table, Arrive, Begin, Proactive, Reply, Trim, AdminReads,
             AdminChecks, ReadMark, EndUnstored, Reads, CallFails, Writes, Closes,
             GrowStale, Retry, EditorReads, EditorWrites, Restart, SweepStarts
<1>2. WInv /\ WInv' /\ [Next]_vars =>
        [mark <= Top /\ mark' > Top' => asked # NoAsk /\ asked' = NoAsk]_vars
  BY <1>1
<1> QED BY WatermarkInductive, <1>2, PTL DEF Spec, OnlyAdminOvershoots

================================================================================
