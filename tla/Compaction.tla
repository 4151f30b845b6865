------------------------------ MODULE Compaction ------------------------------
(***************************************************************************)
(* How messages leave the model's context and reach long-term memory: the  *)
(* trim watermark, the compaction events and the retry at start-up.        *)
(*                                                                         *)
(*   messages, sessions       agent/session_db.py        seq, mark         *)
(*   history loader           agent/context.py           holder .. known   *)
(*   trim and its trigger     agent/trimming.py, core.py dropped           *)
(*   compaction_events        models.py                  events            *)
(*   compact_session          agent/compaction.py        tasks             *)
(*   MEMORY.md                agent/memory_db.py         memory            *)
(*   retry sweep              agent/compaction_recovery.py  sweep          *)
(*                                                                         *)
(* One user, one worker at a time.  The rows, the watermark, the events    *)
(* and the memory survive a restart.  TurnDispatch has the rest of a turn: *)
(* here messages are answered one by one, in the order of seq.  MEMORY.md  *)
(* is the set of rows whose facts it holds, with the edits made by others; *)
(* USER.md and SOUL.md are written the same way.  An editor, the dashboard *)
(* or a tool of the agent, reads MEMORY.md and replaces it later; an admin *)
(* compaction reads the watermark and writes it when it commits.           *)
(***************************************************************************)
EXTENDS Naturals, Sequences, FiniteSets

CONSTANTS
  Inbound,      (* the user's messages                                     *)
  Outbound,     (* replies and proactive messages                          *)
  Blank,        (* rows that render to nothing                             *)
  Legacy,       (* rows of a session older than the watermark, in order    *)
  NoRow,
  Limit,        (* conversation_history_limit                              *)
  Surplus,      (* _WINDOW_OVERFLOW_BATCH_ROWS                             *)
  PerTurn,      (* _WINDOW_OVERFLOW_MAX_ROWS_PER_TURN                      *)
  MaxAttempts,  (* _MAX_ATTEMPTS                                           *)
  MaxEvents,    (* bound: compaction events                                *)
  MaxRestarts, MaxDeletes, MaxAdmins, MaxEdits   (* bounds                 *)

Rows == Inbound \cup Outbound
Events == 1..MaxEvents
Editors == 1..MaxEdits

ASSUME CompactionAssumption ==
  /\ Inbound \cap Outbound = {} /\ NoRow \notin Rows /\ IsFiniteSet(Rows)
  /\ Legacy \in Seq(Rows) /\ \A i, j \in DOMAIN Legacy : Legacy[i] = Legacy[j] => i = j
  /\ Limit \in Nat \ {0} /\ Surplus \in Nat /\ PerTurn \in Nat \ {0}
  /\ MaxAttempts \in Nat
  /\ MaxEvents \in Nat /\ MaxRestarts \in Nat /\ MaxDeletes \in Nat
  /\ MaxAdmins \in Nat /\ MaxEdits \in Nat

VARIABLES
  seq,      (* messages.seq; 0 if the row is not in the table              *)
  born,     (* rows that were ever stored                                  *)
  mark,     (* sessions.last_trim_seq, 0 for NULL                          *)
  era,      (* how often a delete or an admin took the mark back           *)
  taken,    (* messages whose turn has started                             *)
  holder,   (* the message of the turn that holds the user lock            *)
  phase, stage,  (* of that turn                                           *)
  view,     (* the rows of the history it loaded                           *)
  dropped,  (* rows it is handing to compaction                            *)
  known,    (* the watermark its transaction read                          *)
  asked,    (* admin_compact_visible_messages: its step and what it read   *)
  made,     (* number of events                                            *)
  event,    (* compaction_events rows                                      *)
  stale,    (* pending events older than _GRACE_SECONDS                    *)
  task,     (* of an event: the running compact_session                    *)
  input,    (* the rows it was given                                       *)
  base,     (* the MEMORY.md it read                                       *)
  refused,  (* events whose rewrite was not written                        *)
  memory,
  editor, draft,   (* of an edit: its step, and the MEMORY.md it read      *)
  lost,     (* what is missing there because an edit wrote over it         *)
  swept, sweep, retrying,    (* the sweep: done, still to do, in progress  *)
  restarts, deletes, admins

table == <<seq, born, mark, era>>
turn == <<taken, holder, phase, stage, view, dropped, known>>
events == <<made, event, stale>>
tasks == <<task, input, base, refused>>
docs == <<memory, editor, draft, lost>>
sweeping == <<swept, sweep, retrying>>
bounds == <<restarts, deletes, admins>>
vars == <<table, turn, asked, events, tasks, docs, sweeping, bounds>>

Stored == {r \in Rows : seq[r] # 0}
Visible == {r \in Stored : seq[r] > mark}
Waiting == (Stored \cap Inbound) \ taken

TopOf(S) == CHOOSE n \in {seq[r] : r \in S} \cup {0} : \A r \in S : seq[r] <= n
Top == TopOf(Stored)
Smaller(m, n) == IF m < n THEN m ELSE n

(* The n oldest rows of S; all that are as old as some row of S.           *)
Oldest(S, n) == {r \in S : Cardinality({q \in S : seq[q] < seq[r]}) < n}
Prefixes(S) ==
  {D \in SUBSET S : \A d \in D, r \in S \ D : seq[d] < seq[r]}

NoSpan == [rows |-> {}, lo |-> 0, hi |-> 0]
NoEvent ==
  [status |-> "none", span |-> NoSpan, tries |-> 0, by |-> "trim", era |-> 0]
NoMemory == [facts |-> {}, edits |-> {}]
NoAsk == [step |-> "idle", span |-> NoSpan]

(* The rows that a compaction is given, and the range of their seqs.       *)
Span(R) ==
  [rows |-> R, hi |-> TopOf(R),
   lo |-> CHOOSE n \in {seq[r] : r \in R} : \A r \in R : n <= seq[r]]

-----------------------------------------------------------------------------
(* The messages table                                                      *)

(* add_message_async: the largest seq in the table, plus one.              *)
Add(r) ==
  /\ r \notin born
  /\ born' = born \cup {r}
  /\ seq' = [seq EXCEPT ![r] = Top + 1]
  /\ UNCHANGED <<mark, era>>

Arrive(m) ==
  /\ Add(m)
  /\ UNCHANGED <<turn, asked, events, tasks, docs, sweeping, bounds>>

(* A heartbeat stores its message without the user lock.                   *)
Proactive(o) ==
  /\ Add(o)
  /\ UNCHANGED <<turn, asked, events, tasks, docs, sweeping, bounds>>

(* Mutant: the watermark outlives the rows above it.                       *)
RemoveOnly(S) ==
  /\ seq' = [r \in Rows |-> IF r \in S THEN 0 ELSE seq[r]]
  /\ UNCHANGED <<born, mark, era>>

(* Rows deleted, and _reset_trim_watermark_if_orphaned.                    *)
Remove(S) ==
  /\ seq' = [r \in Rows |-> IF r \in S THEN 0 ELSE seq[r]]
  /\ IF mark # 0 /\ TopOf(Stored \ S) <= mark
     THEN mark' = 0 /\ era' = era + 1
     ELSE UNCHANGED <<mark, era>>
  /\ UNCHANGED born

(* The user deletes some rows, or all of them, under the user lock; here   *)
(* only while every stored message has had its turn.                       *)
Delete(S) ==
  /\ deletes < MaxDeletes /\ deletes' = deletes + 1
  /\ holder = NoRow /\ Waiting = {}
  /\ S # {}
  /\ Remove(S)
  /\ UNCHANGED <<turn, asked, events, tasks, docs, sweeping, restarts, admins>>

-----------------------------------------------------------------------------
(* Recording a compaction                                                  *)

(* The event and its background task.                                      *)
Record(span, by) ==
  /\ made < MaxEvents
  /\ made' = made + 1
  /\ event' = [event EXCEPT ![made + 1] =
       [status |-> "pending", span |-> span, tries |-> 0, by |-> by,
        era |-> era]]
  /\ task' = [task EXCEPT ![made + 1] = "starting"]
  /\ input' = [input EXCEPT ![made + 1] = span.rows]
  /\ UNCHANGED <<stale, base, refused>>

RecordNothing == UNCHANGED <<events, tasks>>

-----------------------------------------------------------------------------
(* A turn: load_conversation_history, the trim, the reply                  *)

(* load_history_step: later inbounds are not history, later outbounds are. *)
Loaded(m) == {r \in Visible \ {m} : seq[r] < seq[m] \/ r \in Outbound}

(* all_messages[:-1]; the last row is the turn's own message, unless the   *)
(* watermark hides that.                                                   *)
Earlier(m) ==
  IF m \in Visible THEN Loaded(m)
  ELSE {r \in Loaded(m) : seq[r] < TopOf(Loaded(m))}

(* Rows that load_conversation_history hands to compaction.                *)
Overflow(m) ==
  LET total == Cardinality(Earlier(m)) + 1
      count == Smaller(total - 1, Smaller(total - Limit + Surplus, PerTurn))
  IN IF total > Limit THEN Oldest(Earlier(m), count) ELSE {}

Window(m) ==
  LET total == Cardinality(Earlier(m)) + 1
  IN IF total > Limit THEN Earlier(m) \ Oldest(Earlier(m), total - Limit)
     ELSE Earlier(m)

(* Overflow of which nothing is left when it is rendered moves the         *)
(* watermark alone: it is handed over all the same, see HandOver.          *)
Begin(m) ==
  /\ holder = NoRow
  /\ m \in Waiting
  /\ \A w \in Waiting : seq[m] <= seq[w]
  /\ holder' = m
  /\ taken' = taken \cup {m}
  /\ view' = Window(m)
  /\ dropped' = IF Overflow(m) \subseteq Blank THEN Overflow(m)
                ELSE Overflow(m) \ Blank
  /\ phase' = IF dropped' = {} THEN "prompting" ELSE "recording"
  /\ stage' = "load"
  /\ UNCHANGED <<table, known, asked, events, tasks, docs, sweeping, bounds>>

(* The trim of the prompt, and those of calls that were refused as too     *)
(* long, drop the oldest messages.                                         *)
Trim(D) ==
  /\ phase = "prompting"
  /\ D \in Prefixes(view \ Blank)
  /\ dropped' = D
  /\ phase' = IF D = {} THEN "replying" ELSE "recording"
  /\ stage' = "reply"
  /\ UNCHANGED <<table, taken, holder, view, known, asked, events, tasks, docs,
                 sweeping, bounds>>

(* trigger_compaction_for_dropped and _advance_trim_watermark_only read    *)
(* the live watermark ...                                                  *)
ReadMark ==
  /\ phase = "recording"
  /\ phase' = "committing"
  /\ known' = mark
  /\ UNCHANGED <<table, taken, holder, stage, view, dropped, asked, events,
                 tasks, docs, sweeping, bounds>>

Above(n) == {r \in dropped : seq[r] > n}

(* Rows that render to something get an event.                             *)
Cover(R) ==
  /\ IF R \subseteq Blank THEN RecordNothing ELSE Record(Span(R), "trim")
  /\ mark' = TopOf(R)

(* Mutants: rows of an earlier trigger are not taken out; the watermark    *)
(* moves although the event was not written.                               *)
HandOverAgain ==
  \/ dropped # {} /\ Cover(dropped)
  \/ RecordNothing /\ UNCHANGED mark

HandOverUnrecorded ==
  LET R == Above(known)
  IN \/ R # {} /\ Cover(R)
     \/ RecordNothing /\ mark' \in {mark} \cup {TopOf(R) : r \in R}

(* ... and write the event and the watermark, unless an earlier trigger    *)
(* covered everything or the transaction of the event fails.  If that of   *)
(* the watermark alone fails, so does the turn.                            *)
HandOver ==
  LET R == Above(known)
  IN \/ R # {} /\ Cover(R)
     \/ (R \subseteq Blank => R = {}) /\ RecordNothing /\ UNCHANGED mark

Commit ==
  /\ phase = "committing"
  /\ HandOver
  /\ phase' = IF stage = "load" THEN "prompting" ELSE "replying"
  /\ known' = 0 /\ dropped' = {}
  /\ UNCHANGED <<seq, born, era, taken, holder, stage, view, asked, docs,
                 sweeping, bounds>>

(* Mutant: the lock is kept.                                               *)
EndTurnLocked ==
  /\ phase' = "idle" /\ stage' = "none"
  /\ view' = {} /\ dropped' = {} /\ known' = 0
  /\ UNCHANGED <<taken, holder, asked, events, tasks, docs, sweeping, bounds>>

EndTurn ==
  /\ holder' = NoRow /\ phase' = "idle" /\ stage' = "none"
  /\ view' = {} /\ dropped' = {} /\ known' = 0
  /\ UNCHANGED <<taken, asked, events, tasks, docs, sweeping, bounds>>

(* persist_outbound.                                                       *)
Reply(o) ==
  /\ phase = "replying"
  /\ Add(o)
  /\ EndTurn

(* Silence, an error fallback, a step that raised, or the deadline.        *)
EndUnstored ==
  /\ phase # "idle"
  /\ EndTurn
  /\ UNCHANGED table

-----------------------------------------------------------------------------
(* admin_compact_visible_messages, without the user lock                   *)

AdminReads(D) ==
  /\ admins < MaxAdmins /\ admins' = admins + 1
  /\ asked = NoAsk
  /\ D \in Prefixes(Visible) \ {{}}
  /\ asked' = [NoAsk EXCEPT !.step = "read",
       !.span = IF D \subseteq Blank THEN [NoSpan EXCEPT !.hi = TopOf(D)]
                ELSE Span(D \ Blank)]
  /\ UNCHANGED <<table, turn, events, tasks, docs, sweeping, restarts, deletes>>

(* Its transaction selects the session, without FOR UPDATE, and compares   *)
(* with the watermark it finds ...                                         *)
AdminChecks ==
  /\ asked.step = "read"
  /\ asked' = [asked EXCEPT !.step =
       IF asked.span.hi > mark THEN "raises" ELSE "keeps"]
  /\ UNCHANGED <<table, turn, events, tasks, docs, sweeping, bounds>>

(* ... and writes its own, whatever is stored by now; or it fails.         *)
AdminCommits ==
  /\ asked.step \in {"raises", "keeps"}
  /\ asked' = NoAsk
  /\ \/ /\ IF asked.step = "raises"
           THEN /\ mark' = asked.span.hi
                /\ era' = IF mark > asked.span.hi THEN era + 1 ELSE era
           ELSE UNCHANGED <<mark, era>>
        /\ IF asked.span.rows = {} THEN RecordNothing
           ELSE Record(asked.span, "admin")
     \/ RecordNothing /\ UNCHANGED <<mark, era>>
  /\ UNCHANGED <<seq, born, turn, docs, sweeping, bounds>>

-----------------------------------------------------------------------------
(* compact_session                                                         *)

Reads(e) ==
  /\ task[e] = "starting"
  /\ task' = [task EXCEPT ![e] = "calling"]
  /\ base' = [base EXCEPT ![e] = memory]
  /\ UNCHANGED <<table, turn, asked, events, input, refused, docs, sweeping,
                 bounds>>

(* The model call failed: the event stays pending.                         *)
CallFails(e) ==
  /\ task[e] = "calling"
  /\ task' = [task EXCEPT ![e] = "idle"]
  /\ base' = [base EXCEPT ![e] = NoMemory]
  /\ UNCHANGED <<table, turn, asked, events, input, refused, docs, sweeping,
                 bounds>>

(* Mutant: the rewrite is not compared with what the call read.            *)
Overwrite(e) ==
  /\ memory' = [base[e] EXCEPT !.facts = @ \cup input[e]]
  /\ refused' = refused \ {e}

(* write_memory_async: compare and swap.  A rewrite of something older, or *)
(* one that is too long, is not written.                                   *)
CompareAndSwap(e) ==
  \/ /\ memory = base[e]
     /\ memory' = [memory EXCEPT !.facts = @ \cup input[e]]
     /\ refused' = refused \ {e}
  \/ refused' = refused \cup {e} /\ UNCHANGED memory

Writes(e) ==
  /\ task[e] = "calling"
  /\ CompareAndSwap(e)
  /\ task' = [task EXCEPT ![e] = "closing"]
  /\ base' = [base EXCEPT ![e] = NoMemory]
  /\ lost' = [lost EXCEPT !.facts = @ \ memory'.facts]
  /\ UNCHANGED <<table, turn, asked, events, input, editor, draft, sweeping,
                 bounds>>

(* _persist_compaction_event; if it fails, that is logged and no more.     *)
Closes(e) ==
  /\ task[e] = "closing"
  /\ task' = [task EXCEPT ![e] = "idle"]
  /\ \/ /\ event' = [event EXCEPT ![e].status = "completed"]
        /\ stale' = stale \ {e}
     \/ UNCHANGED <<event, stale>>
  /\ UNCHANGED <<table, turn, asked, made, input, base, refused, docs,
                 sweeping, bounds>>

(* The dashboard loads MEMORY.md into its page, or edit_file reads it.     *)
EditorReads(k) ==
  /\ editor[k] = "none"
  /\ editor' = [editor EXCEPT ![k] = "open"]
  /\ draft' = [draft EXCEPT ![k] = memory]
  /\ UNCHANGED <<table, turn, asked, events, tasks, memory, lost, sweeping,
                 bounds>>

(* It writes its text with its change, whatever MEMORY.md is by now.       *)
EditorWrites(k) ==
  /\ editor[k] = "open"
  /\ editor' = [editor EXCEPT ![k] = "saved"]
  /\ draft' = [draft EXCEPT ![k] = NoMemory]
  /\ memory' = [draft[k] EXCEPT !.edits = @ \cup {k}]
  /\ lost' = [facts |-> (lost.facts \cup memory.facts) \ memory'.facts,
              edits |-> (lost.edits \cup memory.edits) \ memory'.edits]
  /\ UNCHANGED <<table, turn, asked, events, tasks, sweeping, bounds>>

-----------------------------------------------------------------------------
(* Restart and recover_pending_compactions                                 *)

Restart ==
  /\ restarts < MaxRestarts /\ restarts' = restarts + 1
  /\ holder' = NoRow /\ phase' = "idle" /\ stage' = "none"
  /\ view' = {} /\ dropped' = {} /\ known' = 0
  /\ asked' = NoAsk
  /\ task' = [e \in Events |-> "idle"]
  /\ base' = [e \in Events |-> NoMemory]
  /\ swept' = FALSE /\ sweep' = {} /\ retrying' = 0
  /\ UNCHANGED <<table, taken, events, input, refused, docs, deletes, admins>>

(* Ten minutes pass: no model call takes that long.  The sweep alone looks *)
(* at the age, so only the time before it counts.                          *)
GrowStale(e) ==
  /\ ~swept
  /\ event[e].status = "pending" /\ task[e] = "idle" /\ e \notin stale
  /\ stale' = stale \cup {e}
  /\ UNCHANGED <<table, turn, asked, made, event, tasks, docs, sweeping,
                 bounds>>

(* Mutant: no grace period.                                                *)
PendingNow(e) ==
  event[e].status = "pending" /\ event[e].tries < MaxAttempts

Retryable(e) ==
  event[e].status = "pending" /\ event[e].tries < MaxAttempts /\ e \in stale

SweepStarts ==
  /\ ~swept /\ swept' = TRUE
  /\ sweep' = {e \in Events : Retryable(e)}
  /\ UNCHANGED <<table, turn, asked, events, tasks, docs, retrying, bounds>>

(* The rows that are in the range now, whatever it was recorded for.       *)
InRange(e) ==
  {r \in Stored : event[e].span.lo <= seq[r] /\ seq[r] <= event[e].span.hi}

(* One at a time, oldest first: claim an attempt, read the rows, compact.  *)
Retry(e) ==
  /\ e \in sweep /\ \A f \in sweep : e <= f
  /\ retrying # 0 => task[retrying] = "idle"
  /\ sweep' = sweep \ {e}
  /\ IF event[e].status # "pending" \/ event[e].tries >= MaxAttempts
     THEN retrying' = 0 /\ UNCHANGED <<event, task, input>>
     ELSE IF InRange(e) \subseteq Blank
     THEN /\ event' = [event EXCEPT ![e].tries = MaxAttempts]
          /\ retrying' = 0 /\ UNCHANGED <<task, input>>
     ELSE /\ event' = [event EXCEPT ![e].tries = @ + 1]
          /\ task' = [task EXCEPT ![e] = "starting"]
          /\ input' = [input EXCEPT ![e] = InRange(e) \ Blank]
          /\ retrying' = e
  /\ UNCHANGED <<table, turn, asked, made, stale, base, refused, docs, swept,
                 bounds>>

-----------------------------------------------------------------------------
Init ==
  /\ seq = [r \in Rows |->
       IF \E i \in DOMAIN Legacy : Legacy[i] = r
       THEN CHOOSE i \in DOMAIN Legacy : Legacy[i] = r ELSE 0]
  /\ born = {Legacy[i] : i \in DOMAIN Legacy} /\ taken = born \cap Inbound
  /\ mark = 0 /\ era = 0
  /\ holder = NoRow /\ phase = "idle" /\ stage = "none"
  /\ view = {} /\ dropped = {} /\ known = 0 /\ asked = NoAsk
  /\ made = 0 /\ event = [e \in Events |-> NoEvent] /\ stale = {}
  /\ task = [e \in Events |-> "idle"] /\ input = [e \in Events |-> {}]
  /\ base = [e \in Events |-> NoMemory] /\ refused = {}
  /\ memory = NoMemory /\ lost = NoMemory
  /\ editor = [k \in Editors |-> "none"] /\ draft = [k \in Editors |-> NoMemory]
  /\ swept = TRUE /\ sweep = {} /\ retrying = 0
  /\ restarts = 0 /\ deletes = 0 /\ admins = 0

Next ==
  \/ \E m \in Inbound : Arrive(m) \/ Begin(m)
  \/ \E o \in Outbound : Proactive(o) \/ Reply(o)
  \/ \E D \in SUBSET Rows : Delete(D) \/ Trim(D) \/ AdminReads(D)
  \/ ReadMark \/ Commit \/ EndUnstored \/ AdminChecks \/ AdminCommits
  \/ \E e \in Events :
       Reads(e) \/ CallFails(e) \/ Writes(e) \/ Closes(e) \/ GrowStale(e)
       \/ Retry(e)
  \/ \E k \in Editors : EditorReads(k) \/ EditorWrites(k)
  \/ Restart \/ SweepStarts

Spec == Init /\ [][Next]_vars

-----------------------------------------------------------------------------
(* Properties                                                              *)

Spans == [rows : SUBSET Rows, lo : Nat, hi : Nat]
Memories == [facts : SUBSET Rows, edits : SUBSET Editors]
Asks == [step : {"idle", "read", "raises", "keeps"}, span : Spans]

(* Types, and a turn holds the lock exactly while it is in progress.       *)
TypeOK ==
  /\ seq \in [Rows -> Nat] /\ born \in SUBSET Rows
  /\ mark \in Nat /\ era \in Nat
  /\ taken \in SUBSET Inbound /\ holder \in Inbound \cup {NoRow}
  /\ phase \in {"idle", "recording", "committing", "prompting", "replying"}
  /\ stage \in {"none", "load", "reply"}
  /\ view \in SUBSET Rows /\ dropped \in SUBSET Rows /\ known \in Nat
  /\ asked \in Asks
  /\ made \in 0..MaxEvents /\ stale \in SUBSET Events
  /\ event \in [Events -> [status : {"none", "pending", "completed"},
                           span : Spans, tries : 0..MaxAttempts,
                           by : {"trim", "admin"}, era : Nat]]
  /\ task \in [Events -> {"idle", "starting", "calling", "closing"}]
  /\ input \in [Events -> SUBSET Rows] /\ base \in [Events -> Memories]
  /\ refused \in SUBSET Events
  /\ memory \in Memories /\ lost \in Memories
  /\ editor \in [Editors -> {"none", "open", "saved"}]
  /\ draft \in [Editors -> Memories]
  /\ swept \in BOOLEAN /\ sweep \in SUBSET Events
  /\ retrying \in Events \cup {0}
  /\ restarts \in 0..MaxRestarts /\ deletes \in 0..MaxDeletes
  /\ admins \in 0..MaxAdmins
  /\ phase = "idle" <=> holder = NoRow

(* No row is handed over twice by turns, although a turn does it twice     *)
(* from the same snapshot and an admin moves the watermark meanwhile,      *)
(* unless the watermark was taken back in between: by a delete that resets *)
(* it, or by an admin compaction that selected it before a turn's commit   *)
(* and committed after it (the re-check of the watermark in                *)
(* trigger_compaction_for_dropped).                                        *)
TrimsApart ==
  \A e, f \in 1..made :
    event[e].by = "trim" /\ event[f].by = "trim" /\ event[e].era = event[f].era
    /\ event[e].span.rows \cap event[f].span.rows # {} => e = f

(* What a turn showed the model and hides from the next one, it hands to   *)
(* compaction, in this step or before (the watermark is the largest seq of *)
(* the dropped messages, and these are the oldest ones).                   *)
HandsOverWhatItHides ==
  [][phase = "committing" /\ phase' \notin {"committing", "idle"} =>
       \A r \in view : seq[r] > mark /\ seq[r] <= mark' =>
         r \in Blank \/ \E e \in 1..made' : r \in event'[e].span.rows]_vars

(* A delete never leaves the watermark above the rows that are left, where *)
(* it would hide every new one, and no turn puts it there: only an admin   *)
(* compaction, whose rows were deleted while it worked, can do that        *)
(* (_reset_trim_watermark_if_orphaned).                                    *)
OnlyAdminOvershoots ==
  [][mark <= Top /\ mark' > Top' => asked # NoAsk /\ asked' = NoAsk]_vars

(* The sweep never claims an event whose compaction still runs             *)
(* (_GRACE_SECONDS).                                                       *)
SweepSparesLive ==
  [][\A e \in Events :
       event'[e].tries # event[e].tries => task[e] = "idle"]_vars

(* Compactions, also two at a time and retried ones, never undo an edit or *)
(* each other: an edit that was saved, and what a completed compaction     *)
(* wrote unless it was refused, is in MEMORY.md, or an editor wrote over   *)
(* it from a text that it had read before (write_memory_async's compare    *)
(* and swap; the dashboard and edit_file write without it).                *)
NothingUndone ==
  /\ \A k \in Editors :
       editor[k] = "saved" => k \in memory.edits \cup lost.edits
  /\ \A e \in 1..made :
       event[e].status = "completed" /\ e \notin refused
         => input[e] \subseteq memory.facts \cup lost.facts

===============================================================================
