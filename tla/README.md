# Clawbolt in TLA+

This directory is a verification project for Clawbolt, an assistant that people
reach by text message or web chat: TLA+ modules of its core, TLC configurations
that check them on small instances, and proofs that TLAPS checks for every
instance.  Everything is translated from the source under `src/`; line
references below are to `src/backend/app/` unless a path says otherwise.

## 1. The system

One process (`main.py`, FastAPI and asyncio) serves everything; the database
is Postgres.  Running several replicas at once is not supported
(`docs/self-host/configuration.md:202`), but a rolling restart lets the old
worker drain while the new one boots.

The path of a message:

    webhook -> ChannelBase.handle_webhook_inbound -> idempotency key -> bus queue
      -> process_inbound_from_bus -> open approval? resolve it : messages row
      -> MessageBatcher (1.5 s) -> per-user lock -> turn pipeline
      -> history (trim watermark) -> agent loop (tools, approvals, folding)
      -> reply on the outbound bus -> outbound row

Beside it run the heartbeat scheduler (proactive messages), the compaction
tasks, the OAuth sweep, and at start-up three recoveries (orphaned approvals,
orphaned inbound messages, pending compactions, `main.py:496-535`) and the purge
of staged media.

### Components

Modelled:

| component | state | operations | what is hard | what makes it correct |
|---|---|---|---|---|
| approval gate, `agent/approval.py` | `_pending[user]`, the `pending_approvals` row, `approval_events` | request, resolve, re-prompt, interrupt, clean-up at boot | reply, poll, timeout, deadline and crash race; errors of database calls are swallowed | only a reply grants; a waiter can be woken; the log is ordered; a notice of an interrupted approval is true |
| message dispatch, `agent/ingestion.py`, `midturn.py`, `concurrency.py` | batch, inbox of waiting dispatches, user lock | arrive, flush, acquire, claim, interrupt, apologise | arrival, flush, lock hand-over and fold interleave | every message has exactly one turn |
| agent loop and turn pipeline, `agent/core.py`, `router.py` | round, context, result, published replies | load history, call the model, run tools, ask, fold, reply, store | what a turn has read when it answers | it has read all that it answers, nothing twice |
| inbound intake and recovery, `channels/base.py`, `agent/inbound_recovery.py`, `agent/stores.py` | idempotency keys, rows and their age | accept, refuse, persist, sweep | crash between two commits; retries and backfills | one row, one turn for each worker, one stored reply; orphans are taken |
| trim watermark and compaction, `agent/context.py`, `compaction.py`, `compaction_recovery.py`, `session_db.py`, `memory_db.py`, `trimming.py` | `last_trim_seq`, `compaction_events`, MEMORY.md | load, trim, hand over, rewrite memory, delete, admin compaction, retry | a turn and its own triggers, background tasks, admin, delete and sweep share one watermark and one file | what leaves the context was handed over; no compaction undoes an edit or another compaction |
| heartbeat engine, `agent/heartbeat.py`, `heartbeat_routing.py`, and `channels/manager.py` | `_last_tick`, semaphore, `heartbeat_logs`, the outbound queue | tick, gate, decide, act, publish, log, deliver | a dozen ends of a run, with a message published or not; delivery comes later and may fail | daily budget, no typing indicator without a text or a stop behind it, everyone is evaluated |
| OAuth service, `services/oauth.py` | the `oauth_tokens` row, a cache per worker, an advisory lock | connect, disconnect, read, refresh, sweep, retire a dead grant | refreshers in two workers, a user who changes the connection during a POST, rotating refresh tokens | a spent refresh token is not posted again; a refresh does not undo the user; a dead grant is reported once |
| web chat bus, `bus.py`, `channels/webchat.py`, `manager.py` | response futures, event queues, outbound queue | post, open a stream, publish, resolve, clean up | three deadlines (stream 120 s, future 300 s, turn 600 s) and a client that comes when it likes | a stream ends with the answer, after its events; nothing stays registered |
| media staging, `agent/media_staging.py` and the tools that use it | `staged_media` rows, files on disk, upload receipts | stage, cap, purge, prune, discard, renew, upload, mark | bytes and rows are not written together; parallel tools of a round | no file without a row but where a deletion met a staging or a file it could not remove or read, no row without a file, the cap, one copy on Drive |

Not modelled:

| component | what it keeps and does | why not |
|---|---|---|
| permission store (`ApprovalStore`, `stores.py`, `user_db.py`) | PERMISSIONS.json, read, completed and written back | one document with one unlocked writer, `ensure_complete` (approval.py:356): its lost update is the whole story |
| quota and billing (`billing/`) | monthly counters | the check before the turn is documented as a soft one, the increment is atomic |
| model comparison (`services/model_comparison/`), alerts (`services/admin_alerts.py`, `health_monitor.py`) | background runs, alert groups | operators' tools; no state shared with the turn |
| rate limiter, encryption, authentication and accounts | sliding window, TTL cache of data keys, sessions, deletion | per request, or left to the database's cascades |
| prompt epochs and summary notes | where the prompt cache is cut | off by default, about cost |
| tools and integrations | bodies call external services | the core sees an approval ask and a result |
| channels | payload parsing and sending | I/O; their intake is in `InboundRecovery`, the web chat in `WebchatBus` |
| LLM service | choice of a model and calls | a call is a nondeterministic answer or failure |
| prompts, onboarding, routers, schema, settings, storage, frontend | text assembly, thin handlers, declarations | no concurrent state of their own |

### How the components interact

* The *user lock* serialises turns of a user, but heartbeat runs, admin
  compaction and dashboard edits do not take it.
* The *messages table* is the meeting point of dispatch, recovery, compaction
  and the heartbeat: `seq` orders it, an outbound row after an inbound row makes
  the recovery sweep take the inbound row for answered, and `last_trim_seq`
  hides rows.
* The *outbound bus* carries what a turn publishes to the dispatcher, which gives
  it to a registered future (a web request) or to a channel.
* *Staged media* is written by the turn pipeline before the agent runs and read
  by its tools; *OAuth tokens* are read by tools of a turn and by the sweep.
* The *approval gate* has one entry per user for both kinds of turn.
* *Deadlines*: a turn 600 s, an approval 120 s, a web stream 120 s, a response
  future 300 s, a pending compaction 600 s of grace.

## 2. Modules

| module | models | abstract specification | proofs |
|---|---|---|---|
| `ApprovalGate` | one user's gate, its callers and the boot clean-up | `ApprovalContract` (TLC and TLAPS) | `ApprovalGateProofs` |
| `TurnDispatch` | from an accepted message to the end of its turn | `TurnContract` (TLC and TLAPS) | `TurnDispatchProofs` |
| `InboundRecovery` | deliveries, rows, crashes and the sweep | | `InboundRecoveryProofs` |
| `Compaction` | watermark, events, memory and the retry | | `CompactionProofs` |
| `Heartbeat` | scheduler, runs, budget, the bus, typing indicator | | `HeartbeatProofs` |
| `OAuth` | tokens of one connection, two workers | | `OAuthProofs` |
| `WebchatBus` | web requests, their futures, queues and streams | | `WebchatBusProofs` |
| `MediaStaging` | one user's staged photos | | `MediaStagingProofs` |

`MC...` modules name the model values of the instances.  Each module is about
one user (or, for `Heartbeat`, a set of them), because every structure of the
code is keyed by the user.  A step is the code between two awaits; each database
call is a step of its own where its failure or a crash beside it matters.  Where
modules meet, the coarser view is stated in the header: a turn in
`InboundRecovery` and `Compaction` is what the sweep or the watermark can tell
apart of the turn in `TurnDispatch`; asks in `TurnDispatch` are answered
by nondeterminism, and `ApprovalGate` says what answers are possible; a turn in
`WebchatBus` is its events and what it publishes.

### ApprovalGate

`pc[a]` is the progress of one `request_approval` call, `pending` is `_pending`,
`row` the `pending_approvals` row, `audit` the `approval_events` rows, `tpc[t]`
a message or poll that calls `resolve()`.  `Request`, `PersistRow`, `Register`,
`PublishFails`, `Wake`, `Expire`, `DropRow` and `LogTimeout` are
`request_approval` between its awaits; `BeginResolve`, `ResolveDelete`,
`ResolveLog` and `ResolveWake` are `resolve`; `Reply...`, `Classified...` and
`Poll` are its callers in `ingestion.py`; `Snapshot`, `Cleaner...` are
`cleanup_orphaned_approvals`, by this worker at `Boot` or by a peer (`PeerBoot`).
`CancelTurn` is the turn's deadline.  User asks exclude one another by the lock,
heartbeat asks exclude one another by the scheduler, the two kinds overlap.
Two simplifications: the clean-up of the own worker (`Boot`) ends before new asks
begin, although `main.py` starts the channels (:464) and the heartbeat (:496)
before it calls the clean-up (:514).  An ask beside a clean-up is therefore seen
in `gate_overlap` only, where the peer's clean-up runs beside asks; what holds
of it is `GateSound`, `GrantNeedsReply` and the contract, not `NoticeIsTrue`.

### TurnDispatch

A dispatch is named by the last message of its batch.  `Arrive` is the row and
`enqueue` (nothing waits between them), `Flush` the end of the window, `Acquire`
and `ExitFolded` the two outcomes of waiting for the lock, `TurnStep` the turn:
load history, fold, call, tools, reply, store.  `Ask` and `Interrupt` are an
approval and the half-second poll; `TurnFails` a raise or the deadline, and
`Apologise` the fallback.  The lock is fair: `ticket` records who queued first.
Web messages are never folded.  Left out: user resolution, route checks,
`/report`, tools that send the reply themselves, heartbeat asks.

### InboundRecovery

`seen` is `idempotency_keys`, `inbound` and `outbound` the rows, `age` what the
sweep's time window can tell: under the 5 s floor, in the window, over 30 min.
`Accept` commits the key and puts the message on the in-memory bus; `Persist`
writes the row.  `Crash` keeps only the tables; `Boot` starts the channels,
`FindOrphans` runs the query, `DispatchOrphan` one orphan after the other.
Assumed: one worker at a time, a restart slower than the floor, a batch window
shorter than it, a sweep within the floor of the channels' start.  Left out: the
pruning of keys beyond 10 000.  Silent and failed turns leave no row, so the
next worker takes them again; a reply that was published and not stored is sent
twice: `StoredReplyOnce` is about what is stored.  `EveryOrphanTaken` is about
the orphans that the query can see: a row with any later outbound row (`Masked`)
is taken for answered, and nothing in the code takes it up again.

### Compaction

`seq` and `mark` are the table and `last_trim_seq`, `view` the history a turn
loaded, `dropped` what it hands over, `event`, `task`, `input`, `base` the
compaction events and the background `compact_session` of each with what it read.
`Begin` loads and finds the overflow; `ReadMark` and `Commit` are the
transaction of `trigger_compaction_for_dropped` with its re-check of the mark;
`Trim` is the trigger during a reply; `Reads`, `CallFails`, `Writes`,
`Closes` are `compact_session` with the compare and swap; `Retry` the sweep;
`Delete` the dashboard.  `AdminReads`, `AdminChecks` and `AdminCommits` are
`admin_compact_visible_messages`: it takes its rows, selects the session without
FOR UPDATE and compares, and writes when it commits, whatever a turn has
committed in between; `era` counts how often it, or the reset after a delete,
took the watermark back.  Bound: one of them at a time.  Overflow that renders to
nothing moves the watermark alone, for a turn and for the admin.  `EditorReads`
and `EditorWrites` are the dashboard's PUT of MEMORY.md (`user_memory.py:23-44`)
and `edit_file` (workspace_tools.py:475, :498): `draft` is the text that the
editor read, which it writes back with its change over whatever the file is by
then; `lost` is what that wrote over.  MEMORY.md is the set of rows
whose facts it holds; USER.md and SOUL.md are written the same way.
Left out: folded messages, the lookback cutoff, HISTORY.md, summary notes, the
shed path, hygiene runs, and the model's freedom to keep nothing.  A delete
happens only while no stored message waits for its turn.

### Heartbeat

`due` stands for `_last_tick` (a user is in it when the interval has elapsed or
the worker is new), `waiting` for the tasks behind the semaphore, `at[u]` for
the run of a user, `logged[u][d]` for the "send" rows of a UTC day.  `Elapse` and
`Midnight` are time.  `Prepare` to `LogSend` are `run_heartbeat_for_user` between
its awaits.  `Returns` ends a run that sets `_last_tick`, `Raises` one whose
exception `_process_one` catches, or that found no route: the user stays due.

A run only publishes: `HandOver` and `Publish` put a text, a start or a stop of
the typing indicator on the bus (`outbox[u]`, kept for the `Lasting` users, who
are reached over BlueBubbles: elsewhere an indicator expires by itself or there
is none).  `nudged[u][d]` counts the runs that published a message; whether and
when it arrives is not the run's to know.  `Dispatch` is the dispatcher of
`channels/manager.py`: it takes the next one off, sends a text, whose failure is
swallowed (:183-188), or starts a task for a typing call (:164-174, :190-210)
and goes on.  `TypingCallEnds` is the end of such a task, with success or
without.  `phone[u]` is the indicator as the calls have left it: hidden, a call
to show it on its way, shown, a call to hide it on its way, or stray: a text or
a stop went after it, but a call that failed or was overtaken, a text that was
lost, or a crash undid that.  `tooled` has the users whose run thinks that a
tool sent its message.

Users are active and onboarded, with one maximum for all.  Bounds: a user is not
claimed while the bus still holds messages of the last run, and a tool or a
round publishes only while fewer than `MaxQueued` are there.  Left out: the
sleep between ticks, the usage hook, the content of decisions, changes of
settings in a tick (the code reads them once, at its start), what the user's
turns send.

### OAuth

`row` and `extra` are the row of `oauth_tokens`, `lock` the advisory lock of
(user, integration), `cache[w]` the entry of `_token_cache` in worker `w`,
`at[t]`, `tok[t]`, `posted[t]` a call of the service.  `GetValidToken`, `Uses`
and `IsRejected` are a turn with its one retry after a 401, `Picks` the sweep,
which passes over users without a message in the last 14 days
(oauth.py:1453-1462, :1537-1552).  `FallsSilent` and `ComesBack` make a user
`dormant` and active again, the former (a bound) while no task works on the
connection; a dormant user's token is still refreshed inline, by a heartbeat's
or a returning user's tool. `Lock` is `load_token_uncached` under the lock with
the decision upon it, `Contended` the end of the wait; `PostAccepted`,
`PostRefused`, `PostFails` and `AnswerLost` what becomes of the POST; `Reread`
and `Save` the two transactions behind it; `Retire` the delete under the lock,
`Handle` and `Notify` those of `handle_permanent_refresh_failure`.  `Connect` is
`save_token` at the end of `handle_callback`, `Disconnect` a `delete_token`,
`WriteExtra` an integration's metadata.  The provider is external: it names
tokens in the order it issues them, may rotate the refresh token, and accepts
the newest one only.  `chosen`, `notes` and `hit` record what the user did last,
`lost`, `untold` and `slips` what failed; a notice that finds no enabled route
(:1379) counts as lost too. Left out: pending authorisations (state and PKCE),
the shared refresh of one turn's hook, grants that do not expire, and a load of
the cache that is overtaken by its eviction.

### WebchatBus

`fut[r]` and `queue[r]` are the entries of `_response_futures` and
`_event_queues`; a queue object lives on in the streams that hold it (`holds`),
a future with the outcome it had when it was evicted (`fate`).  `phase[r]` is
how far the message of a request has come: bus, batch, turn, over.  `Post`,
`Open`, `Take`, `Answer`, `TimeOut` and `Leave` are the endpoints, `Dispatch`
the loop of the channel manager, `CleanUp` the timer each registration starts,
`Event` a tool call or an approval prompt; `Bounce`, `Consume`, `Enqueue`,
`TextJoins`, `Flush`, `Reply` and `TurnFails` are what ingestion and the turn do
to the request id.  The events of a queue are a set (`left[r][q]`): what counts
is whether they were sent before the answer, not their order.  Left out: owner
checks and the activity streams; a queued turn is not told from the running one.

### MediaStaging

`table` is the set of rows of `staged_media`, `sooner` the order of their
expiry, `expired` the handles of the rows past it; `files` the files on disk,
named by handles.  `Insert`, `Write`, `EnforceCap` and `Delete` are `stage`: the
commit of the row, the bytes, the unlinks of the cap, the commit of its deletes.
`Purge`, `Prune` and `Discard` end in the same `Delete`.  `Touch` renews a row,
`Expire` is time; `StartUpload`, `Uploaded` and `Mark` are `upload_to_storage`
and `companycam_upload_photo` with the receipt between them, `named` tells
whether the call names the photo, without which the receipt is not looked for.
`StartUnknown` is an upload by a url that resolves to nothing: the first photo
of the message goes out in its name (file_tools.py:406-414), and no receipt is
kept. A deletion unlinks its files first (`Unlink`), and goes on where that
fails: `stuck` are the files that stay (media_staging.py:127-132).  A reader
that cannot read a file takes it for missing (:279-281), so `Prune` condemns
rows whose file is gone and rows whose file is there.  `strays` are the handles
deleted with a file left behind, and those staged or touched while they were
being deleted.  Transactions and file work can fail (`Fail`, `stuck`) or be cut
off by a crash; each counts as a fault.  Left out: download, vision, and `evict`
and `clear_user`, which only tests call.

## 3. Runs

Counters that the code does not bound are bounded by a constant in the guard;
`CHECK_DEADLOCK FALSE` stands where a finite set of messages or asks is used up
and the system rests.  Small bounds suffice because every hazard below takes two
actors and one fault: two asks, two messages, two users, one crash.

| run | instance | shows |
|---|---|---|
| `gate_overlap` | a user ask and a heartbeat ask, 2 replies, 1 crash, 1 peer boot, deadline, symmetric replies | `TypeOK`, `GateSound` (the log is ordered, the row of an answered ask is gone, the gate names a waiter), `GrantNeedsReply`, `ImplementsContract` |
| `gate_turn` | 2 user asks, 1 reply, 1 poll, 1 failing database call, 1 crash, deadline | `WaiterReachable`, `NoticeIsTrue`, `AskTerminates` |
| `dispatch_turns` | two text messages and a web message (`TextAndWeb`), 2 rounds, 1 ask, 1 failing turn | `TypeOK`, `MessagesAccounted` (one runner, one turn for each message, none lost, the inbox holds those that wait), `AnswersWhatItRead`, `NothingReadTwice`, `EveryMessageSettles`, and the refinement of `TurnContract` |
| `recovery` | 2 messages, 2 crashes, 1 heartbeat, 1 failing intake | `TypeOK`, `PersistedOnce`, `OneTurnPerWorker`, `StoredReplyOnce`, `EveryOrphanTaken`; two crashes, since a retry of a retry is where a second answer would come from |
| `compaction` | 2 messages and a reply, two of the three rows blank, window 2, surplus 1, at most 2 rows handed over at a load, 2 events, one each of restart, delete, admin compaction and edit | `TypeOK`, `TrimsApart`, `NothingUndone`, `HandsOverWhatItHides`, `OnlyAdminOvershoots`, `SweepSparesLive` |
| `heartbeat` | 2 users, one of them reached over BlueBubbles, one slot, maximum 1, queue bound 1, one midnight, one mishap (a crash, a failure after publishing or a cleared log) | `TypeOK`, `NudgesWithinBudget`, `TypingEnds`, `DueIsEvaluated` |
| `oauth` | 2 workers, a turn and a sweep, 3 tokens (a connection, a refresh and a reconnection, or two refreshes), 1 write of metadata, 1 fault, a user who may fall silent | `TypeOK`, `ReplayNeedsLoss`, `KeepsChoice`, `ToldOnce`, `StaleIsRefreshed` |
| `webchat` | 2 requests, two streams of the same one, 1 unseen event | `TypeOK`, `EndsWithTheAnswer`, `PromptsFirst`, `NothingStays` |
| `media` | 2 photos, 2 calls beside the purge, Drive only, cap 1, 3 handles, 1 fault, symmetric | `TypeOK`, `StagingConsistent`, `OneDriveCopy`; 3.2 million states, the largest run |

Each property of these runs is also known to fail for some plausible slip in the
code: operators marked "Mutant" in the modules, listed in `PROJECT.json`.

The remaining runs end in a counterexample; they are findings:

| run | property | what the code does |
|---|---|---|
| `gate_wrong_prompt` | `ReplyAnswersItsPrompt` | The gate is looked at, the classifier awaited, and then whatever is pending is resolved: a reply to a prompt that has ended decides the next tool's (ingestion.py:885). |
| `oauth_reconnect` | `RetiresRefused` | A refused grant is deleted without a second look at the row (oauth.py:1121): a connection the user has made meanwhile is deleted, and the user told to reconnect; the path of an accepted POST re-reads the row for this very case (:1161). |
| `media_second_copy` | `OneDriveCopy` | A row has one receipt, and that of CompanyCam replaces that of Drive (media_staging.py:616): a retry of `upload_to_storage` writes the photo to Drive again, which file_tools.py:377-380 sets out to prevent. |

### Fairness

* `AskTerminates`: weak fairness of each ask, each resolving task, the clean-up
  and the reboot.  `wait_for` has a timeout, and coroutines that can run do run.
  Nothing obliges a user to reply or a turn to be cancelled.
* `EveryMessageSettles`: the flush timer fires, the lock is handed to its waiters
  (asyncio locks wake in order), a turn's next step is taken (its calls have
  timeouts, its rounds are bounded), the fallback is sent.  No fairness
  of arrivals, asks, failures or interruptions.
* `EveryOrphanTaken`: the supervisor restarts the worker, the sweep and the steps
  of the message path are taken.  Crashes are bounded and not fair.
* `DueIsEvaluated`: restart, the minute loop, the end of a tick, and each user's
  claim and run step, and the dispatcher, without which the bound of the bus
  would stop the next claim.  The typing calls need not end.  Weak fairness
  suffices for the semaphore: nobody claims it twice within a tick, so it cannot
  be taken away for ever.
* `StaleIsRefreshed`: the sweep returns every two minutes (`Picks`) for users who
  have been active, and a refresh that can go on does.  A dormant user's token is
  meant to stay (`test_refresh_sweep_skips_inactive_users`), so the property asks
  nothing for it.  Strong fairness of an answer of the provider: it does not
  fail for ever; the turns' own calls are not needed.
* `NothingStays`: the dispatcher's loop, the timers of the clean-up and the loop
  of a stream.  No turn has to end and no client has to come or stay.

## 4. Proofs

The theorems hold for every value of the constants under the modules' named
assumptions (`GateAssumption`, `DispatchAssumption`, `RecoveryAssumption`,
`CompactionAssumption`, `HeartbeatAssumption`, `OAuthAssumption`,
`WebchatAssumption`, `StagingAssumption`).  They say only that the sets of names
are disjoint, the tasks, streams and rows finitely many where they are counted or
ordered, the bounds naturals, and the budget, the rounds, the window and the
concurrency not zero.

* `ApprovalGateProofs`: `TypeCorrect`, `GateNamesWaiter`, `AuditOrdered`,
  `AnsweredRowsGone`, with them `GateIsSound`, then `WaitersReachable`,
  `GrantsNeedReplies`, the refinement `GateRefines` and `NoticesAreTrue`. The
  type invariant needs `Linked` (a task or the cleaner holds an ask exactly
  while it needs one). Each later theorem adds an invariant: the "requested" row
  is there for every ask that anyone can still refer to (`AuditInv`); an ask is
  resolved only after its one write of the row (`RowInv`, needed because the row
  is keyed by the user and could be another's); asks do not overlap without
  heartbeat asks (`AloneInv`, and this hypothesis is in the theorem); every
  decision came from a task that took that ask (`AnswerInv`). In the refinement
  `BeginResolve` is the contract's `Answer`, `Wake`, `Expire` and `PublishFails`
  are its `Return`, the rest stutters. For the notices, the boot clean-up has
  the database to itself and finds only rows of asks that did not return
  (`NoticeInv`); with a peer that boots beside a draining worker this is false,
  so its absence is a hypothesis.
* `TurnDispatchProofs`: all safety properties of the run, together as
  `Accounted`, and the refinement of `TurnContract`.  The heart is `TicketInv`:
  batches, tickets and `seq` have the same order.  With `FirstInv` (the holder
  queued before all who wait) it gives that what may still be folded is younger
  than the history of the turn, hence `NothingReadTwice`; `BatchInv` and
  `CoverInv` (batches are disjoint, a turn covers only batches that no longer
  wait) give `OneTurnPerMessage`.
* `InboundRecoveryProofs`: `TypeCorrect`, `StoredOnce`, `NoSecondTurn`,
  `NoSecondReply`.  `RowsInv` puts the key before the row, `WaitInv` keeps the
  batcher, the queue and the orphans apart, `FreshInv` says that before the
  sweep all this worker has taken on is below the freshness floor, and `ReplyInv`
  that what a stored reply answers is older and no longer waits.
* `CompactionProofs`: `TypeCorrect`, `TrimsStayApart`, `HandsOver`,
  `OnlyAdminsOvershoot`, `NothingIsUndone`, `LiveIsSpared`.  `seq` has no bound
  among the constants, so the maxima of rows that the code takes exist only
  because the numbers given are bounded (`Bounded`).  About events: what is not
  made yet is idle (`FutureInv`), a rewrite that was not refused is in the
  memory from its write on, or in `lost` because an editor wrote over it
  (`MemoryInv`: by the compare and swap a compaction only ever adds), nobody
  compacts an event that the sweep found (`SweepInv`).  About the watermark:
  rows in use were stored (`BornInv`), the rows of a turn's event are below the
  watermark of their era, also below the one a transaction has read
  (`TrimmedInv`), and what a turn drops is older than what it keeps
  (`DroppedInv`).  An admin commit that lowers the watermark opens an era that
  has no event of a turn yet, which is why `TrimsStayApart` speaks of events of
  one era; that the rows below a watermark about to be lowered were handed over
  all the same is `CoveredInv`, from which `HandsOver` follows.
* `HeartbeatProofs`: `TypeCorrect` (with the bound of the semaphore, for a
  finite set of users), `BudgetKept`, `TypingStops`.  For the indicator,
  `TypingInv` looks at the last word about it: the last message on the bus if
  there is one, else the phone.  Where a run neither thinks nor was made to
  believe that a tool sent its message, that word is a text, a stop or an
  indicator that something has already gone after.  The budget is not inductive:
  `BudgetInv` bounds today's messages by today's log, an open run and what was
  lost (`Extra`), `RoomInv` keeps for each run past its gate the room it saw
  there, `SentInv` says which runs are open, and `FutureInv` (nothing is counted
  for a day to come) carries all of them over midnight.
* `OAuthProofs`: `TypeCorrect`, `ChoiceIsKept`, `ReplaysNeedLoss`,
  `EachIsToldOnce`.  `KnownInv` says that tokens in use were issued.  A
  connection in progress shares no token with anything stored (`FlowInv`), hence
  the row holds the posted refresh token exactly while it is of the posted grant
  (`PostInv`), which makes the second look of the refresh conclusive
  (`SavingInv`).  Either the row has the newest refresh token of its grant or the
  task with the advisory lock has it (`LossInv`).  Notices are counted with the
  tasks that are about to give one (`ToldInv`): none while the grant is the row's
  or may become so (`Alive`), one more for each failed delete; a refusal is
  reported, on its way, or failed (`HeardInv`).
* `WebchatBusProofs`: `TypeCorrect`, `StreamsEndWithTheAnswer`,
  `PromptsComeFirst`.  Only posted requests are answered (`PostedInv`), a
  registered future has the first answer (`FutureInv`), and a stream that came in
  time holds that future, or has its outcome since the clean-up (`StreamInv`).
  For the events: a request with an answer on its way has no more of them
  (`OverInv`), and what nobody has seen lies in the queue that the POST made,
  which is the registered one until the first stream ends and stays with the only
  stream also after the clean-up has evicted it (`EventInv`).  The types need that
  a new queue object is always to be had (`FreshIs`, by counting streams).
* `MediaStagingProofs`: `TypeCorrect`, `StagingStaysConsistent`,
  `DriveCopiesOnce`.  What is staged has a row and what is being deleted has no
  file, unless it strays: it was staged or touched meanwhile, or its file could
  not be unlinked or read (`FileInv`); without a failure a row lacks its file
  only while a task is about to write it or to delete the row, and a row that
  the purge condemned is still expired, or was renewed (`RowInv`). The cap is
  not inductive, since a row over it stays until its deletion commits: `CapInv`
  counts the rows that no call has condemned.  A copy on Drive has its receipt
  in a live row, or its task is about to write it, and no other task is
  uploading that photo (`FiledInv`).  The last theorem has the hypothesis that
  photos go to Drive only; without it the run `media_second_copy` refutes it.

Every safety property of the passing runs is proved, and both refinements.  Only
model-checked is liveness (`AskTerminates`, `EveryMessageSettles`,
`EveryOrphanTaken`, `DueIsEvaluated`, `StaleIsRefreshed`, `NothingStays`), which
the proof system does not cover.  Two modules hold their data in a form chosen
for this: `MediaStaging` has a set of rows and their order where a list in order
of expiry would need to be filtered by recursion, `WebchatBus` sets of events
where a count would have to be bounded by what is in other queues.

## 5. Behaviour met while modelling

Beside the findings, without a run of their own; the properties above are
stated so that they leave these out, and say so:

* Approvals.  A heartbeat's ask replaces the entry of the user turn's ask, which
  can then only time out (approval.py:538); `WaiterReachable` is therefore
  stated and proved without heartbeat asks and says that nothing else takes an
  entry from its waiter: of the overlap itself it says nothing.  Only
  `TimeoutError` is caught around the wait (approval.py:554): when the turn's
  deadline cancels it, the entry stays, `has_pending` is true with nobody
  waiting, and the next yes or no is consumed by it.  A second reply writes a
  second verdict row (:606).  The row's delete is keyed by the user only (:600).
  The clean-up of a booting worker takes rows of a worker that is still draining
  (:786).
* Dispatch.  A web request that shares a batch with a later text is answered on
  the text's channel, or with a later web request as that one only
  (ingestion.py:602): the batch keeps the last request id.  The fallback apology
  can follow a reply that was published (ingestion.py:516).  Verdicts are cached
  for the turn (core.py:1266), so a permission changed meanwhile is not seen.  A
  web turn reads the reply to a later folded text without that text
  (router.py:545-548).
* Recovery.  A message stored after the last fold of a running turn has a smaller
  `seq` than that turn's reply; after a crash the sweep takes it for answered
  (inbound_recovery.py:97).  The key is committed before the row: after a crash
  in between every retry is refused (channels/base.py:222).
* Compaction.  The overflow of one load is capped, and the trim of the same turn
  moves the watermark past the rest, which is never handed over: with the
  defaults, a session with a NULL watermark and more than 700 rows
  (context.py:594); `HandsOverWhatItHides` is about rows the model was shown, so
  it leaves this backlog out.  A rewrite refused by the compare and swap
  completes its event (compaction.py:533); `NothingUndone` leaves those out.
  The dashboard's PUT (user_memory.py:23-44) and `edit_file`
  (workspace_tools.py:475, :498) write without one, over what a compaction or
  another edit has written since they read the text: `NothingUndone` counts that
  as lost and says that nothing else is.  A retry reads the range as it is now
  (compaction_recovery.py:193).  A crash between the entry in HISTORY.md and the
  close of the event repeats the entry.  A delete of the newest rows resets the
  watermark and shows compacted rows again. An admin compaction can leave the
  watermark above the table.  It can also lower the one that a turn wrote
  between its select and its commit (context.py:793-798, :824-830), and a turn's
  transaction the one it wrote: the rows between the two come back into the
  context and go into a second event, where :131-136 sets out that the next load
  no longer sees them.
* Heartbeat.  A message that was published is stored and counted whether or not
  it is delivered (manager.py:183-188).  An indicator that the run has taken
  back can stay on the phone: the calls to show and to hide it are tasks of
  their own (:164-174, :190-210), so that a start can overtake a text or a stop,
  and a stop or a text that fails is not repeated.
  `heartbeat_max_daily_messages` can be exceeded by one for each crash, failed
  store, or failed agent after `send_media_reply`; after a failed store the run
  is repeated in the next minute.  After `send_media_reply` the next round shows
  the indicator again (core.py:694) and `finally` leaves it, since the run "sent
  a reply".  Text beside a tool's message is discarded.  Tokens of a failed
  second phase never reach the usage hook.  A run that waits for an approval
  delays the next tick for everyone.
* OAuth.  What the user does between the second look of a refresh at the row
  (oauth.py:1161) and its save is overwritten: `KeepsChoice` leaves exactly that
  window out (`hit`).  A user without an enabled route is never told of a dead
  grant (:1379).  The sweep looks 360 s ahead, but `refresh_token` takes a token
  that is not within its own buffer of 300 s for one a peer has refreshed: a
  token due in 300 to 360 s is picked, skipped and counted as refreshed, against
  the comment on `_REFRESH_LOOKAHEAD_SECONDS` and `tests/test_oauth.py:1199`.  A
  `load_token` in flight during a save or a delete can put the old entry back
  into its worker's cache for up to 30 s.
* Web chat.  Two streams of one request share a queue and the first to end removes
  it.  A turn of more than 300 s loses its reply, one of more than 120 s its
  stream; the approval's timeout equals the stream's, so that the reply after a
  timed-out approval does not reach it.  A future that the clean-up cancels breaks
  the stream without an error event (`CancelledError` is no `Exception`).  When
  a tool sends the reply itself, the future is never resolved.
* Media.  `evict` deletes the row with its receipt, where its docstring keeps
  "the record cache" (media_staging.py:480).  A reader between commit and write
  prunes the row, and the file is left for ever.  A receipt that is staged again
  can be the first to go under the cap, and two overlapping runs of the cap
  delete too much.  `models/infra.py` and main.py:568 speak of a purge on
  staging, which does not exist.  `upload_to_storage` without `original_url`
  looks for no receipt (file_tools.py:385, :414).  media_staging.py:201 says
  that services recognise duplicates, file_tools.py:379 that Drive does not.
  The error of an unlink is swallowed while the row goes
  (media_staging.py:127-132), and a file that is there but cannot be read loses
  its row (:279-281): nothing looks for files without rows.  An upload under a
  url that resolves to nothing takes the first photo of the message
  (file_tools.py:406-414).  `OneDriveCopy` leaves out what the code gives up: a
  receipt gone with its row under the cap or at its expiry, parallel uploads of
  one photo, calls that do not name it.
* Quota: the "daily" cap of the free tier counts the month (`billing/quota.py`).

## 6. What is left

* To prove: nothing of what the runs check, but for liveness.
* To model: the permission store beside the gate (`ensure_complete` against
  `set_permission` and the agent's `edit_file`), HISTORY.md, account deletion
  during a turn, the groups of `admin_alerts.py`.
* Not modelled, and not worth it: the clients of external services under
  `integrations/` (more than half of the code: building requests and parsing
  answers, without shared state), text assembly (prompts, onboarding, e-mail),
  schemas, thin routers, settings and the frontend.  That is why the mapped lines
  are a small share of the repository.
