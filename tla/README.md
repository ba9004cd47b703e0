# A verification of prmonitor

prmonitor is a desktop application (a Rust back end under Tauri, a Vue front
end) that watches pull requests, starts agent reviews for them, answers chat
messages about them and reports on them. What makes it hard is not any one
algorithm but that a dozen long-lived tasks share a SQLite file, a few mutexes
and some child processes, and that the program may end between any two of their
steps. The modules here model that: the tables, the tasks, the locks and the
children; not the texts, the user interface or the wire formats.

Paths below are relative to `src/src-tauri/src` unless they start with `src/`.
`PROJECT.json` lists the components, the runs, the mutants, the hazards and, for
every definition that models code, the lines it models.

## 1. Inventory

### The flow

    discovery / webhook / external submit / chat           user commands
              |                                                 |
        inbox_event  --rules, one transaction-->  action_outbox |
                                                      |         |
                                   outbox worker (one task) <---+
                                                      |
             review start / stop      deliveries      workflows
                     |
         SessionRegistry + review_session rows  <--- pump of each turn
                     |
      Codex / Cursor / Claude child processes (JSON-RPC over pipes)

### Components

| Component | State | Operations | Hard behaviour | What makes it correct |
|---|---|---|---|---|
| **Action outbox** (`outbox/`, wiring in `lib.rs`, `state.rs`) | `action_outbox` table; `wake`/`stop` permits; user-stop flags; resume generation | enqueue, claim page, execute, record, manual retry, cancel, resume, restart | the worker executes *copies* of rows across an await while other threads change the table; a crash replays | budget never used up in a queued row; done is earned and final; no review stranded behind a resumed engine; no lost wake-up |
| **Review sessions** (`review/session.rs`, `review/commands.rs`, `review/history_store.rs`) | registry (reservations, sessions) under one mutex; `review_session` rows beside it; one pump task per turn | start, follow-up, stop, terminal notice, restart | every command is a chain of short critical sections with awaits between; the pump may miss its notice | one review per pair; no leaked reservation; row and registry agree at rest; no stuck session; stops take hold |
| **Codex resident manager** (`review/engines/codex/manager.rs`, `process.rs`) | `inner` cell, `start_lock`, `stopped` flag, child processes | ensure_started, status, start, stop, shutdown | a cold start spans awaits; a stop may land in the middle; children die | one server, no orphan, a stop wins, no call hangs |
| **Review start claim** (`review/claim_store.rs`, `start_for_outbox`) | `outbox_review_claim` rows | begin claim, attach thread, suppress a replay, release | crash between start and record | a crash does not review twice, and does not lose a review |
| **Lifecycle notices** (`composition/review_lifecycle.rs`) | outbox rows keyed by thread | enqueue Started / terminal, cancel pending Started | cancel races with the worker's copy | no Started notice after the end |
| **Codex JSON-RPC client** (`review/engines/codex/rpc.rs`) | pending map, closed flag, broadcast ring | request with timeout, reader loop, EOF drain | answer against timeout against EOF | every request is answered exactly once |
| **Claude engine** (`review/engines/claude/`) | cancel watch per session, one child per turn | start, resume, stop, pump, finish | register/deregister across awaits | a turn keeps its own cancel handle |
| **Cursor engine** (`review/engines/cursor/`) | resident child with a generation | start, resume, cancel with a watchdog | a late watchdog or prompt result meets a later turn | a turn is ended only by its own outcome |
| **Event inbox** (`inbox/`) | `inbox_event` rows with a dedupe key, wake permit | insert, process in one transaction, fail, requeue, prune | effects before the transaction; worker and handler race | an event's actions are planned once |
| **Rules** (`rule/`) | rule and match tables | match an event, plan actions | keys shared by several rows and rules; one transaction | the plan of an event is whole or absent; one notice per head |
| **Workflows** (`workflow/`) | instances with step, status, lease | claim step, progress, fail, retry, recover | a lease expires under a running driver | a step's effect is applied once |
| **Human input** (`messaging/human_input.rs`, `mcp.rs`) | durable requests, subscriber map | create, answer, cancel, expire, wait | two channels and a deadline race | one winner, read by everyone |
| **Messaging** (`messaging/service.rs`, providers) | inbound events, sends | ingest, drain, replay, reply | three drivers of one event | a message is answered once |
| **Long connections** (`messaging/long_connection.rs`, `*_stream.rs`, `feishu_long_connection.rs`) | supervisors and their generation | reconcile, update_current, abort | reconcile waits for what waits for its lock | an old supervisor cannot overwrite its successor, and no deadlock |
| **Discovery and scheduling** (`pr/scheduler.rs`, `pr/ledger.rs`, `pr/registry.rs`) | one task per project, dispatch ledger | tick, wake, reconfigure, stop, manual discovery | a cycle cut off by a reconfiguration | no candidate is lost or dispatched twice |
| **Webhook receiver** (`pr/webhook.rs`) | one runtime (server task, tunnel child) under `start_lock`; a snapshot of the routes | start, stop, status poll, exit; deliveries into the inbox | start and stop await the end of a server and the URL of a child | no port or child is left behind; a stop wins; an acknowledged event is durable |
| **PR providers** (`pr/gh.rs`, `azure.rs`, `bitbucket.rs`) | none | calls to the forges | I/O | parsing |
| **Remote access** (`remote/`) | maps of bound entrypoints and tunnels, server tasks, children | reconcile, gate requests, status | one save moves several ports at once; servers and children die | what listens is what the saved configuration says |
| **Web terminal**, **iTerm bridge** (`terminal/`) | PTY sessions with scrollback; a resident child | spawn, subscribe, close | replay against live output | output is delivered once and in order |
| **Database** (`db.rs`) | schema, `user_version`, legacy import | open, migrate, import | a death between two of eighteen steps | an upgrade is complete, resumed or refused, and loses nothing |
| **Configuration**, **event bus**, **notification** | settings | validate, save | sequential | unit tests |
| **Front end**, **build and forge automation** (`src/src`, `src/hack`, `src/scripts`) | mirrors of the back end's events | | | not modelled |

How they touch: the inbox's transaction inserts outbox rows; the outbox's
executor calls the review commands (start, stop), the message senders and the
workflow engine; the review commands use the registry and the managers; the
pump's terminal notice inserts and cancels outbox rows through the lifecycle
hook; a user's start or stop of an engine changes the flags the outbox's gate
reads and, on a resume, unblocks its rows.

Saves of the configuration run on the main thread one after the other; their
hook reconciles remote access and the long connections. Chat replies reach the
human input broker through the messaging worker; the webhook receiver and the
poll loops write inbox rows and wake the inbox worker.

The hazards, each at its line, are in `PROJECT.json`.

## 2. Plan

In the order of what would hurt most; what is done is named with its module.

1. The durable spine: **`Outbox`**, which implements **`DurableAction`**, what an
   outbox row promises to whoever enqueued it.
2. Who may start, continue and stop a review: **`ReviewSession`**.
3. The resident children: **`CodexManager`**; **`Cursor`**, the same cell with a
   generation and a watchdog; and **`Claude`**, one child per turn.
4. The write-ahead claim between 1 and 2: **`ReviewStart`**.
5. The producers of outbox rows: **`Inbox`** and **`Workflow`**, which extends
   it, and **`Discovery`**, composed in `MCIntake`.
6. The edges: **`HumanInput`**, **`LongConnection`**, **`WebPty`**, **`Rpc`**.
7. What is set up and torn down around them: **`Receiver`**, **`Remote`** and
   **`Migrations`**. All of 3, 4, 6 and 7 are composed in `MCServices`.

All of these are checked, and their safety properties and action properties are
proved (section 6). Left: a one-slot server (absent, starting, up) that
`CodexManager` and `Cursor` would implement, and a mutex per pair that the starts
of `ReviewSession` would implement; DingTalk's delivery path beside Feishu's; the
backoff with its jitter against a reference definition.

## 3. The modules

### `Outbox`

A row is named by its producer key, which the schema keeps unique and for ever.
`table` is the four columns the control depends on; time is in `due` ("now"
since it was written, "later", "elapsed") and `stale` (older than its TTL).
`wpc` walks the worker through `worker_loop`, `run_due_once`, the executor and
`record_action_result`; there is a step boundary wherever the code awaits or
lets go of the database, so every thread can act in between. What the claim
copied is in `batch` and `snap`: the table carries no mark of a claim.

| Actions | Code |
|---|---|
| `Enqueue`, `ProducerWake` | `outbox::service::enqueue*`, `store::enqueue_inner_tx`, `OutboxManager::wake` |
| `BeginReview`, `AnnounceStarted`, `EndReview` | `start_via_engine`, `composition/review_lifecycle.rs` |
| `Requeue`, `StopEngine`, `CommandClear` | the commands `outbox_retry`, `stop_*`, `start_*` |
| `Bump`, `Unblock`, `ResumeWake` | `ReviewResumeHook::fire` and its sink |
| `Boot`, `Spawn`, `WakeUp`, `ClaimDue`, `EndCycle` | `OutboxManager::start`, `worker_loop`, `claim_due` |
| `DropExpired`, `BeginRow`, `Observe`, `Gate*`, `Resumed`, `Succeed`, `Fail` | `run_due_once`, `run_review_action` |
| `Record`, `Reconcile`, `Rewake` | `record_action_result`, `reconcile_blocked_resume` |
| `Tick`, `Elapse`, `Age`, `Crash` | the ticker, the clock, the end of the process |

Left out: SQLite statements that fail (the code counts and logs them), the
second dedupe key by which two different producers of the same action meet, the
release of a review claim after done (`ReviewStart`), the announcements to the
user interface.

### `ReviewSession`

`mem` and `reserved` are the registry, `row` the durable status. A turn is
driven by the command that opened it (`drive`), then listened to by its pump
(`pump`); `heard` is the first terminal notice in its receiver, `codex` whether
the app-server runs the turn. Each registry method is one action; the durable
row is written in a step of its own, as in the code. `Restart` is the end of
the process and `fail_orphaned_sessions`; `Die` is the end of the app-server,
whose reader broadcasts `ConnectionClosed`.

Two over-approximations: after a death and a reconnection by another command, a
pending `turn/start` may still be accepted (in the code its old client fails);
and a lag may strike at any time. Both only add behaviours. One step is coarser
than the code: `Promote` writes the row and swaps reservation for session, two
statements of `commit_starting_session` with no await between; only a follow-up
on the new row, sent before the review is announced, could come in between. Left
out: streamed output and history items, the comment URL itself (the await is
there), the completion watch, failing SQLite writes, a prompt that
`review_prompt` refuses, the engines other than Codex.

### `CodexManager`

The cell, the two locks, the flag and the children. `guard` says who holds the
cell's mutex from one step to the next: only the install does, everyone else
takes and releases it within a step. `mine` and `victim` are the
`CodexProcess` values on the stacks of callers and stoppers, which is what
decides whether a child is an orphan.

### `DurableAction`

What the table promises about one row, whoever handles it: it is absent,
queued, done or dead; it may be attempted any number of times while it is
queued; it is done only after its side effect has happened; and it leaves done
never, dead only by a manual retry. `Outbox` refers to it as `Durable`, with the
refinement that takes `blocked` for queued, and adds nothing to its own
variables.

### `Inbox`, `Workflow`

`inbox`, `outbox` and `matches` are the tables, each a sequence whose positions
are the AUTOINCREMENT ids; `ipc`, `page` and `gated` are the worker between two
awaits; `ingress` holds rows that were inserted and whose wake is still to come,
because handler and worker run in parallel. A rule is a set of events it
matches and a sequence of actions; what the rules do with an event is `PlanAll`,
a pure operator over the tables that goes through them in order (`PlanRules`,
`AddActions`: recursive functions over 0..n), and `CommitPlans` is the one
transaction around it. `SettleAction` stands for the whole of `Outbox`: any
legal outcome of a row at any time.

`Workflow` extends it with the receipt workflow of an external request: `wf` is
the table of instances, `driver` the copies that drivers hold across their
awaits, `asked` the requests whose instance is not created yet. A lease that
runs out is `LeaseExpires`, at any time.

| Actions | Code |
|---|---|
| `Deliver`, `IngressWake`, `Replay` | `insert_dedup` and the wake after it, `replay` |
| `ReadPage` ... `Refeed`, `Fault`, `CommitPlans` | the worker of `inbox/manager.rs`, `process_rule_event` |
| `CreateOrGet`, `WorkerLoop`, `DriveClaim` ... `CompleteNotify` | `workflow/service.rs`, `workflow/store.rs` |
| `WfStart`, `WfCrash`, `InboxStart`, `InboxCrash` | the end and the start of the process |

Left out: which fields of an event a rule's conditions look at, the text of
notices, a failing insert (the sender is answered 500 and retries).

### `Discovery`

One project and one pull request. `loop` has the poll loops by the order in
which `SchedulerSet` created them, `mapped` the one it still knows; `writer` is
the read-modify-write that a cycle, a pull, a webhook re-feed or the archive
command is in, `wlock` the lock of `mutate_tracked`. `upstream` is the truth at
the provider, which a listing reads once, at some moment of its await: versions
of the pull request, of which `Open` are those where it is open and carries a
trigger label. Only these are listed, and a listing may miss one for a round
(`ListMisses`); a cycle that did not find the pull request writes nothing. Of a
closed one a project hears from webhooks alone, whose re-feed may be late or a
replay and carries any version up to the present one; it inserts only a
trigger-labelled open one, and otherwise changes a row that is there.
So `RowCatchesUp` speaks of a pull request that stays open and labelled; of any
other, the row keeps what was written last (section 7).

### `ReviewStart`

All rows are for one (project, pull request, skill). `exec` walks each row's
executor from the claim to the done record; `claim`, `sessions` and `ledger`
are the tables that survive a crash, `pairTaken` and the `live` of a session the
memory that does not. `kind` is the project's engine and decides when a session
is known to have acted: only Codex names its turn later than its session. The
stop and the follow-ups of `ReviewSession` are left out.

### `Rpc`

The pending map and its `closed` flag, the oneshot of each request, the writer's
mutex and the reader. The child is `server`: what it has received, what it has
sent and what it asks of us. The reader's end closes the map and drains it in one
critical section, which is the point of the module.

### `Claude`, `Cursor`

`Claude` is one session with several turns, each with a child of its own and a
cancel channel; the turns register and deregister in the manager's map across
awaits. `Cursor` is the resident process with its generation and model, three
sessions that start, follow up and stop in it, their pumps and watchdogs. A stop
marks the session, gives up the lock, and then writes the cancel to the process
it found (`stops`): once it is written the watchdog is armed (`CancelSent`), and
if it cannot be written the mark is taken back (`CancelFails`).
Output, tool calls and permission requests are left out of both.

### `HumanInput`

The row of a question, the broker's watch channel, the popup and the card, the
worker and the user's replay of the message that answers it, the clock in three
parts: before `expires_at`, after it, after the deadline of the wait.

### `LongConnection`

One integration of the Feishu manager: `reconciler` is where the save of a
configuration is in `reconcile`, with the mutex of the tasks held throughout;
`statusLock` is the mutex of the statuses; each supervisor has a generation.
An aborted supervisor goes away at its next await, which is what makes the
deadlock of finding 4. DingTalk's manager has the same shape; received frames
and deliveries are left out.

### `WebPty`

A session of the web terminal: its reservation, child, ring of scrollback,
reader, subscribers (desktop panels and sockets) and its end. Bytes are numbered
chunks, so that a hole or a repetition shows. Writes and resizes are left out.

### `Receiver`

`WebhookManager` and the deliveries to it. `start_webhook` loads the
configuration and the routes (`startCfg`), waits for `start_lock`, takes the
prior runtime out and awaits its end, binds, spawns the tunnel child and waits
for its URL; `stop_webhook` does the first half; a status poll tears a runtime
with a dead child down without the lock. `prior` and the command's own server
and child are on the stack of the holder, which is what can be leaked. Every
runtime is named by the command that made it.

| Actions | Code |
|---|---|
| `StartWebhook`, `CloudflaredUnresolved`, `EnterStart` ... `Abandoned` | `start_webhook`, `WebhookManager::start` |
| `StopWebhook`, `EnterStop`, `StopDone` | `stop_webhook`, `WebhookManager::stop` |
| `HealStatus`, `Quit` | `WebhookManager::status`, `shutdown` |
| `Handle`, `Ingest`, `Acknowledge` | `handle_webhook` and the ingestor |

Left out: the fields of a payload, the list of diagnostics, which port is
configured (all starts want the same one, the worst case).

### `Remote`

`ListenerSupervisor::reconcile`. `holder` is the host's view of each port,
`entries` and `tunnels` are the maps; an aborted server task keeps its port
until it is polled again (`DropListener`). `rev` stands for everything in an
entrypoint's signature other than its port: routes, tokens, policies. A bind is
tried `BIND_RETRIES` times and fails if the port is still taken: by a running
server, or by an aborted one that goes away too slowly, which is counted with the
deaths (`TriesRunOut`). Saves run on the main thread, so reconciliations do not
overlap.

### `Migrations`

The statements of `run_migrations`, step by step, as data: `SchemaStep[v]` is
the script of version v and `place` the statement that runs next, by its step and
its line there. `Fails` says when a statement is an error, `Adds` and `Removes`
what it does to the schema. `SchemaOf` is what a version's database looks like
when nothing interrupts: what some statement added and no later one took away.
Tables and added columns are kept; types, indexes and triggers are not, because
their statements all say IF NOT EXISTS.

## 4. The runs

| Run | Instance | Shows |
|---|---|---|
| `outbox` | two pairs of rows, one pair per behaviour: an automatic and an explicit review with one stop, the worker's own resume, and one crash or one resume by a command; a Started notice and a stop-review action with one crash, manual retry or repeated production (`WithinOnePair`, an action constraint) | `RetryLeft`, `NoStrandedBlock`, `PromptWake`, `ImplementsDurableAction` |
| `outbox_liveness` | an automatic review and a corrupt row, one stop, one resume; fair | `EverySettled` |
| `outbox_started` | a Started notice, a crash | finding 1 |
| `sessions` | two threads of one pair with two stops, or one thread with a follow-up and a stop; a death of the app-server or a restart; fair | `NoDoubleStart`, `NoLeakedReservation`, `SettledAgree`, `EndedStaysEnded`, `EndIsSeen` |
| `session_turns` | one thread, two senders, three turns | finding 2 |
| `session_stop` | one thread, one stopper | finding 3 |
| `intake` | one of: rules over a webhook event and a polled one of the same head; the workflow of one external request with two drivers, at most three repeated deliveries, faults or crashes together (`WorkflowBudget`); the discovery of one project with two loops, a manual pull, a webhook re-feed and the archive command. Fair | `PlansWhole`, `OneNotice`, `AnnouncedOnce`, `OutcomeIsFinal`, `EveryEventHandled`, `EveryReceiptAnnounced`, `ArchiveKept`, `StrayWorkEnds`, `RowCatchesUp` and the type invariant |
| `services` | one of eleven parts: review claim (two heads, three engines, two crashes), app-server manager (two callers, one stopper, three children), JSON-RPC (two requests and one of the server's), Claude (three turns, two stops), Cursor (three sessions, two models, two processes), human input (two questions, an answer, a cancel), a long connection (five generations, three saves), web terminal (two shells, a ring of one chunk), receiver (two starts, a stop, three settings, two deliveries), remote access (two entrypoints, two tunnels, three ports, three saves), upgrades (from every version, two deaths). Fair | `OneRecordedReview`, `LedgerMeansReviewed`, `NoneStranded`, `BoundToItsProcess`, `OneWinner`, `OneConnection`, `StreamIsWhole`, `ReceiverOwned`, `StopIsHonoured`, `AcknowledgedIsKept`, `NoStrayListener`, `TunnelsFollow`, `UpgradeIsSound`, `NoOrphan`, `OneServer`, `StopEmpties`, `StopsTakeEffect`, `EveryCallReturns` and the type invariant |
| `connection_deadlock` | one integration, three generations, two saves; fair | finding 4 |
| `receiver_routes` | the receiver of `services`; fair | finding 5 |
| `remote_save` | remote access as in `services` | finding 6 |
| `upgrade_cut` | upgrades as in `services` | finding 7 |

Where a run has several parts, a behaviour is of one of them, chosen at its
start and kept in `part`; components that share no state need no
product of their states, and one that is not explored stays in its initial
state, where nothing of it is enabled that its fairness speaks of. Every
property of a passing run has a mutant: a definition changed the way a
plausible bug would change it (`PROJECT.json`, and marked in the modules), under
which the run must fail.

**Bounds.** Two rows with a page of one are enough for a backlog, for a batch
left behind by a stop of the worker and for one row changing under the worker
while it is on the other. Two attempts are the least that tell a retry from a
dead letter. One stop and one resume around one gate are the whole of the
generation protocol; a second command adds only another resume, and the proofs
cover any number. Two threads of one pair are what `try_reserve_pair` is about;
two turns are a review and a follow-up, and the third of `session_turns` is the
one let in by mistake. Two callers make one wait for `start_lock` while the
other is in the slow path; three children let a server that was stopped or died
be started again twice; a second stopper only takes an empty cell, and the
proofs of the manager hold for any number. Two drivers are a lease that ran out
and its successor. A second loop is the replacement of a first one that is still
in a cycle. Three versions of a pull request are an open one, a closed one and
one opened again. Five generations let each of three saves and two reconnections
replace a supervisor. A ring of one chunk is full with the first output. Three
ports let a save exchange those of two entrypoints or give one a tunnel's. Two
deaths interrupt an upgrade and its repetition. Every bound is a named constant
(`MaxCrash`, `MaxStop`, ..., the sets themselves); the parts of an MC module
restrict it further where a case would only repeat another.

`SettledAgree` and `EndedStaysEnded` speak of threads that had no follow-up:
with one they fail for the reason finding 2 gives.

**Deadlock.** It is checked in the outbox runs. The others come to rest when
their bounded work is over (a review has ended, a question is answered, the last
save is reconciled) and say CHECK_DEADLOCK FALSE; that nothing waits for ever
meanwhile is what their liveness properties are for.

**Fairness.** `Outbox`: the runtime polls the worker, the ticker and every
resume that has begun, and delays run out; every executor the worker awaits is
bounded by a timeout. `ReviewSession`: the tasks of a turn run, since each of
their requests is answered or times out; nothing is assumed of the app-server,
whose turns may run for ever. `CodexManager`: calls and stops run, the
handshake is bounded by `HANDSHAKE_TIMEOUT`, and `start_lock` is tokio's FIFO
mutex, so a waiter gets it if it is released again and again (strong fairness
of `Lock`). `Inbox`, `Workflow`: the workers run, a planning transaction that is
tried again and again commits once (the refusals of SQLite are bounded), and the
program is started again after a crash. The outbox settles its rows, which is
what `EverySettled` shows of it; `RowsFair` of `MCIntake` says so of the steps
that its constraint `OfPart` admits, which are those whose result somebody is
about to read: a driver that polls a receipt for ever does not find it unsettled
for ever, while a behaviour in which nobody reads a row again may end with the
row pending, and is explored too. `Discovery`: cycles end (each provider call
has a timeout) and the fair lock of the rows admits every writer; nothing is
assumed of what a listing finds, but its misses are counted with the failures, so
that they end. `Claude`: a signalled turn's task runs. `Cursor`: the watchdogs,
which are timers, and that the write of a cancel ends, with success or not. This
is an assumption, since `write_line` has no timeout: a child that is alive and
does not read its standard input can hold it up, and no watchdog is armed yet.
`LongConnection`: the reconciler and the supervisors run whenever they are not
waiting for a lock. `Receiver`: commands, server tasks and handlers run.
Nothing is assumed of users, providers, agents, crashes, deaths, or the polls of
a panel that may not be open.

## 5. Findings

1. **`outbox_started`**: a review-started notice can be delivered after the
   review has ended: the turn may end before `start_via_engine` queues the
   notice, and the cancel cannot reach the copy the worker has claimed.
2. **`session_turns`**: `finalize_turn` sets the status a second time after it
   has awaited the comment URL, over a follow-up that was admitted meanwhile;
   the session reads Done while a turn runs, and the next follow-up is let in.
3. **`session_stop`**: a stop that meets a session in Starting is answered with
   success and does nothing; the review runs on.
4. **`connection_deadlock`**: `reconcile` waits for the supervisors it has
   aborted while it holds the mutex of the statuses. A supervisor that is about
   to take that mutex blocks its thread, does not reach the await at which the
   abort would end it, and both wait for ever.
5. **`receiver_routes`**: nothing restarts the webhook receiver after a save, so
   a project that was added gets no webhook events, and one that was removed
   keeps getting them, until the user restarts it.
6. **`remote_save`**: entrypoints are bound before the tunnels of the old
   configuration are torn down, so an entrypoint that takes over the port of a
   LAN tunnel is not bound by the save.
7. **`upgrade_cut`**: the steps of an upgrade are not one transaction; cut in
   the middle it cannot be resumed (a column is added twice), or has lost a key
   of the dispatch ledger. The comment at `db.rs:79` speaks of "the migration
   transaction" in passing; the one at `db.rs:944` knows that there is none.

## 6. The proofs

Every invariant and action property that a passing run checks is also proved,
for every value of the constants that meets the assumptions of the modules (sets
and limits of the right type, finite where the code counts, a `NoX` outside its
set). Each proof has the same shape: an inductive invariant, lemmas for its
conjuncts over the actions of `Next`, then one theorem per property.

| Module | About |
|---|---|
| `OutboxProofs` | `Outbox` and its refinement of `DurableAction` |
| `ReviewSessionProofs` | `ReviewSession` |
| `EngineProofs` | `ReviewStart`, `CodexManager`, `Rpc`, `Cursor` |
| `EdgeProofs` | `HumanInput`, `LongConnection`, `Receiver`, `WebPty`, `Remote` |
| `InboxProofs`, `WorkflowProofs` | `Inbox`; `Workflow`, which extends it |
| `IntakeProofs` | `Discovery`, and the three producers together (`MCIntake`) |
| `ServicesProofs` | `Migrations`, the types of `Claude`, and the services together (`MCServices`) |

* **Outbox.** `RetryLeft`, `NoFalseDone`, `NoStrandedBlock`, `PromptWake`,
  `DoneIsFinal`, `TypeOK`, and that every row implements `DurableAction`
  (`OutboxIsDurable`: the initial state of a row is initial there, and every step
  is a step of `DurableAction` or leaves the row's abstract state alone). None
  but `NoFalseDone` is about the table alone, so `IInv` adds what the worker
  carries: a claimed copy or current row is queued or dead, never done or absent,
  and its copied count is below the maximum (`CopiesOpen`); a result "done" has
  had its effect (`ResultEarned`); a worker that refused a review either saw an
  engine that is still stopped or will find the generation changed
  (`RefusalCurrent`); a row due now is in the hands of the worker, or its wake is
  on its way (`WakeOwed`, with `ShortPageHoldsAll`: a page that is not full holds
  every due row).
* **ReviewSession.** `NoDoubleStart`, `NoLeakedReservation`, `SettledAgree`,
  `EndedStaysEnded`, `TypeOK`.
  `NoDoubleStart` needs that a review past `try_reserve_pair` holds its pair
  (`Reservations`), that until `set_running` the first turn is Starting and alone
  in its thread (`FirstTurn`), that work goes on only for promoted threads and
  admitted turns, with an outcome to write (`Working`, `Heard`, `Targets`), and
  that a session inserted from its row after a restart has ended (`Rehydrated`).
  `SettledAgree` and `EndedStaysEnded` follow what becomes of the only turn:
  its pump begins when its command is over (`PumpAfterDrive`), at each point the
  status is what the row has or is about to get (`FirstOutcome`), a session that
  is not in the registry has left no trace there (`Blank`), and a follow-up that
  rehydrates it inserts the row as it still is (`CopyIsRow`).
* **CodexManager.** `NoOrphan`, `StopEmpties`, `OneServer`, `TypeOK`, from:
  slow path and `start_lock` go together (`SlowPath`, `Exclusive`), a child has
  one owner (`OneOwner`), and a stop that set its flag during an install has yet
  to take the cell (`StopPending`).
* **Cursor.** `BoundToItsProcess`. A session is bound to its generation only
  after `session/new` has been awaited, when the process may have been replaced;
  what makes it right is that client and generation were read in one critical
  section (`TakenTogether`), when the cell had the latest process
  (`CellIsLatest`), and that generations grow with the processes and are never
  reused (`Numbered`, `Handshaking`).
* **Rpc.** `NoneStranded`, which is inductive together with where a request that
  is still pending can be.
* **ReviewStart.** `OneRecordedReview`, `LedgerMeansReviewed`. The claim is the
  link: a session with a turn on record is the one its row's claim names until
  the row is done (`RecordedIsClaimed`), so an executor that may still start one
  has met none (`StartsUnrecorded`); and a claimed session that has not failed
  was reviewed, unless its turn is being started (`ClaimedRan`), so a row that
  is suppressed at its claim may enter the ledger.
* **HumanInput.** `OneWinner`, from the fact that a terminal row never changes
  (`DecideOnce`): what the broker told and what the asker returned is the row
  (`HeardIsRow`, `ResultIsRow`), and a handler that won decided (`HandlersKnow`).
* **LongConnection.** `OneConnection`: a supervisor that runs is the task in the
  map or one that a reconcile awaits (`RunnersAreKnown`), and a successor is
  spawned only when all it awaits are over (`AwaitedBeforeSpawn`).
* **Receiver.** `ReceiverOwned`, `StopIsHonoured`, `AcknowledgedIsKept`: the
  command that works on the runtime is the holder of `start_lock` (`LockHeld`),
  while it works no runtime is installed (`OneAtATime`), and what a start has
  made is told by how far it has come (`MadeSoFar`).
* **WebPty.** `StreamIsWhole`. The mutex of the ring is held over a replay and
  its flag, and over a push and its emission (`RingLocked`), so that the ring is
  the end of the output (`RingIsTail`) and the screen is the ring, or the end of
  the output but for the chunk that is being emitted (`ScreenFollows`). With it,
  that the cap on shells is kept by the reservations (`PtyCap`).
* **Remote.** `NoStrayListener`, `TunnelsFollow`. Both rest on the order within
  one reconciliation (stop, bind, start): what is bound follows the saved plan
  (`MapFollowsPlan`, `Binding`), a tunnel is started only for a bound target
  (`Starting`, `TunnelsAsDesired`), and a server that was not aborted is in a
  map or about to be entered (`EntryListens`, `LanListens`).
* **Inbox.** `PlansWhole`, `OneNotice`. A row of the page is distinct and still
  received when it is committed (`PageReceived`), every outbox row was made by a
  rule or a workflow with the keys that go with it (`BoxOK`), and planning only
  adds rows and re-uses those it finds (`AddsUp`, `PlansUp`).
* **Workflow.** `AnnouncedOnce`, `OutcomeIsFinal`. The copy of a driver that
  lost its lease may be old, but one that has an outcome has the row's
  (`Drivers`); a notice is written for a recorded outcome only, before the row
  is done (`Rows`); and every step moves a row on or leaves it (`Later`).
* **Discovery.** `ArchiveKept`: only the holder of the lock has a copy of the row
  and it is the row (`WriteLocked`), and the row has the flag that was asked for
  even before it exists (`FlagIsRow`).
* **Migrations.** `UpgradeIsSound`. The fate of a table or column is settled by
  the last statement still to run that speaks of it (`Fate`); a statement leaves
  it as it was, both for this run and for one that starts over from the stamped
  version (`Fates`); one that fails changes nothing and ends the run. The rows of
  a rebuilt table are in it or in its copy at every line (`Rebuilding`,
  `RowsHeld`).
* **The compositions.** `IntakeTypeOK` and `ServicesTypeOK` are proved from the
  invariants of the parts: a step of the composition is a step of one part and
  leaves the variables of the others alone.

Model-checked only: the liveness properties (`EverySettled`, `EndIsSeen`,
`EveryEventHandled`, `EveryReceiptAnnounced`, `StrayWorkEnds`, `RowCatchesUp`,
`StopsTakeEffect`, `EveryCallReturns`), since the prover has neither fairness
nor ENABLED. No module declares a recursive operator. `Inbox` has recursive
functions; what they give for every n is shown of the least n at which it would
fail, because the library's induction theorems cannot be instantiated here.

## 7. Not modelled

* **PR providers**: command lines and HTTP calls whose answers are parsed; no
  shared state. What a listing may show is `upstream` and `Open` in `Discovery`.
* **iTerm bridge**: the same cell, lock, flag and child as `CodexManager`, in
  front of an external daemon; another module would repeat that one.
* **Configuration**: validation and migration of a JSON document, sequential and
  table-tested. What the rest depends on is here: ports and targets (`PlanIsValid`
  of `Remote`), rules (`Inbox`), and that saves are serialized.
* **Event bus, front end, build**: mirrors of the state above, and scripts.
* In the modelled components: wire formats, texts and fields that nothing
  depends on; SQLite statements that fail, except where the code has a path for
  it that changes state.

Observed while reading, and not in a run: a rule with two Notify actions under
the `event` policy gives both the same key, so `rule_match_action` gets the same
pair twice and the event fails for good; `ingest_github` returns early if the
retention check fails after the insert, before the wake, and the platform's
retry is a duplicate that does not wake either; a late or replayed webhook may
write an older version of a row, which a later cycle corrects only while the pull
request is open and labelled: the row of a closed one keeps what was written
last; the watchdog of a cancelled Cursor turn ends whatever turn is in flight 15 s
later, which may be a follow-up sent meanwhile (`StopsTakeEffect` says that the
cancelled one ends, not that the next one is spared); a cancel that cannot be
written for as long as the child does not read leaves its session interrupting,
with no watchdog armed; a stop of a Claude review whose
child is starting, before its cancel sender is registered, is lost; a follow-up
that registers between `finalize_turn` and `deregister` loses its cancel sender;
an answer accepted between `expires_at` and the deadline of the wait returns
PENDING to the tool; the exit of the application cannot see the child of a
webhook or tunnel start that is in flight.
