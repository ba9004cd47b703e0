------------------------------- MODULE Outbox -------------------------------
(***************************************************************************)
(* The durable action outbox: the action_outbox table, the single worker   *)
(* that drains it, the producers that fill it, the commands that re-queue, *)
(* cancel or resume its rows, and the crash of the whole process between   *)
(* any two of these steps.                                                 *)
(*                                                                         *)
(* A row is named by its producer key, which is UNIQUE and permanent: a    *)
(* second production of the same action finds the first row in whatever    *)
(* status it is.  The key set Row is ordered like the row ids.             *)
(*                                                                         *)
(* The worker copies a page of due rows out of the table without marking   *)
(* them, executes them one at a time across an await, and only then writes *)
(* the outcome back by id.  Everything else that touches the table runs on *)
(* other threads in between.                                               *)
(***************************************************************************)
EXTENDS Naturals, FiniteSets

CONSTANTS
  Row,          \* producer keys, ordered like the ids of the rows they name
  Engine,       \* the resident review engines a user can stop (Codex, Cursor)
  Command,      \* concurrent commands that may resume an engine
  KindOf,       \* the kind of each row
  EngineOf,     \* the engine of each review row
  Started,      \* the "review started" notices of one review thread
  Corrupt,      \* rows whose stored kind no longer parses
  MaxAttempts,  \* MAX_ATTEMPTS: executions before a row dead-letters
  ClaimLimit,   \* CLAIM_LIMIT: rows in one claimed page
  MaxCrash, MaxStop, MaxRequeue, MaxResume, MaxReplay   \* bounds of the environment

Kind == {"autoReview", "explicitReview", "stopReview", "delivery"}

ASSUME RowAssumption == Row \subseteq Nat /\ IsFiniteSet(Row)
ASSUME KindAssumption == KindOf \in [Row -> Kind]
ASSUME EngineAssumption == EngineOf \in [Row -> Engine]
ASSUME StartedAssumption == Started \subseteq {r \in Row : KindOf[r] = "delivery"}
ASSUME CorruptAssumption == Corrupt \subseteq Row
ASSUME LimitAssumption == MaxAttempts \in Nat \ {0} /\ ClaimLimit \in Nat \ {0}
ASSUME BoundAssumption ==
  MaxCrash \in Nat /\ MaxStop \in Nat /\ MaxRequeue \in Nat
  /\ MaxResume \in Nat /\ MaxReplay \in Nat

VARIABLES
  status,    \* status column of each row
  attempts,  \* attempt_count column of each row
  due,       \* next_attempt_at: "now" since it was written, "later", or "elapsed"
  stale,     \* created_at is older than the TTL of the row's kind
  wpc,       \* where the worker task is
  batch,     \* claimed rows the worker has not begun yet
  snap,      \* what the claim copied of each claimed row
  cur,       \* the row the worker is on
  obs,       \* the resume generation the executor observed
  result,    \* what the executor returned for cur
  wake,      \* the stored permit of OutboxManager.wake
  tick,      \* the interval ticker has fired since it was last consumed
  full,      \* the last claim filled its page: a backlog may remain
  owed,      \* rows some thread has written and not yet woken the worker for
  stopped,   \* the user-stop flag of each engine
  gen,       \* ReviewResumeHook.generation
  phase,     \* how far each resume (of a command or of the worker) has got
  review,    \* the review thread whose lifecycle produces the Started rows
  effects,   \* rows whose side effect has happened at least once
  budget     \* what is left of the environment's bounds

table   == <<status, attempts, due, stale>>
worker  == <<wpc, batch, snap, cur, obs, result>>
signals == <<wake, tick, full, owed>>
engines == <<stopped, gen, phase>>
vars    == <<table, worker, signals, engines, review, effects, budget>>

Worker  == "worker"
Resumer == Command \cup {Worker}

Status  == {"absent", "pending", "blocked", "done", "dead"}
WorkerPc ==
  {"down", "boot", "parked", "claim", "next", "observe", "gate", "resuming",
   "effect", "record", "reconcile", "rewake"}
Phase   == {"idle", "cleared", "bumped", "unblocked"}
Result  == {"none", "done", "blocked", "retry", "dead"}
Copy    == [attempts : Nat, stale : BOOLEAN]
NoCopies == [r \in Row |-> [attempts |-> 0, stale |-> FALSE]]

TableType ==
  /\ status \in [Row -> Status]
  /\ attempts \in [Row -> Nat]
  /\ due \in [Row -> {"now", "later", "elapsed"}]
  /\ stale \in [Row -> BOOLEAN]

WorkerType ==
  /\ wpc \in WorkerPc
  /\ batch \subseteq Row
  /\ snap \in [Row -> Copy]
  /\ cur \subseteq Row
  /\ obs \in Nat
  /\ result \in Result

SignalType ==
  /\ wake \in BOOLEAN /\ tick \in BOOLEAN /\ full \in BOOLEAN
  /\ owed \subseteq Row

EngineType ==
  /\ stopped \in [Engine -> BOOLEAN]
  /\ gen \in Nat
  /\ phase \in [Resumer -> Phase]

WorldType ==
  /\ review \in [thread : {"none", "live", "lost"}, announced : SUBSET Started,
                 ended : BOOLEAN]
  /\ effects \subseteq Row
  /\ budget \in [crash : Nat, stop : Nat, requeue : Nat, resume : Nat, replay : Nat]

TypeOK == TableType /\ WorkerType /\ SignalType /\ EngineType /\ WorldType

Init ==
  /\ status = [r \in Row |-> "absent"]
  /\ attempts = [r \in Row |-> 0]
  /\ due = [r \in Row |-> "now"]
  /\ stale = [r \in Row |-> FALSE]
  /\ wpc = "down" /\ batch = {} /\ cur = {} /\ obs = 0 /\ result = "none"
  /\ snap = NoCopies
  /\ wake = FALSE /\ tick = FALSE /\ full = FALSE /\ owed = {}
  /\ stopped = [e \in Engine |-> FALSE] /\ gen = 0
  /\ phase = [p \in Resumer |-> "idle"]
  /\ review = [thread |-> "none", announced |-> {}, ended |-> FALSE]
  /\ effects = {}
  /\ budget = [crash |-> MaxCrash, stop |-> MaxStop,
               requeue |-> MaxRequeue, resume |-> MaxResume, replay |-> MaxReplay]

-----------------------------------------------------------------------------
(* Statements on the table that several operations share.                  *)

\* unblock_reviews: every blocked review is queued again, due now.
Blocked == {r \in Row : status[r] = "blocked"}
UnblockReviews ==
  /\ status' = [r \in Row |-> IF r \in Blocked THEN "pending" ELSE status[r]]
  /\ due' = [r \in Row |-> IF r \in Blocked THEN "now" ELSE due[r]]
  /\ UNCHANGED <<attempts, stale>>

\* mark_dead: by id, whatever the row has become since it was claimed.
MarkDead(r, n) ==
  /\ status' = [status EXCEPT ![r] = "dead"]
  /\ attempts' = [attempts EXCEPT ![r] = n]
  /\ UNCHANGED <<due, stale>>

MarkDone(r, n) ==
  /\ status' = [status EXCEPT ![r] = "done"]
  /\ attempts' = [attempts EXCEPT ![r] = n]
  /\ UNCHANGED <<due, stale>>

\* mark_retry: reschedules and never touches the status.
MarkRetry(r, n) ==
  /\ attempts' = [attempts EXCEPT ![r] = n]
  /\ due' = [due EXCEPT ![r] = "later"]
  /\ UNCHANGED <<status, stale>>

\* mark_blocked: only a row that is still pending, and no attempt is used.
MarkBlocked(r) ==
  /\ status' = [status EXCEPT ![r] = IF @ = "pending" THEN "blocked" ELSE @]
  /\ UNCHANGED <<attempts, due, stale>>

-----------------------------------------------------------------------------
(* Producers and commands: threads of the running process.                 *)

Alive == wpc # "down"

\* enqueue: INSERT OR IGNORE on the producer key.  A row that exists is
\* returned as it is; either way the worker is woken afterwards.
Insert(r, d) ==
  /\ status' = [status EXCEPT ![r] = "pending"]
  /\ attempts' = [attempts EXCEPT ![r] = 0]
  /\ due' = [due EXCEPT ![r] = d]
  /\ stale' = [stale EXCEPT ![r] = FALSE]

InsertOrIgnore(r, d) ==
  \/ status[r] = "absent" /\ Insert(r, d)
  \/ status[r] # "absent" /\ UNCHANGED table

Enqueue(r) ==
  /\ Alive /\ r \notin Started /\ r \notin owed
  /\ InsertOrIgnore(r, "now")
  /\ \/ status[r] = "absent" /\ UNCHANGED budget
     \/ /\ status[r] # "absent" /\ budget.replay > 0
        /\ budget' = [budget EXCEPT !.replay = @ - 1]
  /\ owed' = owed \cup {r}
  /\ UNCHANGED <<worker, wake, tick, full, engines, review, effects>>

ProducerWake(r) ==
  /\ r \in owed
  /\ wake' = TRUE
  /\ owed' = owed \ {r}
  /\ UNCHANGED <<table, worker, tick, full, engines, review, effects, budget>>

\* A review thread starts; its engine's start call spawns the turn, so the
\* turn can end before the call returns and announces the start.
BeginReview ==
  /\ Alive /\ review.thread = "none"
  /\ review' = [review EXCEPT !.thread = "live"]
  /\ UNCHANGED <<table, worker, signals, engines, effects, budget>>

\* The Started dispatch, after engine.start returned: one row per target, each
\* in a transaction of its own, delayed by start_delay_secs or due at once.
AnnounceStarted(r) ==
  /\ review.thread = "live" /\ r \in Started \ review.announced
  /\ \E d \in {"now", "later"} : InsertOrIgnore(r, d)
  /\ review' = [review EXCEPT !.announced = @ \cup {r}]
  /\ owed' = owed \cup {r}
  /\ UNCHANGED <<worker, wake, tick, full, engines, effects, budget>>

\* Mutant: the update does not look at the status.
EndReviewWhatever ==
  /\ review.thread = "live" /\ ~review.ended
  /\ review' = [review EXCEPT !.ended = TRUE]
  /\ status' = [r \in Row |-> IF r \in Started /\ status[r] # "absent"
                              THEN "dead" ELSE status[r]]
  /\ UNCHANGED <<attempts, due, stale, worker, signals, engines, effects, budget>>

\* The terminal dispatch: cancel_pending_started kills what is still pending.
EndReview ==
  /\ review.thread = "live" /\ ~review.ended
  /\ review' = [review EXCEPT !.ended = TRUE]
  /\ status' = [r \in Row |-> IF r \in Started /\ status[r] = "pending"
                              THEN "dead" ELSE status[r]]
  /\ UNCHANGED <<attempts, due, stale, worker, signals, engines, effects, budget>>

\* outbox_retry: only a dead row, with a fresh budget and a fresh created_at.
Requeue(r) ==
  /\ Alive /\ budget.requeue > 0
  /\ status[r] = "dead"
  /\ Insert(r, "now")
  /\ owed' = owed \cup {r}
  /\ budget' = [budget EXCEPT !.requeue = @ - 1]
  /\ UNCHANGED <<worker, wake, tick, full, engines, review, effects>>

\* stop_codex / stop_cursor, as far as the outbox can see it.
StopEngine(e) ==
  /\ Alive /\ budget.stop > 0 /\ ~stopped[e]
  /\ stopped' = [stopped EXCEPT ![e] = TRUE]
  /\ budget' = [budget EXCEPT !.stop = @ - 1]
  /\ UNCHANGED <<table, worker, signals, gen, phase, review, effects>>

-----------------------------------------------------------------------------
(* A resume: clear the stop flag, then ReviewResumeHook.fire, which bumps  *)
(* the generation and calls the sink (unblock every review, wake).  Each   *)
(* is a step of its own; start_codex even awaits a handshake after the     *)
(* first.  The worker does the same for an explicit review it executes.    *)

Clear(p, e) ==
  /\ phase[p] = "idle"
  /\ stopped' = [stopped EXCEPT ![e] = FALSE]
  /\ phase' = [phase EXCEPT ![p] = "cleared"]
  /\ UNCHANGED gen

CommandClear(c, e) ==
  /\ Alive /\ budget.resume > 0
  /\ Clear(c, e)
  /\ budget' = [budget EXCEPT !.resume = @ - 1]
  /\ UNCHANGED <<table, worker, signals, review, effects>>

\* Mutant: the resume does not bump its generation.
BumpQuietly(p) ==
  /\ phase[p] = "cleared"
  /\ phase' = [phase EXCEPT ![p] = "bumped"]
  /\ UNCHANGED <<table, worker, signals, stopped, gen, review, effects, budget>>
Bump(p) ==
  /\ phase[p] = "cleared"
  /\ gen' = gen + 1
  /\ phase' = [phase EXCEPT ![p] = "bumped"]
  /\ UNCHANGED <<table, worker, signals, stopped, review, effects, budget>>

Unblock(p) ==
  /\ phase[p] = "bumped"
  /\ UnblockReviews
  /\ phase' = [phase EXCEPT ![p] = "unblocked"]
  /\ UNCHANGED <<worker, signals, stopped, gen, review, effects, budget>>

ResumeWake(p) ==
  /\ phase[p] = "unblocked"
  /\ wake' = TRUE
  /\ phase' = [phase EXCEPT ![p] = "idle"]
  /\ UNCHANGED <<table, worker, tick, full, owed, stopped, gen, review, effects, budget>>

-----------------------------------------------------------------------------
(* Time.                                                                   *)

Tick ==
  /\ wpc \notin {"down", "boot"} /\ ~tick
  /\ tick' = TRUE
  /\ UNCHANGED <<table, worker, wake, full, owed, engines, review, effects, budget>>

\* The backoff, retry-after or start delay of a row runs out.
Elapse(r) ==
  /\ status[r] = "pending" /\ due[r] = "later"
  /\ due' = [due EXCEPT ![r] = "elapsed"]
  /\ UNCHANGED <<status, attempts, stale, worker, signals, engines, review, effects, budget>>

\* Only delivery kinds have a TTL.
Age(r) ==
  /\ KindOf[r] = "delivery" /\ status[r] = "pending" /\ ~stale[r]
  /\ stale' = [stale EXCEPT ![r] = TRUE]
  /\ UNCHANGED <<status, attempts, due, worker, signals, engines, review, effects, budget>>

-----------------------------------------------------------------------------
(* The worker.                                                             *)

\* OutboxManager.start: before_worker runs to its end before the task exists.
Boot ==
  /\ wpc = "down"
  /\ UnblockReviews
  /\ wpc' = "boot"
  /\ UNCHANGED <<batch, snap, cur, obs, result, signals, engines, review, effects, budget>>

\* The first tick of the interval fires at once.
Spawn ==
  /\ wpc = "boot"
  /\ wpc' = "parked"
  /\ tick' = TRUE
  /\ UNCHANGED <<table, batch, snap, cur, obs, result, wake, full, owed,
                 engines, review, effects, budget>>

\* Mutant: the ticker does not wake the worker.
WakeUpOnPermitOnly ==
  /\ wpc = "parked"
  /\ wake /\ wake' = FALSE /\ wpc' = "claim"
  /\ UNCHANGED <<table, batch, snap, cur, obs, result, tick, full, owed,
                 engines, review, effects, budget>>

\* select! over the ticker and the wake permit, whichever is ready.
WakeUp ==
  /\ wpc = "parked"
  /\ \/ tick /\ tick' = FALSE /\ UNCHANGED wake
     \/ wake /\ wake' = FALSE /\ UNCHANGED tick
  /\ wpc' = "claim"
  /\ UNCHANGED <<table, batch, snap, cur, obs, result, full, owed,
                 engines, review, effects, budget>>

\* claim_due: a copy of the oldest page of due rows; corrupt kinds die here.
DueRow == {r \in Row : status[r] = "pending" /\ due[r] # "later"}
Page == {r \in DueRow : Cardinality({q \in DueRow : q < r}) < ClaimLimit}

ClaimDue ==
  /\ wpc = "claim"
  /\ batch' = Page \ Corrupt
  /\ snap' = [r \in Row |-> IF r \in Page
                            THEN [attempts |-> attempts[r], stale |-> stale[r]]
                            ELSE NoCopies[r]]
  /\ status' = [r \in Row |-> IF r \in Page \cap Corrupt THEN "dead" ELSE status[r]]
  /\ full' = (Cardinality(Page) >= ClaimLimit)
  /\ wpc' = "next"
  /\ UNCHANGED <<attempts, due, stale, cur, obs, result, wake, tick, owed,
                 engines, review, effects, budget>>

\* Mutant: the end of a cycle takes the permit of a wake it has not served.
EndCycleDrainingWake ==
  /\ wpc = "next" /\ batch = {}
  /\ wpc' = "parked" /\ wake' = FALSE
  /\ snap' = NoCopies
  /\ UNCHANGED <<table, batch, cur, obs, result, tick, full, owed, engines, review,
                 effects, budget>>

\* The oldest claimed row that is left; none: the cycle is over.
EndCycle ==
  /\ wpc = "next" /\ batch = {}
  /\ wpc' = "parked"
  /\ snap' = NoCopies
  /\ UNCHANGED <<table, batch, cur, obs, result, signals, engines, review, effects, budget>>

Oldest(r) == r \in batch /\ \A q \in batch : r <= q

\* A row past its TTL is dead-lettered instead of executed.
DropExpired(r) ==
  /\ wpc = "next" /\ Oldest(r)
  /\ snap[r].stale
  /\ MarkDead(r, snap[r].attempts)
  /\ batch' = batch \ {r}
  /\ UNCHANGED <<wpc, snap, cur, obs, result, signals, engines, review, effects, budget>>

BeginRow(r) ==
  /\ wpc = "next" /\ Oldest(r)
  /\ ~snap[r].stale
  /\ batch' = batch \ {r}
  /\ cur' = {r}
  /\ wpc' = IF KindOf[r] \in {"autoReview", "explicitReview"} THEN "observe" ELSE "effect"
  /\ UNCHANGED <<table, snap, obs, result, signals, engines, review, effects, budget>>

\* run_review_action reads the generation first ...
Observe ==
  /\ wpc = "observe"
  /\ obs' = gen
  /\ wpc' = "gate"
  /\ UNCHANGED <<table, batch, snap, cur, result, signals, engines, review, effects, budget>>

\* ... then the stop flag: an automatic review of a stopped engine is blocked,
\* an explicit one resumes the engine.
GateBlock(r) ==
  /\ wpc = "gate" /\ r \in cur
  /\ KindOf[r] = "autoReview" /\ stopped[EngineOf[r]]
  /\ result' = "blocked"
  /\ wpc' = "record"
  /\ UNCHANGED <<table, batch, snap, cur, obs, signals, engines, review, effects, budget>>

GateOpen(r) ==
  /\ wpc = "gate" /\ r \in cur
  /\ KindOf[r] = "autoReview" /\ ~stopped[EngineOf[r]]
  /\ wpc' = "effect" /\ obs' = 0
  /\ UNCHANGED <<table, batch, snap, cur, result, signals, engines, review, effects, budget>>

GateResume(r) ==
  /\ wpc = "gate" /\ r \in cur
  /\ KindOf[r] = "explicitReview"
  /\ Clear(Worker, EngineOf[r])
  /\ wpc' = "resuming"
  /\ UNCHANGED <<table, batch, snap, cur, obs, result, signals, review, effects, budget>>

Resumed ==
  /\ wpc = "resuming" /\ phase[Worker] = "idle"
  /\ wpc' = "effect" /\ obs' = 0
  /\ UNCHANGED <<table, batch, snap, cur, result, signals, engines, review, effects, budget>>

\* The awaited executor.  Ok means the effect happened; an error may hide an
\* effect that did (a timed-out POST), or come before the gate (an invalid
\* project); only deliveries are rejected for good.
Succeed(r) ==
  /\ wpc = "effect" /\ r \in cur
  /\ result' = "done"
  /\ effects' = effects \cup {r}
  /\ wpc' = "record"
  /\ UNCHANGED <<table, batch, snap, cur, obs, signals, engines, review, budget>>

Fail(r) ==
  /\ wpc \in {"observe", "effect"} /\ r \in cur
  /\ result' \in {"retry"} \cup (IF KindOf[r] = "delivery" THEN {"dead"} ELSE {})
  /\ effects' \in {effects} \cup (IF wpc = "effect" THEN {effects \cup {r}} ELSE {})
  /\ wpc' = "record"
  /\ UNCHANGED <<table, batch, snap, cur, obs, signals, engines, review, budget>>

\* record_action_result: a pure decision on the copied attempt count, then one
\* write by id.
NextAttempt(r) == snap[r].attempts + 1

\* Mutant: a failed attempt is always retried.
RecordAnyFailureAsRetry(r) ==
  /\ wpc = "record" /\ r \in cur
  /\ \/ result = "done" /\ MarkDone(r, NextAttempt(r))
     \/ result = "blocked" /\ MarkBlocked(r)
     \/ result \in {"retry", "dead"} /\ MarkRetry(r, NextAttempt(r))
  /\ wpc' = IF result = "blocked" THEN "reconcile" ELSE "next"
  /\ cur' = {} /\ result' = "none"
  /\ UNCHANGED <<batch, snap, obs, signals, engines, review, effects, budget>>
Record(r) ==
  /\ wpc = "record" /\ r \in cur
  /\ \/ result = "done" /\ MarkDone(r, NextAttempt(r))
     \/ result = "blocked" /\ MarkBlocked(r)
     \/ /\ result = "retry" /\ NextAttempt(r) < MaxAttempts
        /\ MarkRetry(r, NextAttempt(r))
     \/ /\ result = "dead" \/ (result = "retry" /\ NextAttempt(r) >= MaxAttempts)
        /\ MarkDead(r, NextAttempt(r))
  /\ wpc' = IF result = "blocked" THEN "reconcile" ELSE "next"
  /\ cur' = {} /\ result' = "none"
  /\ UNCHANGED <<batch, snap, obs, signals, engines, review, effects, budget>>

\* reconcile_blocked_resume: a resume that fired since the executor looked may
\* have unblocked before this row was blocked, so unblock again and wake.
Reconcile ==
  /\ wpc = "reconcile"
  /\ \/ obs = gen /\ wpc' = "next" /\ UNCHANGED table
     \/ obs # gen /\ wpc' = "rewake" /\ UnblockReviews
  /\ obs' = 0
  /\ UNCHANGED <<batch, snap, cur, result, signals, engines, review, effects, budget>>

Rewake ==
  /\ wpc = "rewake"
  /\ wake' = TRUE
  /\ wpc' = "next"
  /\ UNCHANGED <<table, batch, snap, cur, obs, result, tick, full, owed,
                 engines, review, effects, budget>>

-----------------------------------------------------------------------------
\* The process dies (or exits: shutdown aborts the task at an await).  The
\* table survives; flags, generation, permits and every task are gone.
Crash ==
  /\ budget.crash > 0 /\ wpc # "down"
  /\ wpc' = "down" /\ batch' = {} /\ cur' = {} /\ obs' = 0 /\ result' = "none"
  /\ wake' = FALSE /\ tick' = FALSE /\ full' = FALSE /\ owed' = {}
  /\ stopped' = [e \in Engine |-> FALSE] /\ gen' = 0
  /\ phase' = [p \in Resumer |-> "idle"]
  /\ budget' = [budget EXCEPT !.crash = @ - 1]
  /\ review' = [review EXCEPT !.thread = IF @ = "live" THEN "lost" ELSE @]
  /\ snap' = NoCopies
  /\ UNCHANGED <<table, effects>>

WorkerStep ==
  \/ Spawn \/ WakeUp \/ ClaimDue \/ EndCycle \/ Observe \/ Resumed
  \/ Reconcile \/ Rewake
  \/ \E r \in Row :
       \/ DropExpired(r) \/ BeginRow(r) \/ GateBlock(r) \/ GateOpen(r)
       \/ GateResume(r) \/ Succeed(r) \/ Fail(r) \/ Record(r)

ResumeStep(p) == Bump(p) \/ Unblock(p) \/ ResumeWake(p)

Next ==
  \/ WorkerStep
  \/ Boot \/ Tick \/ BeginReview \/ EndReview \/ Crash
  \/ \E r \in Row :
       \/ Enqueue(r) \/ ProducerWake(r) \/ AnnounceStarted(r) \/ Requeue(r)
       \/ Elapse(r) \/ Age(r)
  \/ \E e \in Engine : StopEngine(e)
  \/ \E c \in Command, e \in Engine : CommandClear(c, e)
  \/ \E p \in Resumer : ResumeStep(p)

Spec == Init /\ [][Next]_vars

\* The runtime keeps polling the worker (every executor it awaits is bounded by
\* a timeout), the ticker and every resume that has begun, and delays run out.
\* Nothing is assumed of users, producers, crashes or a restart after one.
Fairness ==
  /\ WF_vars(WorkerStep) /\ WF_vars(Tick)
  /\ \A r \in Row : WF_vars(Elapse(r))
  /\ \A p \in Resumer : WF_vars(ResumeStep(p))

FairSpec == Spec /\ Fairness

-----------------------------------------------------------------------------
\* A blocked row is a queued one that waits for its engine.
Progress == [r \in Row |-> IF status[r] \in {"pending", "blocked"} THEN "queued" ELSE status[r]]

Durable == INSTANCE DurableAction WITH
  Action <- Row, state <- Progress, happened <- effects

-----------------------------------------------------------------------------
(* Properties.                                                             *)

\* The outbox implements DurableAction: whatever the worker's stale copies, the
\* producers, commands, resumes and crashes do in between, an action that was produced
\* is queued, given up or done, and is done only after it happened and then for good
\* (run_due_once: "no false done"; enqueue: INSERT OR IGNORE on a permanent key).
ImplementsDurableAction == Durable!Spec

\* A queued row always has an attempt left: no interleaving of stale copies,
\* cancels and manual retries leaves a pending or blocked row whose budget is
\* used up (decide_outcome, mark_retry, reset_for_retry).
RetryLeft ==
  \A r \in Row : status[r] \in {"pending", "blocked"} => attempts[r] < MaxAttempts

\* A row is done only if its side effect happened at least once, across crashes
\* and replays ("no false done", run_due_once).
NoFalseDone == \A r \in Row : status[r] = "done" => r \in effects

\* No review stays blocked after its engine was resumed: either the engine is
\* still stopped, or a resume is on its way to the unblock, or the worker is
\* about to notice the generation it missed, or the next start unblocks.
NoStrandedBlock ==
  \A r \in Row : status[r] = "blocked" =>
    \/ stopped[EngineOf[r]]
    \/ \E p \in Resumer : phase[p] \in {"cleared", "bumped"}
    \/ wpc = "reconcile" /\ obs # gen
    \/ wpc = "down"

\* A row that is due at once is never left to the 30 s ticker while the worker
\* is parked: its wake is stored, or the thread that queued it is about to wake,
\* or the last page was full (OutboxManager.wake, CLAIM_LIMIT).
PromptWake ==
  \A r \in Row :
    wpc = "parked" /\ status[r] = "pending" /\ due[r] = "now" =>
      \/ wake \/ tick \/ full
      \/ owed # {}
      \/ \E p \in Resumer : phase[p] = "unblocked"

\* A done row stays done and is never executed again: not by a second
\* production of the same action, a manual retry, a resume or a restart.
DoneIsFinal ==
  [][\A r \in Row : status[r] = "done" => status'[r] = "done" /\ r \notin cur' \ cur]_vars

\* Once a review thread has ended, a Started notice not yet delivered is not
\* delivered any more (cancel_pending_started).
NoStartedAfterEnd ==
  [][\A r \in Started : review.ended /\ r \notin effects => r \notin effects']_vars

\* As long as the process runs, every queued row is settled: executed to done,
\* dead-lettered or blocked behind a stopped engine; and a blocked review whose engine
\* runs again is queued again.
EverySettled ==
  \A r \in Row :
    /\ status[r] = "pending" ~> status[r] # "pending" \/ wpc = "down"
    /\ status[r] = "blocked" /\ ~stopped[EngineOf[r]] ~> status[r] # "blocked" \/ wpc = "down"
=============================================================================
