--------------------------- MODULE LongConnection ---------------------------
(***************************************************************************)
(* The long connection of one messaging integration (Feishu, DingTalk): a  *)
(* manager that reconciles the wanted configuration with one supervisor    *)
(* task, each of a generation of its own, that connects, receives and      *)
(* reports its status.  Three mutexes: tasks (held through a reconcile),   *)
(* statuses, generations.                                                  *)
(***************************************************************************)
EXTENDS Naturals, FiniteSets

CONSTANTS
  Config,        \* enabled configurations of the integration
  Off,           \* it is disabled
  MaxGeneration, \* generations ever
  MaxSave        \* saves of a configuration

ASSUME ConfigAssumption == Off \notin Config /\ MaxGeneration \in Nat /\ MaxSave \in Nat

VARIABLES
  saved,      \* the configuration in the table, which every delivery reads again
  reconciler, \* at: where reconcile is; seen: its configuration; joins: whom it waits for
  task,       \* tasks: the generation of the task and its fingerprint
  generation, \* generations
  statusLock, \* statuses: who holds it
  status,     \* the status shown
  supervisor, \* each supervisor: where it is, its configuration, the status it is to write
  stopping,   \* supervisors cancelled and aborted
  saves       \* saves left

managerOwn == <<saved, reconciler, task, generation, saves>>
connectionVars == <<managerOwn, statusLock, status, supervisor, stopping>>

Generation == 1..MaxGeneration
Status == {"none", "disabled", "connecting", "connected", "error", "reconnecting"}
NoTask == [generation |-> 0, config |-> Off]
RECONCILER == MaxGeneration + 1
FREE == 0

ConnectionInit ==
  /\ saved = Off /\ reconciler = [at |-> "idle", seen |-> Off, joins |-> {}]
  /\ task = NoTask /\ generation = 0 /\ statusLock = FREE /\ status = "none"
  /\ supervisor = [g \in Generation |-> [at |-> "none", config |-> Off, next |-> "none"]]
  /\ stopping = {} /\ saves = MaxSave

-----------------------------------------------------------------------------
(* reconcile                                                               *)

\* set_config saves and then fires config_saved; the tasks mutex is taken.
SaveConfig(c) ==
  /\ saves > 0 /\ saves' = saves - 1 /\ reconciler.at = "idle" /\ c # saved
  /\ saved' = c /\ reconciler' = [at |-> "tasks", seen |-> c, joins |-> {}]
  /\ UNCHANGED <<task, generation, statusLock, status, supervisor, stopping>>

\* A task of another configuration: next_generation, then cancel and abort.
Retire ==
  /\ reconciler.at = "tasks"
  /\ IF task # NoTask /\ task.config # reconciler.seen
     THEN /\ generation < MaxGeneration /\ generation' = generation + 1
          /\ stopping' = stopping \cup {task.generation} /\ task' = NoTask
          /\ reconciler' = [reconciler EXCEPT !.at = "statuses", !.joins = {task.generation}]
     ELSE reconciler' = [reconciler EXCEPT !.at = "statuses"]
          /\ UNCHANGED <<generation, stopping, task>>
  /\ UNCHANGED <<saved, statusLock, status, supervisor, saves>>

LockStatuses ==
  /\ reconciler.at = "statuses" /\ statusLock = FREE
  /\ statusLock' = RECONCILER
  /\ status' = IF reconciler.seen = Off THEN "disabled" ELSE status
  /\ reconciler' = [reconciler EXCEPT !.at = "join"]
  /\ UNCHANGED <<saved, task, generation, supervisor, stopping, saves>>

\* Mutant: the aborted tasks are not waited for.
JoinNobody ==
  /\ reconciler.at = "join" /\ reconciler' = [reconciler EXCEPT !.at = "spawn"]
  /\ UNCHANGED <<saved, task, generation, statusLock, status, supervisor, stopping, saves>>

\* abort_join_wait, while the statuses mutex is held.
JoinAborted ==
  /\ reconciler.at = "join" /\ \A g \in reconciler.joins : supervisor[g].at = "over"
  /\ reconciler' = [reconciler EXCEPT !.at = "spawn"]
  /\ UNCHANGED <<saved, task, generation, statusLock, status, supervisor, stopping, saves>>

Done(r) == r' = [at |-> "idle", seen |-> Off, joins |-> {}]

SpawnSupervisor ==
  /\ reconciler.at = "spawn" /\ Done(reconciler) /\ statusLock' = FREE
  /\ IF reconciler.seen # Off /\ task = NoTask
     THEN /\ generation < MaxGeneration /\ generation' = generation + 1
          /\ task' = [generation |-> generation', config |-> reconciler.seen]
          /\ status' = "connecting"
          /\ supervisor' = [supervisor EXCEPT ![generation'] =
               [at |-> "loop", config |-> reconciler.seen, next |-> "none"]]
     ELSE UNCHANGED <<generation, task, status, supervisor>>
  /\ UNCHANGED <<saved, stopping, saves>>

-----------------------------------------------------------------------------
(* run_supervisor of generation g.                                         *)

Moves(g, to) == supervisor' = [supervisor EXCEPT ![g].at = to]

\* update_current: the generation is read under its mutex, which is let go before the
\* statuses mutex is taken.  An obsolete supervisor goes on without a word.
Reports(g, s, then) ==
  supervisor' = [supervisor EXCEPT ![g] =
    [@ EXCEPT !.at = IF generation = g THEN "report" ELSE then, !.next = s]]

AfterReport == [connecting |-> "connect", connected |-> "live", error |-> "broken",
                reconnecting |-> "sleep"]

WriteStatus(g) ==
  /\ supervisor[g].at = "report" /\ statusLock = FREE
  /\ status' = supervisor[g].next
  /\ Moves(g, AfterReport[supervisor[g].next])
  /\ UNCHANGED <<managerOwn, statusLock, stopping>>

Loop(g) ==
  /\ supervisor[g].at = "loop" /\ g \notin stopping
  /\ Reports(g, "connecting", "connect")
  /\ UNCHANGED <<managerOwn, statusLock, status, stopping>>

\* bootstrap and handshake, each with a timeout and given up on a cancel.
Connect(g) ==
  /\ supervisor[g].at = "connect" /\ g \notin stopping
  /\ \/ Reports(g, "connected", "live")
     \/ Reports(g, "error", "broken")
  /\ UNCHANGED <<managerOwn, statusLock, status, stopping>>

Disconnects(g) ==
  /\ supervisor[g].at = "live"
  /\ Reports(g, "error", "broken")
  /\ UNCHANGED <<managerOwn, statusLock, status, stopping>>

Broken(g) ==
  /\ supervisor[g].at = "broken" /\ g \notin stopping
  /\ Reports(g, "reconnecting", "sleep")
  /\ UNCHANGED <<managerOwn, statusLock, status, stopping>>

Wakes(g) ==
  /\ supervisor[g].at = "sleep" /\ g \notin stopping /\ Moves(g, "loop")
  /\ UNCHANGED <<managerOwn, statusLock, status, stopping>>

\* The abort takes effect where the task awaits, the cancel between two steps; a task
\* that waits for a mutex does neither.
Aborted(g) ==
  /\ g \in stopping /\ supervisor[g].at \in {"loop", "connect", "live", "broken", "sleep"}
  /\ Moves(g, "over")
  /\ UNCHANGED <<managerOwn, statusLock, status, stopping>>

SupervisorStep(g) == WriteStatus(g) \/ Aborted(g)

ConnectionNext ==
  \/ \E c \in Config \cup {Off} : SaveConfig(c)
  \/ Retire \/ LockStatuses \/ JoinAborted \/ SpawnSupervisor
  \/ \E g \in Generation :
       \/ SupervisorStep(g) \/ Loop(g) \/ Connect(g) \/ Disconnects(g) \/ Broken(g) \/ Wakes(g)

\* The reconciler's thread and the supervisors' run; an abort is delivered.
ConnectionFair ==
  /\ WF_connectionVars(Retire \/ LockStatuses \/ JoinAborted \/ SpawnSupervisor)
  /\ \A g \in Generation : WF_connectionVars(SupervisorStep(g))

ConnectionSpec == ConnectionInit /\ [][ConnectionNext]_connectionVars /\ ConnectionFair

-----------------------------------------------------------------------------
ConnectionTypeOK ==
  /\ saved \in Config \cup {Off} /\ generation \in 0..MaxGeneration
  /\ reconciler \in [at : {"idle", "tasks", "statuses", "join", "spawn"},
                     seen : Config \cup {Off}, joins : SUBSET Generation]
  /\ task \in [generation : 0..MaxGeneration, config : Config \cup {Off}]
  /\ statusLock \in {FREE, RECONCILER} /\ status \in Status
  /\ supervisor \in [Generation ->
       [at : {"none", "loop", "report", "connect", "live", "broken", "sleep", "over"},
        config : Config \cup {Off}, next : Status]]
  /\ stopping \subseteq Generation

\* The integration is never connected twice, not even with its old and new
\* configuration while one replaces the other (reconcile: "the same app_id cannot
\* dual-connect").
OneConnection == Cardinality({g \in Generation : supervisor[g].at = "live"}) <= 1

\* A reconcile returns, so that the configuration can be saved again: whom it waits
\* for does not wait for it (abort_join_wait: "Callers must not hold locks that async
\* supervisors need to finish teardown").
ReconcileReturns == (reconciler.at # "idle") ~> (reconciler.at = "idle")
=============================================================================
