------------------------------- MODULE Cursor -------------------------------
(***************************************************************************)
(* The Cursor engine: CursorManager's one resident ACP process, spawned    *)
(* for a model and replaced when a review wants another, and the sessions  *)
(* that live in it.  A process knows only the sessions made in it, so each *)
(* is bound to its process's generation and a follow-up is refused when    *)
(* the resident process is another by then.                                *)
(*                                                                         *)
(* The manager's cell is one mutex; the lock of the slow path is held over *)
(* the handshake; stopped and generation are atomics.                      *)
(***************************************************************************)
EXTENDS Naturals, FiniteSets

CONSTANTS
  Acp,        \* ACP sessions: one review each, and its follow-ups
  ModelOf,    \* the model each session's project wants
  NoAcp,      \* nobody is in the slow path
  MaxProcess, \* processes ever spawned
  MaxAcpEvent \* stops, deaths of the process, resumes and follow-ups

ASSUME AcpAssumption == NoAcp \notin Acp /\ DOMAIN ModelOf = Acp
ASSUME AcpBounds == MaxProcess \in Nat /\ MaxAcpEvent \in Nat

VARIABLES
  acpStopped, \* CursorManager.stopped
  acpCell,    \* CursorManager.inner: the process, or 0
  acpGen,     \* CursorManager.generation
  acpLock,    \* start_lock
  process,    \* each process: its life, model, and the generation it was installed as
  acpAt,      \* where the command that works on each session is
  acpBusy,    \* whether it saw a Cursor review in flight when it looked
  client,     \* the process whose client the command holds
  bound,      \* cursor_generations, 0 if none; before the commit, what the command has
  acp,        \* the session: registry status, turns, the process it was made in, the
              \* clients that stops are sending a cancel over, watchdog
  acpPump,    \* the pumps of each session: [turn, of: its process, prompt]
  acpEvents   \* events left

managerVars == <<acpStopped, acpCell, acpGen, acpLock, process>>
commandVars == <<acpAt, acpBusy, client, bound>>
acpVars == <<commandVars, acp, acpPump>>
cursorVars == <<managerVars, acpVars, acpEvents>>

Process == 1..MaxProcess
Model == {ModelOf[s] : s \in Acp}
NewAcp == [status |-> "none", turns |-> 0, home |-> 0, stops |-> {}, watchdog |-> FALSE]

CursorInit ==
  /\ acpStopped = FALSE /\ acpCell = 0 /\ acpGen = 0 /\ acpLock = NoAcp
  /\ process = [p \in Process |-> [life |-> "none", model |-> "none", gen |-> 0]]
  /\ acpAt = [s \in Acp |-> "idle"] /\ acpBusy = [s \in Acp |-> FALSE]
  /\ client = [s \in Acp |-> 0] /\ bound = [s \in Acp |-> 0]
  /\ acp = [s \in Acp |-> NewAcp] /\ acpPump = [s \in Acp |-> {}] /\ acpEvents = MaxAcpEvent

AcpEvent == acpEvents > 0 /\ acpEvents' = acpEvents - 1
AcpStep(s, from, to) == acpAt[s] = from /\ acpAt' = [acpAt EXCEPT ![s] = to]
AcpInFlight == {"running", "interrupting"}
AcpConnected == acpCell # 0 /\ process[acpCell].life = "live"
KillAcp(p) == process' = [process EXCEPT ![p].life = "dead"]

-----------------------------------------------------------------------------
(* start_review                                                            *)

\* has_in_flight_cursor, and an early refusal of another model.
LookBusy(s) ==
  LET busy == \E u \in Acp : acp[u].status \in AcpInFlight IN
  /\ AcpStep(s, "idle", "wait") /\ acp[s].status = "none" /\ ~acpStopped
  /\ ~(busy /\ AcpConnected /\ process[acpCell].model # ModelOf[s])
  /\ acpBusy' = [acpBusy EXCEPT ![s] = busy]
  /\ UNCHANGED <<managerVars, client, bound, acp, acpPump, acpEvents>>

LockStart(s) ==
  /\ AcpStep(s, "wait", "ensure") /\ acpLock = NoAcp /\ acpLock' = s
  /\ UNCHANGED <<acpStopped, acpCell, acpGen, process, acpBusy, client, bound, acp, acpPump, acpEvents>>

\* ensure_started_inner: a live process of this model will do.
ReuseProcess(s) ==
  /\ AcpConnected /\ process[acpCell].model = ModelOf[s]
  /\ AcpStep(s, "ensure", "take")
  /\ UNCHANGED <<managerVars, acpBusy, client, bound, acp, acpPump, acpEvents>>

RefuseModel(s) ==
  /\ AcpConnected /\ process[acpCell].model # ModelOf[s] /\ acpBusy[s]
  /\ AcpStep(s, "ensure", "over") /\ acpLock' = NoAcp
  /\ UNCHANGED <<acpStopped, acpCell, acpGen, process, acpBusy, client, bound, acp, acpPump, acpEvents>>

\* A live process of another model is shut down first; a dead one stays in the cell.
SpawnProcess(s) ==
  /\ AcpConnected => process[acpCell].model # ModelOf[s] /\ ~acpBusy[s]
  /\ AcpStep(s, "ensure", "handshake")
  /\ \E p \in Process :
       /\ process[p].life = "none" /\ \A q \in 1..p - 1 : process[q].life # "none"
       /\ client' = [client EXCEPT ![s] = p]
       /\ process' = [q \in Process |->
            IF q = p THEN [life |-> "live", model |-> ModelOf[s], gen |-> 0]
            ELSE IF q = acpCell THEN [process[q] EXCEPT !.life = "dead"] ELSE process[q]]
  /\ acpCell' = IF AcpConnected THEN 0 ELSE acpCell
  /\ UNCHANGED <<acpStopped, acpGen, acpLock, acpBusy, bound, acp, acpPump, acpEvents>>

\* The handshake fails or times out.
HandshakeFails(s) ==
  /\ AcpStep(s, "handshake", "over") /\ AcpEvent
  /\ KillAcp(client[s]) /\ acpLock' = NoAcp
  /\ UNCHANGED <<acpStopped, acpCell, acpGen, acpBusy, client, bound, acp, acpPump>>

\* Installed, unless it was stopped meanwhile, under the cell's mutex.
InstallProcess(s) ==
  /\ acpAt[s] = "handshake"
  /\ IF acpStopped
     THEN /\ AcpStep(s, "handshake", "over") /\ KillAcp(client[s]) /\ acpLock' = NoAcp
          /\ UNCHANGED <<acpCell, acpGen>>
     ELSE /\ AcpStep(s, "handshake", "take")
          /\ acpCell' = client[s] /\ acpGen' = acpGen + 1
          /\ process' = [process EXCEPT ![client[s]].gen = acpGen + 1]
          /\ UNCHANGED acpLock
  /\ UNCHANGED <<acpStopped, acpBusy, client, bound, acp, acpPump, acpEvents>>

\* connection: client and generation are read before the lock is released; the
\* manager may have been stopped since.
TakeClient(s) ==
  /\ acpAt[s] = "take" /\ acpLock' = NoAcp
  /\ IF AcpConnected
     THEN /\ AcpStep(s, "take", "new")
          /\ client' = [client EXCEPT ![s] = acpCell]
          /\ bound' = [bound EXCEPT ![s] = acpGen]
     ELSE AcpStep(s, "take", "over") /\ UNCHANGED <<client, bound>>
  /\ UNCHANGED <<acpStopped, acpCell, acpGen, process, acpBusy, acp, acpPump, acpEvents>>

StartPump(s, k) ==
  acpPump' = [acpPump EXCEPT ![s] = @ \cup {[turn |-> k, of |-> client'[s], prompt |-> "new"]}]

\* session/new over that client; the manager may have another process before the
\* answer is committed.
NewAcpSession(s) ==
  /\ AcpStep(s, "new", "commit") /\ process[client[s]].life = "live"
  /\ UNCHANGED <<managerVars, acpBusy, client, bound, acp, acpPump, acpEvents>>

\* Mutant: the generation is read again when it is bound.
BindLate(s) ==
  /\ AcpStep(s, "commit", "over")
  /\ acp' = [acp EXCEPT ![s].status = "running", ![s].turns = 1, ![s].home = client[s]]
  /\ bound' = [bound EXCEPT ![s] = acpGen]
  /\ UNCHANGED <<managerVars, acpBusy, client, acpEvents>> /\ StartPump(s, 1)

\* commit_starting_session, set_running, bind_cursor_generation, and the pump.
CommitAcp(s) ==
  /\ AcpStep(s, "commit", "over")
  /\ acp' = [acp EXCEPT ![s].status = "running", ![s].turns = 1, ![s].home = client[s]]
  /\ UNCHANGED <<managerVars, acpBusy, client, bound, acpEvents>> /\ StartPump(s, 1)

\* session/new or the commit fails.
NewAcpFails(s) ==
  /\ acpAt[s] \in {"new", "commit"} /\ acpAt' = [acpAt EXCEPT ![s] = "over"]
  /\ \/ process[client[s]].life = "dead" /\ UNCHANGED acpEvents
     \/ AcpEvent
  /\ bound' = [bound EXCEPT ![s] = 0]
  /\ UNCHANGED <<managerVars, acpBusy, client, acp, acpPump>>

-----------------------------------------------------------------------------
(* resume_review: begin_resume, then generation, model and client are read *)
(* one after the other.                                                    *)

FollowAcp(s) ==
  /\ AcpEvent /\ acpAt[s] = "over" /\ acp[s].status \in {"done", "failed"}
  /\ acpAt' = [acpAt EXCEPT ![s] = "generation"]
  /\ acp' = [acp EXCEPT ![s].status = "running", ![s].turns = @ + 1]
  /\ UNCHANGED <<managerVars, acpBusy, client, bound, acpPump>>

\* resume_fail_closed also takes the bound generation.
FailClosed(s) ==
  /\ acpAt' = [acpAt EXCEPT ![s] = "over"]
  /\ acp' = [acp EXCEPT ![s].status = "failed"]
  /\ bound' = [bound EXCEPT ![s] = 0]
  /\ UNCHANGED <<managerVars, acpBusy, client, acpPump, acpEvents>>

GenerationGate(s) ==
  /\ acpAt[s] = "generation"
  /\ IF AcpConnected /\ bound[s] = acpGen
     THEN /\ AcpStep(s, "generation", "client")
          /\ UNCHANGED <<managerVars, acpBusy, client, bound, acp, acpPump, acpEvents>>
     ELSE FailClosed(s)

\* The model gate and existing_client.
ClientGate(s) ==
  /\ acpAt[s] = "client"
  /\ IF AcpConnected /\ process[acpCell].model = ModelOf[s]
     THEN /\ AcpStep(s, "client", "over")
          /\ client' = [client EXCEPT ![s] = acpCell] /\ StartPump(s, acp[s].turns)
          /\ UNCHANGED <<managerVars, acpBusy, bound, acp, acpEvents>>
     ELSE FailClosed(s)

-----------------------------------------------------------------------------
(* The pump: session/prompt raced against the end of the connection.  One  *)
(* whose turn the watchdog has ended waits on for its prompt.              *)

Prompted(s, m) ==
  /\ m.prompt = "new" /\ process[m.of].life = "live"
  /\ acpPump' = [acpPump EXCEPT ![s] = (@ \ {m}) \cup {[m EXCEPT !.prompt = "running"]}]
  /\ UNCHANGED <<managerVars, commandVars, acp, acpEvents>>

\* finalize_turn: it knows the session, not the turn, and only the first of those who
\* end a session in flight does.
EndAcp(s, status) ==
  acp' = [acp EXCEPT ![s].status = IF @ \in AcpInFlight THEN status ELSE @]

PromptReturns(s, m) ==
  /\ m.prompt \in {"running", "cancelled"} /\ process[m.of].life = "live"
  /\ acpPump' = [acpPump EXCEPT ![s] = @ \ {m}]
  /\ \E status \in IF m.prompt = "cancelled" THEN {"done"} ELSE {"done", "failed"} :
       EndAcp(s, status)
  /\ UNCHANGED <<managerVars, commandVars, acpEvents>>

\* ConnectionClosed, or a request that the dead connection refuses.
PumpSeesDeath(s, m) ==
  /\ process[m.of].life = "dead"
  /\ acpPump' = [acpPump EXCEPT ![s] = @ \ {m}] /\ EndAcp(s, "failed")
  /\ UNCHANGED <<managerVars, commandVars, acpEvents>>

-----------------------------------------------------------------------------
(* stop_cursor_review                                                      *)

\* session/cancel goes to whatever process is resident, which may not know of it.
CancelIn(s, p) ==
  acpPump' = [acpPump EXCEPT ![s] =
    {IF m.of = p /\ m.prompt = "running" THEN [m EXCEPT !.prompt = "cancelled"] ELSE m
       : m \in acpPump[s]}]

\* begin_interrupt and existing_client; without a live client the session ends here.
InterruptAcp(s) ==
  /\ AcpEvent /\ acp[s].status = "running"
  /\ IF ~AcpConnected THEN EndAcp(s, "done")
     ELSE acp' = [acp EXCEPT ![s].status = "interrupting", ![s].stops = @ \cup {acpCell}]
  /\ UNCHANGED <<managerVars, commandVars, acpPump>>

\* Mutant: nobody watches whether the cancel has an effect.
CancelUnwatched(s, p) ==
  /\ p \in acp[s].stops /\ process[p].life = "live"
  /\ acp' = [acp EXCEPT ![s].stops = @ \ {p}]
  /\ CancelIn(s, p)
  /\ UNCHANGED <<managerVars, commandVars, acpEvents>>

\* The cancel is written, and the watchdog armed, whatever became of the turn meanwhile.
CancelSent(s, p) ==
  /\ p \in acp[s].stops /\ process[p].life = "live"
  /\ acp' = [acp EXCEPT ![s].stops = @ \ {p}, ![s].watchdog = TRUE]
  /\ CancelIn(s, p)
  /\ UNCHANGED <<managerVars, commandVars, acpEvents>>

\* rollback_interrupt: it cannot be written; a session that has ended stays ended.
CancelFails(s, p) ==
  /\ p \in acp[s].stops
  /\ \/ process[p].life = "dead" /\ UNCHANGED acpEvents
     \/ AcpEvent
  /\ acp' = [acp EXCEPT ![s].stops = @ \ {p},
                         ![s].status = IF @ = "interrupting" THEN "running" ELSE @]
  /\ UNCHANGED <<managerVars, commandVars, acpPump>>

\* CURSOR_CANCEL_TIMEOUT: whatever turn is in flight by then.
Watchdog(s) ==
  /\ acp[s].watchdog
  /\ acp' = [acp EXCEPT ![s].watchdog = FALSE,
                         ![s].status = IF @ \in AcpInFlight THEN "done" ELSE @]
  /\ UNCHANGED <<managerVars, commandVars, acpPump, acpEvents>>

-----------------------------------------------------------------------------
(* CursorManager::stop and resume, and the process itself.                 *)

StopManager ==
  /\ AcpEvent /\ acpStopped' = TRUE /\ acpCell' = 0
  /\ process' = [p \in Process |-> IF p = acpCell THEN [process[p] EXCEPT !.life = "dead"]
                                   ELSE process[p]]
  /\ UNCHANGED <<acpGen, acpLock, acpVars>>

ResumeManager ==
  /\ acpStopped /\ acpStopped' = FALSE
  /\ UNCHANGED <<acpCell, acpGen, acpLock, process, acpVars, acpEvents>>

ProcessDies ==
  /\ AcpEvent /\ AcpConnected /\ KillAcp(acpCell)
  /\ UNCHANGED <<acpStopped, acpCell, acpGen, acpLock, acpVars>>

CursorNext ==
  \/ \E s \in Acp :
       \/ LookBusy(s) \/ LockStart(s) \/ ReuseProcess(s) \/ RefuseModel(s) \/ SpawnProcess(s)
       \/ HandshakeFails(s) \/ InstallProcess(s) \/ TakeClient(s) \/ NewAcpSession(s)
       \/ CommitAcp(s) \/ NewAcpFails(s) \/ FollowAcp(s) \/ GenerationGate(s) \/ ClientGate(s)
       \/ InterruptAcp(s) \/ Watchdog(s)
       \/ \E p \in acp[s].stops : CancelSent(s, p) \/ CancelFails(s, p)
       \/ \E m \in acpPump[s] : Prompted(s, m) \/ PromptReturns(s, m) \/ PumpSeesDeath(s, m)
  \/ StopManager \/ ResumeManager \/ ProcessDies

CursorSpec == CursorInit /\ [][CursorNext]_cursorVars

\* The timer of a watchdog runs out, and the write of a cancel ends: the line is short and
\* the pipe buffers it, though write_line has no timeout of its own.
CursorFair ==
  \A s \in Acp :
    /\ WF_cursorVars(Watchdog(s))
    /\ WF_cursorVars(\E p \in acp[s].stops : CancelSent(s, p) \/ CancelFails(s, p))

-----------------------------------------------------------------------------
AcpProcess == [life : {"none", "live", "dead"}, model : Model \cup {"none"}, gen : 0..MaxProcess]
AcpSession == [status : {"none", "done", "failed"} \cup AcpInFlight, turns : Nat,
               home : 0..MaxProcess, stops : SUBSET (0..MaxProcess), watchdog : BOOLEAN]
AcpPrompt  == [turn : Nat, of : 0..MaxProcess, prompt : {"new", "running", "cancelled"}]

CellType ==
  /\ acpStopped \in BOOLEAN /\ acpCell \in 0..MaxProcess /\ acpGen \in 0..MaxProcess
  /\ acpLock \in Acp \cup {NoAcp} /\ acpEvents \in Nat
CommandsType ==
  /\ acpAt \in [Acp -> {"idle", "wait", "ensure", "handshake", "take", "new", "commit", "generation",
                        "client", "over"}]
  /\ acpBusy \in [Acp -> BOOLEAN]
  /\ client \in [Acp -> 0..MaxProcess] /\ bound \in [Acp -> 0..MaxProcess]
CursorTypeOK ==
  /\ CellType /\ CommandsType /\ process \in [Process -> AcpProcess]
  /\ acp \in [Acp -> AcpSession] /\ acpPump \in [Acp -> SUBSET AcpPrompt]

\* A session is bound to the generation of the very process it was made in, whatever
\* other starts, stops and deaths go on around its start, so that the gate of a
\* follow-up may trust the number (connection holds start_lock over both reads).
BoundToItsProcess ==
  \A s \in Acp : acp[s].status # "none" /\ bound[s] # 0
                   => bound[s] = process[acp[s].home].gen

\* No session is still being interrupted.
NoneInterrupting == \A s \in Acp : acp[s].status # "interrupting"
=============================================================================
