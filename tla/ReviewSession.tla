--------------------------- MODULE ReviewSession ---------------------------
(***************************************************************************)
(* The session registry of the review slice and everyone who works on it:  *)
(* the commands that start a review, continue it with a follow-up or stop  *)
(* it, the pump task of each turn, and the terminal funnel finalize_turn.  *)
(*                                                                         *)
(* A review is a thread of the resident Codex app-server; its first turn   *)
(* is the review, every later one a follow-up.  The registry is one mutex; *)
(* each method is one step, and between any two of them other tasks run.   *)
(* The durable review_session row is written beside it, never under the    *)
(* same lock.                                                              *)
(***************************************************************************)
EXTENDS Naturals, FiniteSets

CONSTANTS
  Thread,    \* one per started review; the app-server names it uniquely
  NoThread,  \* no thread
  Pair,      \* the (project, pull request, skill) triples reviews are started for
  PairOf,    \* the pair of each thread
  Sender,    \* concurrent send_review_message commands
  Stopper,   \* stop-review actions; each runs until it is accepted
  MaxTurn,   \* bound on the turns of one thread
  MaxDeath,  \* bound on the deaths of the app-server
  MaxCrash   \* bound on the restarts of the program

ASSUME ThreadAssumption == NoThread \notin Thread
ASSUME PairAssumption == PairOf \in [Thread -> Pair]
ASSUME TurnAssumption == MaxTurn \in Nat \ {0}
ASSUME BoundAssumption == MaxDeath \in Nat /\ MaxCrash \in Nat

VARIABLES
  reserved,   \* RegistryState.reserved
  mem,        \* RegistryState.sessions: status and turn id of each thread
  row,        \* the status column of the thread's review_session row
  turns,      \* how many turns of the thread have been admitted
  drive,      \* where the command driving each turn is
  pump,       \* where the pump task of each turn is
  heard,      \* the first terminal notice in the turn's broadcast receiver
  codex,      \* the turn as the app-server sees it
  alive,      \* the app-server runs
  send,       \* the send_review_message commands
  stop,       \* the stop-review actions
  budget      \* deaths and restarts left

registry == <<reserved, mem>>
tasks    == <<drive, pump, heard>>
engine   == <<codex, alive>>
vars     == <<registry, row, turns, tasks, engine, send, stop, budget>>

Turn     == 1..MaxTurn
InFlight == {"starting", "running", "interrupting"}
Terminal == {"done", "failed"}
Status   == {"none"} \cup InFlight \cup Terminal
Absent   == [status |-> "none", turn |-> 0]

Session  == [status : Status, turn : 0..MaxTurn]
Follower == [pc : {"idle", "rehydrate", "admit"}, thread : Thread \cup {NoThread},
             copy : Status]
Stopping == [pc : {"idle", "found", "interrupt", "ok"}, thread : Thread \cup {NoThread},
             turn : 0..MaxTurn, id : 0..MaxTurn]

RegistryType ==
  /\ reserved \subseteq Pair
  /\ mem \in [Thread -> Session]
  /\ row \in [Thread -> Status]
  /\ turns \in [Thread -> 0..MaxTurn]

TaskType ==
  /\ drive \in [Thread -> [Turn ->
       {"none", "reserved", "connect", "turn", "accepted", "persist", "failing", "over"}]]
  /\ pump \in [Thread -> [Turn ->
       {"none", "listening", "resolving", "writing", "announcing", "ended"}]]
  /\ heard \in [Thread -> [Turn -> {"none"} \cup Terminal]]

EngineType ==
  /\ codex \in [Thread -> [Turn -> {"none", "running", "over"}]]
  /\ alive \in BOOLEAN
  /\ budget \in [death : Nat, crash : Nat]

CommandType == send \in [Sender -> Follower] /\ stop \in [Stopper -> Stopping]

TypeOK == RegistryType /\ TaskType /\ EngineType /\ CommandType

NewSend == [pc |-> "idle", thread |-> NoThread, copy |-> "none"]
NewStop == [pc |-> "idle", thread |-> NoThread, turn |-> 0, id |-> 0]
EveryTurn(v) == [t \in Thread |-> [k \in Turn |-> v]]

Init ==
  /\ reserved = {} /\ mem = [t \in Thread |-> Absent]
  /\ row = [t \in Thread |-> "none"] /\ turns = [t \in Thread |-> 0]
  /\ drive = EveryTurn("none") /\ pump = EveryTurn("none") /\ heard = EveryTurn("none")
  /\ codex = EveryTurn("none") /\ alive = FALSE
  /\ send = [s \in Sender |-> NewSend] /\ stop = [c \in Stopper |-> NewStop]
  /\ budget = [death |-> MaxDeath, crash |-> MaxCrash]

SetStatus(t, s) == mem' = [mem EXCEPT ![t].status = s]
Drive(t, k, from, to) == drive[t][k] = from /\ drive' = [drive EXCEPT ![t][k] = to]

-----------------------------------------------------------------------------
(* Starting a review: try_reserve_pair, then thread/start, then promotion.  *)

Covered(p) ==
  p \in reserved \/ \E t \in Thread : PairOf[t] = p /\ mem[t].status \in InFlight

\* Mutant: a session in flight is not looked at.
ReserveUnlessReserved(t) ==
  /\ turns[t] = 0 /\ Drive(t, 1, "none", "reserved")
  /\ PairOf[t] \notin reserved
  /\ reserved' = reserved \cup {PairOf[t]}
  /\ UNCHANGED <<mem, row, turns, pump, heard, engine, send, stop, budget>>
Reserve(t) ==
  /\ turns[t] = 0 /\ Drive(t, 1, "none", "reserved")
  /\ ~Covered(PairOf[t])
  /\ reserved' = reserved \cup {PairOf[t]}
  /\ UNCHANGED <<mem, row, turns, pump, heard, engine, send, stop, budget>>

\* StartReviewOutcome::Deduped.
Dedupe(t) ==
  /\ turns[t] = 0 /\ Drive(t, 1, "none", "over")
  /\ Covered(PairOf[t])
  /\ UNCHANGED <<registry, row, turns, pump, heard, engine, send, stop, budget>>

\* Mutant: the guard does not release the pair.
LeakReservation(t) ==
  /\ Drive(t, 1, "reserved", "over")
  /\ UNCHANGED <<registry, row, turns, pump, heard, engine, send, stop, budget>>

\* connection, thread/start or the durable claim fails: ReservationGuard::drop.
AbandonStart(t) ==
  /\ Drive(t, 1, "reserved", "over")
  /\ reserved' = reserved \ {PairOf[t]}
  /\ UNCHANGED <<mem, row, turns, pump, heard, engine, send, stop, budget>>

\* The connection is live, the receiver subscribed, the thread named; the row
\* is committed before promote_reservation swaps reservation for session.
Promote(t) ==
  /\ Drive(t, 1, "reserved", "turn")
  /\ alive' = TRUE
  /\ row' = [row EXCEPT ![t] = "starting"]
  /\ mem' = [mem EXCEPT ![t] = [status |-> "starting", turn |-> 0]]
  /\ reserved' = reserved \ {PairOf[t]}
  /\ turns' = [turns EXCEPT ![t] = 1]
  /\ UNCHANGED <<pump, heard, codex, send, stop, budget>>

-----------------------------------------------------------------------------
(* A follow-up: rehydrate after a restart, begin_resume, connection.        *)

\* resume_turn looks for the session in the registry; only if it is absent is
\* the durable row it resolved before inserted, by a later critical section.
OpenFollowUp(s, t) ==
  /\ send[s].pc = "idle" /\ row[t] # "none"
  /\ send' = [send EXCEPT ![s] = [pc |-> IF mem[t] = Absent THEN "rehydrate" ELSE "admit",
                                  thread |-> t, copy |-> row[t]]]
  /\ UNCHANGED <<registry, row, turns, tasks, engine, stop, budget>>

Rehydrate(s, t) ==
  /\ send[s].pc = "rehydrate" /\ send[s].thread = t
  /\ mem' = [mem EXCEPT ![t] = [status |-> send[s].copy, turn |-> 0]]
  /\ send' = [send EXCEPT ![s].pc = "admit"]
  /\ UNCHANGED <<reserved, row, turns, tasks, engine, stop, budget>>

\* begin_resume: only a terminal session flips to Running, still with the turn
\* id of its last turn; anything else is Busy.
BeginResume(s, t) ==
  LET k == turns[t] + 1
  IN  /\ send[s].pc = "admit" /\ send[s].thread = t
      /\ mem[t].status \in Terminal /\ k \in Turn
      /\ SetStatus(t, "running")
      /\ turns' = [turns EXCEPT ![t] = k]
      /\ Drive(t, k, "none", "connect")
      /\ send' = [send EXCEPT ![s] = NewSend]
      /\ UNCHANGED <<reserved, row, pump, heard, engine, stop, budget>>

RefuseResume(s) ==
  /\ send[s].pc = "admit" /\ mem[send[s].thread].status \in InFlight
  /\ send' = [send EXCEPT ![s] = NewSend]
  /\ UNCHANGED <<registry, row, turns, tasks, engine, stop, budget>>

Connect(t, k) ==
  /\ Drive(t, k, "connect", "turn")
  /\ alive' = TRUE
  /\ UNCHANGED <<registry, row, turns, pump, heard, codex, send, stop, budget>>

-----------------------------------------------------------------------------
(* turn/start, for a review and for a follow-up alike.                      *)

\* The app-server takes the request: the turn runs before its id is known.
Accept(t, k) ==
  /\ alive /\ Drive(t, k, "turn", "accepted")
  /\ codex' = [codex EXCEPT ![t][k] = "running"]
  /\ UNCHANGED <<registry, row, turns, pump, heard, alive, send, stop, budget>>

SetRunning(t, k) ==
  /\ Drive(t, k, "accepted", "persist")
  /\ mem' = [mem EXCEPT ![t] = [status |-> "running", turn |-> k]]
  /\ UNCHANGED <<reserved, row, turns, pump, heard, engine, send, stop, budget>>

\* The row follows and the pump is spawned on the receiver subscribed before.
SpawnPump(t, k) ==
  /\ Drive(t, k, "persist", "over")
  /\ row' = [row EXCEPT ![t] = "running"]
  /\ pump' = [pump EXCEPT ![t][k] = "listening"]
  /\ UNCHANGED <<registry, turns, heard, engine, send, stop, budget>>

\* Mutant: the failure of a turn is not written.
FailTurnSilently(t, k) ==
  /\ drive[t][k] \in {"connect", "turn", "accepted"}
  /\ drive' = [drive EXCEPT ![t][k] = "failing"]
  /\ UNCHANGED <<registry, row, turns, pump, heard, engine, send, stop, budget>>

\* connection or turn/start fails, or its answer never comes: set_status, then
\* persist_status; the receiver is dropped and finalize_turn never runs.
FailTurn(t, k) ==
  /\ drive[t][k] \in {"connect", "turn", "accepted"}
  /\ drive' = [drive EXCEPT ![t][k] = "failing"]
  /\ SetStatus(t, "failed")
  /\ UNCHANGED <<reserved, row, turns, pump, heard, engine, send, stop, budget>>

PersistFailure(t, k) ==
  /\ Drive(t, k, "failing", "over")
  /\ row' = [row EXCEPT ![t] = "failed"]
  /\ UNCHANGED <<registry, turns, pump, heard, engine, send, stop, budget>>

-----------------------------------------------------------------------------
(* The app-server and the notices it broadcasts.                            *)

Receivers(t) ==
  {k \in Turn : \/ drive[t][k] \in {"turn", "accepted", "persist"}
                \/ pump[t][k] = "listening"}

\* turn/completed reaches every receiver of the thread: the pump filters by
\* thread, not by turn.  Only the first terminal notice is ever read.
Notify(T, w) ==
  heard' = [t \in Thread |-> [k \in Turn |->
              IF t \in T /\ k \in Receivers(t) /\ heard[t][k] = "none"
              THEN w ELSE heard[t][k]]]

EndTurn(t, k) ==
  /\ codex[t][k] = "running"
  /\ codex' = [codex EXCEPT ![t][k] = "over"]
  /\ \E w \in Terminal : Notify({t}, w)
  /\ UNCHANGED <<registry, row, turns, drive, pump, alive, send, stop, budget>>

\* EOF on its pipe: the reader broadcasts ConnectionClosed.
Die ==
  /\ alive /\ budget.death > 0
  /\ alive' = FALSE
  /\ codex' = [t \in Thread |-> [k \in Turn |->
                 IF codex[t][k] = "running" THEN "over" ELSE codex[t][k]]]
  /\ Notify(Thread, "failed")
  /\ budget' = [budget EXCEPT !.death = @ - 1]
  /\ UNCHANGED <<registry, row, turns, drive, pump, send, stop>>

\* The receiver fell behind the ring and its terminal notice may be lost.
Lag(t, k) ==
  /\ pump[t][k] = "listening" /\ heard[t][k] = "none"
  /\ heard' = [heard EXCEPT ![t][k] = "failed"]
  /\ UNCHANGED <<registry, row, turns, drive, pump, engine, send, stop, budget>>

-----------------------------------------------------------------------------
(* The pump's terminal notice and finalize_turn.                            *)

Move(t, k, from, to) == pump[t][k] = from /\ pump' = [pump EXCEPT ![t][k] = to]

\* try_begin_terminal: only one finalizer of a turn goes on.
BeginTerminal(t, k) ==
  /\ heard[t][k] # "none" /\ mem[t].status \in InFlight
  /\ SetStatus(t, heard[t][k])
  /\ Move(t, k, "listening", "resolving")
  /\ UNCHANGED <<reserved, row, turns, drive, heard, engine, send, stop, budget>>

Yield(t, k) ==
  /\ heard[t][k] # "none" /\ mem[t].status \notin InFlight
  /\ Move(t, k, "listening", "ended")
  /\ UNCHANGED <<registry, row, turns, drive, heard, engine, send, stop, budget>>

\* The comment URL is resolved across an await (gh); then status and URL are
\* set, whatever the status has become.
SetOutcome(t, k) ==
  /\ Move(t, k, "resolving", "writing")
  /\ SetStatus(t, heard[t][k])
  /\ UNCHANGED <<reserved, row, turns, drive, heard, engine, send, stop, budget>>

\* Mutant: the row is not written.
SkipOutcomeRow(t, k) ==
  /\ Move(t, k, "writing", "announcing")
  /\ UNCHANGED <<registry, row, turns, drive, heard, engine, send, stop, budget>>
WriteOutcome(t, k) ==
  /\ Move(t, k, "writing", "announcing")
  /\ row' = [row EXCEPT ![t] = heard[t][k]]
  /\ UNCHANGED <<registry, turns, drive, heard, engine, send, stop, budget>>

\* TurnCompleted, the lifecycle notice, and signal_completion last.
Announce(t, k) ==
  /\ Move(t, k, "announcing", "ended")
  /\ UNCHANGED <<registry, row, turns, drive, heard, engine, send, stop, budget>>

-----------------------------------------------------------------------------
(* stop_for_outbox and stop_review.                                         *)

Live(p, t) == PairOf[t] = p /\ mem[t].status \in InFlight

\* stop_target; a pair that is only reserved is retried, so it takes no step.
FindTarget(c, p, t) ==
  /\ stop[c].pc = "idle" /\ Live(p, t)
  /\ stop' = [stop EXCEPT ![c] = [pc |-> "found", thread |-> t, turn |-> turns[t], id |-> 0]]
  /\ UNCHANGED <<registry, row, turns, tasks, engine, send, budget>>

FindNothing(c, p) ==
  /\ stop[c].pc = "idle"
  /\ p \notin reserved /\ \A t \in Thread : ~Live(p, t)
  /\ stop' = [stop EXCEPT ![c].pc = "ok"]
  /\ UNCHANGED <<registry, row, turns, tasks, engine, send, budget>>

\* begin_interrupt: only a Running session; anything else is AlreadyHandled.
BeginInterrupt(c, t) ==
  /\ stop[c].pc = "found" /\ stop[c].thread = t
  /\ mem[t].status = "running"
  /\ SetStatus(t, "interrupting")
  /\ stop' = [stop EXCEPT ![c] = [@ EXCEPT !.pc = "interrupt", !.id = mem[t].turn]]
  /\ UNCHANGED <<reserved, row, turns, tasks, engine, send, budget>>

AlreadyHandled(c) ==
  /\ stop[c].pc = "found" /\ mem[stop[c].thread].status # "running"
  /\ stop' = [stop EXCEPT ![c].pc = "ok"]
  /\ UNCHANGED <<registry, row, turns, tasks, engine, send, budget>>

\* Mutant: a failed interrupt brings any session back.
RollbackAnyStatus(t) == SetStatus(t, "running")
Rollback(t) ==
  SetStatus(t, IF mem[t].status = "interrupting" THEN "running" ELSE mem[t].status)

\* turn/interrupt names the turn id read above.
Interrupt(c, t, k) ==
  /\ stop[c].pc = "interrupt" /\ stop[c].thread = t /\ stop[c].id = k
  /\ alive /\ codex[t][k] = "running"
  /\ codex' = [codex EXCEPT ![t][k] = "over"]
  /\ Notify({t}, "done")
  /\ stop' = [stop EXCEPT ![c].pc = "ok"]
  /\ UNCHANGED <<registry, row, turns, drive, pump, alive, send, budget>>

\* No live client: the stop is content.  A failed request: it is retried while
\* the session is still live (absorb_stop_toctou).
GiveUpInterrupt(c, t) ==
  /\ stop[c].pc = "interrupt" /\ stop[c].thread = t
  /\ Rollback(t)
  /\ stop' = [stop EXCEPT ![c].pc = IF alive /\ mem[t].status \in InFlight
                                    THEN "idle" ELSE "ok"]
  /\ UNCHANGED <<reserved, row, turns, tasks, engine, send, budget>>

-----------------------------------------------------------------------------
\* The program restarts: fail_orphaned_sessions before anything else runs.
FailOrphan(s) == IF s \in InFlight THEN "failed" ELSE s

Restart ==
  /\ budget.crash > 0
  /\ budget' = [budget EXCEPT !.crash = @ - 1]
  /\ reserved' = {} /\ mem' = [t \in Thread |-> Absent]
  /\ row' = [t \in Thread |-> FailOrphan(row[t])]
  /\ drive' = [t \in Thread |-> [k \in Turn |->
                 IF drive[t][k] = "none" THEN "none" ELSE "over"]]
  /\ pump' = [t \in Thread |-> [k \in Turn |->
                IF pump[t][k] = "none" THEN "none" ELSE "ended"]]
  /\ codex' = [t \in Thread |-> [k \in Turn |->
                 IF codex[t][k] = "none" THEN "none" ELSE "over"]]
  /\ alive' = FALSE
  /\ send' = [s \in Sender |-> NewSend] /\ stop' = [c \in Stopper |-> NewStop]
  /\ UNCHANGED <<turns, heard>>

\* What the tasks of the program do by themselves once begun.
TurnStep(t, k) ==
  \/ Connect(t, k) \/ Accept(t, k) \/ SetRunning(t, k) \/ SpawnPump(t, k)
  \/ FailTurn(t, k) \/ PersistFailure(t, k)
  \/ BeginTerminal(t, k) \/ Yield(t, k)
  \/ SetOutcome(t, k) \/ WriteOutcome(t, k) \/ Announce(t, k)

StartStep(t) == Reserve(t) \/ Dedupe(t) \/ AbandonStart(t) \/ Promote(t)

SendStep(s, t) ==
  OpenFollowUp(s, t) \/ Rehydrate(s, t) \/ BeginResume(s, t) \/ RefuseResume(s)

StopStep(c, t) ==
  \/ BeginInterrupt(c, t) \/ AlreadyHandled(c) \/ GiveUpInterrupt(c, t)
  \/ \E p \in Pair : FindTarget(c, p, t) \/ FindNothing(c, p)
  \/ \E k \in Turn : Interrupt(c, t, k)

Next ==
  \/ \E t \in Thread : StartStep(t)
  \/ \E t \in Thread, k \in Turn : TurnStep(t, k) \/ EndTurn(t, k) \/ Lag(t, k)
  \/ \E s \in Sender, t \in Thread : SendStep(s, t)
  \/ \E c \in Stopper, t \in Thread : StopStep(c, t)
  \/ Die \/ Restart

Spec == Init /\ [][Next]_vars

\* Every request is answered or times out, and tasks that can run do.  Nothing
\* is assumed of the app-server: a turn may run for ever.
SessionFair == \A t \in Thread, k \in Turn : WF_vars(TurnStep(t, k))

-----------------------------------------------------------------------------
(* Properties.                                                              *)

Reviewing(t) ==
  drive[t][1] = "reserved" \/ (turns[t] = 1 /\ mem[t].status \in InFlight)

\* At most one review of a pair is between its reservation and its end, however
\* starts, failures, stops and restarts interleave (try_reserve_pair).
NoDoubleStart ==
  \A t, u \in Thread :
    PairOf[t] = PairOf[u] /\ Reviewing(t) /\ Reviewing(u) => t = u

\* A pair is reserved only while a start of it is under way: no failure leaves a
\* reservation behind that would dedupe every later review (ReservationGuard).
NoLeakedReservation ==
  \A p \in reserved : \E t \in Thread : PairOf[t] = p /\ drive[t][1] = "reserved"

Quiet(t) ==
  /\ \A k \in Turn : drive[t][k] \in {"none", "over"} /\ pump[t][k] \in {"none", "ended"}
  /\ \A c \in Stopper : stop[c].thread = t => stop[c].pc \in {"idle", "ok"}

\* Once nobody works on a review that was not followed up, its row and its registry
\* entry agree, so that the session list survives a restart (finalize_turn,
\* persist_status).
SettledAgree ==
  \A t \in Thread :
    Quiet(t) /\ mem[t] # Absent /\ turns[t] <= 1 => row[t] = mem[t].status

\* A review that has ended and that nobody has followed up stays ended: not even an
\* interrupt that fails late brings it back to Running (rollback_interrupt).
EndedStaysEnded ==
  [][\A t \in Thread :
       mem[t].status \in Terminal /\ turns'[t] <= 1
         => mem'[t].status \in {mem[t].status, "none"}]_vars

\* A session none of whose turns the app-server runs any more, because they
\* ended or the app-server died, does not stay in flight for ever, follow-ups and
\* stops included (pump, fail_connection_closed).
EndIsSeen ==
  \A t \in Thread :
    LET idle == \A k \in Turn : codex[t][k] # "running"
    IN  idle ~> (mem[t].status \notin InFlight \/ ~idle)

\* A session has one turn at a time: a follow-up that is let in finds no other
\* turn being started or listened to (BeginResume, begin_resume).
Open(t) == {k \in Turn : \/ drive[t][k] \in {"connect", "turn", "accepted", "persist"}
                         \/ pump[t][k] = "listening"}
OneTurnAtATime == \A t \in Thread : Cardinality(Open(t)) <= 1

\* A stop that reported success is not followed by its turn running on
\* (stop_for_outbox, StopTarget).
StopTakesHold ==
  \A c \in Stopper :
    LET t == stop[c].thread IN
    stop[c].pc = "ok" /\ t # NoThread => codex[t][stop[c].turn] # "running"
=============================================================================
