------------------------- MODULE ReviewSessionProofs -------------------------
(***************************************************************************)
(* Proofs about the session registry, for any threads, pairs, follow-ups   *)
(* and stops and any number of turns, deaths and restarts.                 *)
(*                                                                         *)
(* That a pair is reviewed once is not inductive: a start is admitted by   *)
(* looking at reservations and at sessions in flight, so the invariant     *)
(* ties each start to its reservation, and says that nothing revives a     *)
(* first turn, neither a late set_running nor a rehydrated row.            *)
(* That the row agrees with the registry at rest, and that what has ended  *)
(* stays ended, follows the only turn of a review nobody followed up: at   *)
(* each point its status is what the row has or is about to get            *)
(* (FirstOutcome), also for a session that is brought back from its row    *)
(* (Blank, CopyIsRow), and its pump comes after its command                *)
(* (PumpAfterDrive).                                                       *)
(***************************************************************************)
EXTENDS ReviewSession, TLAPS

ActiveDrive == {"connect", "turn", "accepted", "persist", "failing"}
ActivePump  == {"listening", "resolving", "writing", "announcing"}

\* A command past its start always has a thread.
Targets ==
  /\ \A s \in Sender : send[s].pc # "idle" => send[s].thread \in Thread
  /\ \A c \in Stopper : stop[c].pc \in {"found", "interrupt"} => stop[c].thread \in Thread

\* Work on a turn is work on a thread that was promoted and is registered, and
\* only on turns that were admitted.
Working ==
  \A t \in Thread :
    /\ turns[t] = 0 => row[t] = "none" /\ mem[t].status = "none"
    /\ turns[t] # 0 => drive[t][1] \notin {"none", "reserved"}
    /\ \A k \in Turn :
         /\ drive[t][k] \in ActiveDrive \/ pump[t][k] \in ActivePump =>
              turns[t] # 0 /\ mem[t].status # "none"
         /\ drive[t][k] # "none" => k = 1 \/ k <= turns[t]

\* A finalizer has an outcome to write.
Heard ==
  \A t \in Thread, k \in Turn :
    pump[t][k] \in {"resolving", "writing", "announcing"} => heard[t][k] \in Terminal

\* Until set_running the first turn of a thread is Starting, and the only one.
FirstTurn ==
  \A t \in Thread :
    /\ drive[t][1] # "connect"
    /\ drive[t][1] \in {"turn", "accepted"} => turns[t] = 1 /\ mem[t].status = "starting"
    /\ drive[t][1] \in {"none", "reserved", "turn", "accepted"} =>
         \A k \in Turn : pump[t][k] = "none" /\ (k # 1 => drive[t][k] = "none")

\* A session that is not in the registry has ended, and so has the copy of its
\* row that a follow-up is about to insert.
Rehydrated ==
  /\ \A t \in Thread : mem[t].status = "none" => row[t] \notin InFlight
  /\ \A s \in Sender : send[s].pc = "rehydrate" =>
       /\ send[s].copy \in Terminal
       /\ turns[send[s].thread] # 0 /\ drive[send[s].thread][1] = "over"

\* A start past try_reserve_pair is covered by its reservation.
Reservations ==
  \A t \in Thread : drive[t][1] = "reserved" => PairOf[t] \in reserved

\* A session that is not in the registry is nothing but absent.
Blank == \A t \in Thread : mem[t].status = "none" => mem[t] = Absent

\* A pump is spawned last of all by the command that drives its turn.
PumpAfterDrive ==
  \A t \in Thread, k \in Turn : pump[t][k] # "none" => drive[t][k] = "over"

\* What the status of a registered review is worth while no follow-up of it was
\* let in: at each point of its only turn, what the row has or is about to get.
OnItsWay(t) ==
  /\ drive[t][1] = "persist" => mem[t].status \in {"running", "interrupting"}
  /\ drive[t][1] = "failing" => mem[t].status = "failed"
  /\ drive[t][1] = "over" =>
       \/ pump[t][1] = "listening" /\ mem[t].status \in {"running", "interrupting"}
       \/ pump[t][1] \in {"resolving", "writing"} /\ mem[t].status = heard[t][1]
       \/ /\ pump[t][1] \in {"none", "announcing", "ended"}
          /\ mem[t].status \in Terminal /\ row[t] = mem[t].status

FirstOutcome ==
  \A t \in Thread : turns[t] = 1 /\ mem[t].status # "none" => OnItsWay(t)

\* The copy of a row that a follow-up is about to insert is that row still, as
\* long as no other follow-up was let in.
CopyIsRow ==
  \A s \in Sender :
    LET t == send[s].thread IN
    send[s].pc = "rehydrate" /\ turns[t] = 1 =>
      send[s].copy = row[t] /\ pump[t][1] \in {"none", "ended"}

IInv ==
  /\ TypeOK /\ Targets /\ Working /\ Heard /\ FirstTurn /\ Rehydrated
  /\ Reservations /\ NoDoubleStart /\ NoLeakedReservation
  /\ Blank /\ PumpAfterDrive /\ FirstOutcome /\ CopyIsRow

-----------------------------------------------------------------------------
(* The invariant is inductive, part by part.                                *)

\* SetStatus keeps the type of a session.
LEMMA SessionTyped ==
  ASSUME mem \in [Thread -> Session], NEW t \in Thread, NEW w \in Status, SetStatus(t, w)
  PROVE  mem' \in [Thread -> Session]
PROOF
<1>1. [mem[t] EXCEPT !.status = w] \in Session BY DEF Session
<1> QED BY <1>1 DEF SetStatus

\* A step of a follow-up leaves its record a record of that type.
LEMMA FollowerMoved ==
  ASSUME NEW m \in Follower, NEW v \in {"idle", "rehydrate", "admit"}
  PROVE  [m EXCEPT !.pc = v] \in Follower
BY DEF Follower

\* And those of a stop, whose turn id is set along the way.
LEMMA StoppingMoved ==
  ASSUME NEW m \in Stopping, NEW v \in {"idle", "found", "interrupt", "ok"},
         NEW j \in 0..MaxTurn
  PROVE  /\ [m EXCEPT !.pc = v] \in Stopping
         /\ [m EXCEPT !.pc = v, !.id = j] \in Stopping
BY DEF Stopping

\* A death or a restart takes one from its bound.
LEMMA BudgetSpent ==
  ASSUME NEW b \in [death : Nat, crash : Nat]
  PROVE  /\ b.death > 0 => [b EXCEPT !.death = @ - 1] \in [death : Nat, crash : Nat]
         /\ b.crash > 0 => [b EXCEPT !.crash = @ - 1] \in [death : Nat, crash : Nat]
OBVIOUS

\* Whatever notice is broadcast, a receiver has heard at most a terminal one.
LEMMA NotifyTyped ==
  ASSUME TaskType, NEW S, NEW w \in Terminal, Notify(S, w)
  PROVE  heard' \in [Thread -> [Turn -> {"none"} \cup Terminal]]
PROOF
<1> DEFINE H(t, k) == IF t \in S /\ k \in Receivers(t) /\ heard[t][k] = "none"
                      THEN w ELSE heard[t][k]
<1>1. \A t \in Thread, k \in Turn : H(t, k) \in {"none"} \cup Terminal
  BY DEF TaskType
<1>2. heard' = [t \in Thread |-> [k \in Turn |-> H(t, k)]] BY DEF Notify
<1> HIDE DEF H
<1> QED BY <1>1, <1>2

\* The registry and the rows keep their types.
LEMMA RegistryStep ==
  ASSUME TypeOK, [Next]_vars
  PROVE  RegistryType'
PROOF
<1> USE ThreadAssumption, PairAssumption, TurnAssumption
       DEF registry, tasks, engine, Turn, InFlight, Terminal, Status,
           TypeOK, RegistryType, TaskType, EngineType, CommandType, Absent
<1>0. 1 \in Turn OBVIOUS
<1> USE <1>0
<1>1. ASSUME NEW t \in Thread, Reserve(t) PROVE RegistryType'
  BY <1>1 DEF Reserve, Covered, Drive
<1>2. ASSUME NEW t \in Thread, AbandonStart(t) PROVE RegistryType'
  BY <1>2 DEF AbandonStart, Drive
<1>3. ASSUME NEW t \in Thread, Promote(t) PROVE RegistryType'
  BY <1>3 DEF Promote, Drive, Session
<1>4. ASSUME NEW s \in Sender, NEW t \in Thread, Rehydrate(s, t) PROVE RegistryType'
  <2>1. [status |-> send[s].copy, turn |-> 0] \in Session BY DEF Session, Follower
  <2> QED BY <1>4, <2>1 DEF Rehydrate
<1>5. ASSUME NEW s \in Sender, NEW t \in Thread, BeginResume(s, t) PROVE RegistryType'
  <2>1. mem' \in [Thread -> Session] BY <1>5, SessionTyped DEF BeginResume
  <2>2. turns' \in [Thread -> 0..MaxTurn] BY <1>5 DEF BeginResume
  <2> QED BY <1>5, <2>1, <2>2 DEF BeginResume
<1>6. ASSUME NEW t \in Thread, NEW k \in Turn, SetRunning(t, k) PROVE RegistryType'
  BY <1>6 DEF SetRunning, Drive, Session
<1>7. ASSUME NEW t \in Thread, NEW k \in Turn, SpawnPump(t, k) PROVE RegistryType'
  BY <1>7 DEF SpawnPump, Drive
<1>8. ASSUME NEW t \in Thread, NEW k \in Turn, FailTurn(t, k) PROVE RegistryType'
  <2>1. mem' \in [Thread -> Session] BY <1>8, SessionTyped DEF FailTurn
  <2> QED BY <1>8, <2>1 DEF FailTurn
<1>9. ASSUME NEW t \in Thread, NEW k \in Turn, PersistFailure(t, k) PROVE RegistryType'
  BY <1>9 DEF PersistFailure, Drive
<1>10. ASSUME NEW t \in Thread, NEW k \in Turn, BeginTerminal(t, k) PROVE RegistryType'
  <2>1. heard[t][k] \in Status OBVIOUS
  <2>2. mem' \in [Thread -> Session] BY <1>10, <2>1, SessionTyped DEF BeginTerminal
  <2> QED BY <1>10, <2>2 DEF BeginTerminal
<1>11. ASSUME NEW t \in Thread, NEW k \in Turn, SetOutcome(t, k) PROVE RegistryType'
  <2>1. heard[t][k] \in Status OBVIOUS
  <2>2. mem' \in [Thread -> Session] BY <1>11, <2>1, SessionTyped DEF SetOutcome
  <2> QED BY <1>11, <2>2 DEF SetOutcome
<1>12. ASSUME NEW t \in Thread, NEW k \in Turn, WriteOutcome(t, k) PROVE RegistryType'
  BY <1>12 DEF WriteOutcome, Move
<1>13. ASSUME NEW c \in Stopper, NEW t \in Thread, BeginInterrupt(c, t) PROVE RegistryType'
  <2>1. mem' \in [Thread -> Session] BY <1>13, SessionTyped DEF BeginInterrupt
  <2> QED BY <1>13, <2>1 DEF BeginInterrupt
<1>14. ASSUME NEW c \in Stopper, NEW t \in Thread, GiveUpInterrupt(c, t) PROVE RegistryType'
  <2> DEFINE w == IF mem[t].status = "interrupting" THEN "running" ELSE mem[t].status
  <2>1. w \in Status BY DEF Session
  <2>2. SetStatus(t, w) BY <1>14 DEF GiveUpInterrupt, Rollback
  <2>3. mem' \in [Thread -> Session] BY <2>1, <2>2, SessionTyped
  <2> QED BY <1>14, <2>3 DEF GiveUpInterrupt
<1>15. CASE Restart
  BY <1>15 DEF Restart, FailOrphan, Absent, NewSend, NewStop, Session
<1>16. CASE UNCHANGED <<reserved, mem, row, turns>>
  BY <1>16
<1> HIDE DEF Turn, InFlight, Terminal, Status, TypeOK, RegistryType, TaskType, EngineType,
     CommandType, Absent
<1> QED
  <2>1. CASE \E t \in Thread : StartStep(t)
    BY <2>1, <1>1, <1>2, <1>3, <1>16
    DEF StartStep, Dedupe, registry, tasks, engine
  <2>2. CASE \E t \in Thread, k \in Turn : TurnStep(t, k) \/ EndTurn(t, k) \/ Lag(t, k)
    BY <2>2, <1>6, <1>7, <1>8, <1>9, <1>10, <1>11, <1>12, <1>16
    DEF TurnStep, Connect, Accept, Yield, Announce, EndTurn, Lag, registry, tasks, engine
  <2>3. CASE \E s \in Sender, t \in Thread : SendStep(s, t)
    BY <2>3, <1>4, <1>5, <1>16
    DEF SendStep, OpenFollowUp, RefuseResume, registry, tasks, engine
  <2>4. CASE \E c \in Stopper, t \in Thread : StopStep(c, t)
    BY <2>4, <1>13, <1>14, <1>16
    DEF StopStep, FindTarget, FindNothing, AlreadyHandled, Interrupt, registry, tasks,
        engine
  <2>5. CASE Die \/ Restart
    BY <2>5, <1>15, <1>16
    DEF Die, registry, tasks, engine
  <2>6. CASE UNCHANGED vars
    BY <2>6, <1>16 DEF vars, registry, tasks, engine
  <2> QED BY <2>1, <2>2, <2>3, <2>4, <2>5, <2>6 DEF Next

\* The tasks keep their types.
LEMMA TaskStep ==
  ASSUME TypeOK, [Next]_vars
  PROVE  TaskType'
PROOF
<1> USE ThreadAssumption, PairAssumption, TurnAssumption
       DEF registry, tasks, engine, Turn, InFlight, Terminal, Status,
           TypeOK, RegistryType, TaskType, EngineType, CommandType,
           Session, Follower, Stopping
<1>0. 1 \in Turn OBVIOUS
<1> USE <1>0
<1>1. ASSUME NEW t \in Thread, Reserve(t) PROVE TaskType'
  BY <1>1 DEF Reserve, Covered, Drive
<1>2. ASSUME NEW t \in Thread, Dedupe(t) PROVE TaskType'
  BY <1>2 DEF Dedupe, Drive
<1>3. ASSUME NEW t \in Thread, AbandonStart(t) PROVE TaskType'
  BY <1>3 DEF AbandonStart, Drive
<1>4. ASSUME NEW t \in Thread, Promote(t) PROVE TaskType'
  BY <1>4 DEF Promote, Drive
<1>5. ASSUME NEW s \in Sender, NEW t \in Thread, BeginResume(s, t) PROVE TaskType'
  BY <1>5 DEF BeginResume, NewSend, Drive, SetStatus
<1>6. ASSUME NEW t \in Thread, NEW k \in Turn, Connect(t, k) PROVE TaskType'
  BY <1>6 DEF Connect, Drive
<1>7. ASSUME NEW t \in Thread, NEW k \in Turn, Accept(t, k) PROVE TaskType'
  BY <1>7 DEF Accept, Drive
<1>8. ASSUME NEW t \in Thread, NEW k \in Turn, SetRunning(t, k) PROVE TaskType'
  BY <1>8 DEF SetRunning, Drive
<1>9. ASSUME NEW t \in Thread, NEW k \in Turn, SpawnPump(t, k) PROVE TaskType'
  BY <1>9 DEF SpawnPump, Drive
<1>10. ASSUME NEW t \in Thread, NEW k \in Turn, FailTurn(t, k) PROVE TaskType'
  BY <1>10 DEF FailTurn, SetStatus
<1>11. ASSUME NEW t \in Thread, NEW k \in Turn, PersistFailure(t, k) PROVE TaskType'
  BY <1>11 DEF PersistFailure, Drive
<1>12. ASSUME NEW t \in Thread, NEW k \in Turn, EndTurn(t, k) PROVE TaskType'
  <2>1. Notify({t}, "done") \/ Notify({t}, "failed") BY <1>12 DEF EndTurn
  <2>2. heard' \in [Thread -> [Turn -> {"none"} \cup Terminal]]
    BY <2>1, NotifyTyped
  <2> QED BY <1>12, <2>2 DEF EndTurn
<1>13. ASSUME NEW t \in Thread, NEW k \in Turn, Lag(t, k) PROVE TaskType'
  BY <1>13 DEF Lag
<1>14. ASSUME NEW t \in Thread, NEW k \in Turn, BeginTerminal(t, k) PROVE TaskType'
  BY <1>14 DEF BeginTerminal, SetStatus, Move
<1>15. ASSUME NEW t \in Thread, NEW k \in Turn, Yield(t, k) PROVE TaskType'
  BY <1>15 DEF Yield, Move
<1>16. ASSUME NEW t \in Thread, NEW k \in Turn, SetOutcome(t, k) PROVE TaskType'
  BY <1>16 DEF SetOutcome, SetStatus, Move
<1>17. ASSUME NEW t \in Thread, NEW k \in Turn, WriteOutcome(t, k) PROVE TaskType'
  BY <1>17 DEF WriteOutcome, Move
<1>18. ASSUME NEW t \in Thread, NEW k \in Turn, Announce(t, k) PROVE TaskType'
  BY <1>18 DEF Announce, Move
<1>19. ASSUME NEW c \in Stopper, NEW t \in Thread, NEW k \in Turn, Interrupt(c, t, k)
       PROVE TaskType'
  BY <1>19, NotifyTyped DEF Interrupt
<1>20. CASE Die
  BY <1>20, NotifyTyped DEF Die
<1>21. CASE Restart
  BY <1>21 DEF Restart, FailOrphan, Absent, NewSend, NewStop
<1>22. CASE UNCHANGED <<drive, pump, heard>>
  BY <1>22
<1> HIDE DEF Turn, InFlight, Terminal, Status, TypeOK, RegistryType, TaskType, EngineType,
     CommandType, Session, Follower, Stopping
<1> QED
  <2>1. CASE \E t \in Thread : StartStep(t)
    BY <2>1, <1>1, <1>2, <1>3, <1>4, <1>22
    DEF StartStep
  <2>2. CASE \E t \in Thread, k \in Turn : TurnStep(t, k) \/ EndTurn(t, k) \/ Lag(t, k)
    BY <2>2, <1>6, <1>7, <1>8, <1>9, <1>10, <1>11, <1>14, <1>15, <1>16, <1>17, <1>18, <1>12,
       <1>13, <1>22
    DEF TurnStep
  <2>3. CASE \E s \in Sender, t \in Thread : SendStep(s, t)
    BY <2>3, <1>5, <1>22
    DEF SendStep, OpenFollowUp, Rehydrate, RefuseResume, registry, tasks, engine
  <2>4. CASE \E c \in Stopper, t \in Thread : StopStep(c, t)
    BY <2>4, <1>19, <1>22
    DEF StopStep, FindTarget, FindNothing, BeginInterrupt, AlreadyHandled, GiveUpInterrupt,
        registry, tasks, engine
  <2>5. CASE Die \/ Restart
    BY <2>5, <1>20, <1>21
  <2>6. CASE UNCHANGED vars
    BY <2>6, <1>22 DEF vars, registry, tasks, engine
  <2> QED BY <2>1, <2>2, <2>3, <2>4, <2>5, <2>6 DEF Next

\* The app-server keeps its type.
LEMMA EngineStep ==
  ASSUME TypeOK, [Next]_vars
  PROVE  EngineType'
PROOF
<1> USE ThreadAssumption, PairAssumption, TurnAssumption
       DEF registry, tasks, engine, Turn, InFlight, Terminal, Status,
           TypeOK, RegistryType, TaskType, EngineType, CommandType,
           Session, Follower, Stopping
<1>0. 1 \in Turn OBVIOUS
<1> USE <1>0
<1>1. ASSUME NEW t \in Thread, Promote(t) PROVE EngineType'
  BY <1>1 DEF Promote, Drive
<1>2. ASSUME NEW t \in Thread, NEW k \in Turn, Connect(t, k) PROVE EngineType'
  BY <1>2 DEF Connect, Drive
<1>3. ASSUME NEW t \in Thread, NEW k \in Turn, Accept(t, k) PROVE EngineType'
  BY <1>3 DEF Accept, Drive
<1>4. ASSUME NEW t \in Thread, NEW k \in Turn, EndTurn(t, k) PROVE EngineType'
  BY <1>4 DEF EndTurn, Notify
<1>5. ASSUME NEW c \in Stopper, NEW t \in Thread, NEW k \in Turn, Interrupt(c, t, k)
      PROVE EngineType'
  BY <1>5 DEF Interrupt, Notify
<1>6. CASE Die
  <2>1. budget' \in [death : Nat, crash : Nat] BY <1>6, BudgetSpent DEF Die
  <2>2. codex' \in [Thread -> [Turn -> {"none", "running", "over"}]] BY <1>6 DEF Die
  <2> QED BY <1>6, <2>1, <2>2 DEF Die
<1>7. CASE Restart
  <2>1. budget' \in [death : Nat, crash : Nat] BY <1>7, BudgetSpent DEF Restart
  <2>2. codex' \in [Thread -> [Turn -> {"none", "running", "over"}]] BY <1>7 DEF Restart
  <2> QED BY <1>7, <2>1, <2>2 DEF Restart
<1>8. CASE UNCHANGED <<codex, alive, budget>>
  BY <1>8
<1> HIDE DEF Turn, InFlight, Terminal, Status, TypeOK, RegistryType, TaskType, EngineType,
     CommandType, Session, Follower, Stopping
<1> QED
  <2>1. CASE \E t \in Thread : StartStep(t)
    BY <2>1, <1>1, <1>8
    DEF StartStep, Reserve, Dedupe, AbandonStart, registry, tasks, engine
  <2>2. CASE \E t \in Thread, k \in Turn : TurnStep(t, k) \/ EndTurn(t, k) \/ Lag(t, k)
    BY <2>2, <1>2, <1>3, <1>4, <1>8
    DEF TurnStep, SetRunning, SpawnPump, FailTurn, PersistFailure, BeginTerminal, Yield,
        SetOutcome, WriteOutcome, Announce, Lag, registry, tasks, engine
  <2>3. CASE \E s \in Sender, t \in Thread : SendStep(s, t)
    BY <2>3, <1>8
    DEF SendStep, OpenFollowUp, Rehydrate, BeginResume, RefuseResume, registry, tasks,
        engine
  <2>4. CASE \E c \in Stopper, t \in Thread : StopStep(c, t)
    BY <2>4, <1>5, <1>8
    DEF StopStep, FindTarget, FindNothing, BeginInterrupt, AlreadyHandled, GiveUpInterrupt,
        registry, tasks, engine
  <2>5. CASE Die \/ Restart
    BY <2>5, <1>6, <1>7
  <2>6. CASE UNCHANGED vars
    BY <2>6, <1>8 DEF vars, registry, tasks, engine
  <2> QED BY <2>1, <2>2, <2>3, <2>4, <2>5, <2>6 DEF Next

\* The commands keep their types.
LEMMA CommandStep ==
  ASSUME TypeOK, [Next]_vars
  PROVE  CommandType'
PROOF
<1> USE ThreadAssumption, PairAssumption, TurnAssumption
       DEF registry, tasks, engine, Turn, InFlight, Terminal, Status,
           TypeOK, RegistryType, TaskType, EngineType, CommandType, NewSend, NewStop
<1>0. 1 \in Turn OBVIOUS
<1> USE <1>0
<1>1. ASSUME NEW s \in Sender, NEW t \in Thread, OpenFollowUp(s, t) PROVE CommandType'
  BY <1>1 DEF OpenFollowUp, Absent, Follower
<1>2. ASSUME NEW s \in Sender, NEW t \in Thread, Rehydrate(s, t) PROVE CommandType'
  <2>1. [send[s] EXCEPT !.pc = "admit"] \in Follower BY FollowerMoved
  <2> QED BY <1>2, <2>1 DEF Rehydrate
<1>3. ASSUME NEW s \in Sender, NEW t \in Thread, BeginResume(s, t) PROVE CommandType'
  BY <1>3 DEF BeginResume, NewSend, Drive, SetStatus, Follower
<1>4. ASSUME NEW s \in Sender, RefuseResume(s) PROVE CommandType'
  BY <1>4 DEF RefuseResume, NewSend, Follower
<1>5. ASSUME NEW c \in Stopper, NEW p \in Pair, NEW t \in Thread, FindTarget(c, p, t)
      PROVE CommandType'
  BY <1>5 DEF FindTarget, Live, Stopping
<1>6. ASSUME NEW c \in Stopper, NEW p \in Pair, FindNothing(c, p) PROVE CommandType'
  <2>1. 0 \in 0..MaxTurn OBVIOUS
  <2>2. [stop[c] EXCEPT !.pc = "ok"] \in Stopping BY <2>1, StoppingMoved
  <2> QED BY <1>6, <2>2 DEF FindNothing
<1>7. ASSUME NEW c \in Stopper, NEW t \in Thread, BeginInterrupt(c, t) PROVE CommandType'
  <2>1. mem[t].turn \in 0..MaxTurn BY DEF Session
  <2>2. [stop[c] EXCEPT !.pc = "interrupt", !.id = mem[t].turn] \in Stopping
    BY <2>1, StoppingMoved
  <2> QED BY <1>7, <2>2 DEF BeginInterrupt
<1>8. ASSUME NEW c \in Stopper, AlreadyHandled(c) PROVE CommandType'
  <2>1. 0 \in 0..MaxTurn OBVIOUS
  <2>2. [stop[c] EXCEPT !.pc = "ok"] \in Stopping BY <2>1, StoppingMoved
  <2> QED BY <1>8, <2>2 DEF AlreadyHandled
<1>9. ASSUME NEW c \in Stopper, NEW t \in Thread, GiveUpInterrupt(c, t) PROVE CommandType'
  <2> DEFINE w == IF alive /\ mem[t].status \in InFlight THEN "idle" ELSE "ok"
  <2>1. [stop[c] EXCEPT !.pc = w] \in Stopping BY StoppingMoved
  <2> QED BY <1>9, <2>1 DEF GiveUpInterrupt
<1>10. ASSUME NEW c \in Stopper, NEW t \in Thread, NEW k \in Turn, Interrupt(c, t, k)
       PROVE CommandType'
  <2>1. [stop[c] EXCEPT !.pc = "ok"] \in Stopping BY StoppingMoved
  <2> QED BY <1>10, <2>1 DEF Interrupt
<1>11. CASE Restart
  BY <1>11 DEF Restart, FailOrphan, Absent, NewSend, NewStop, Follower, Stopping
<1>12. CASE UNCHANGED <<send, stop>>
  BY <1>12
<1> HIDE DEF Turn, InFlight, Terminal, Status, TypeOK, RegistryType, TaskType, EngineType,
     CommandType, NewSend, NewStop
<1> QED
  <2>1. CASE \E t \in Thread : StartStep(t)
    BY <2>1, <1>12
    DEF StartStep, Reserve, Dedupe, AbandonStart, Promote, registry, tasks, engine
  <2>2. CASE \E t \in Thread, k \in Turn : TurnStep(t, k) \/ EndTurn(t, k) \/ Lag(t, k)
    BY <2>2, <1>12
    DEF TurnStep, Connect, Accept, SetRunning, SpawnPump, FailTurn, PersistFailure,
        BeginTerminal, Yield, SetOutcome, WriteOutcome, Announce, EndTurn, Lag, registry,
        tasks, engine
  <2>3. CASE \E s \in Sender, t \in Thread : SendStep(s, t)
    BY <2>3, <1>1, <1>2, <1>3, <1>4, <1>12
    DEF SendStep
  <2>4. CASE \E c \in Stopper, t \in Thread : StopStep(c, t)
    BY <2>4, <1>5, <1>6, <1>7, <1>8, <1>9, <1>10, <1>12
    DEF StopStep
  <2>5. CASE Die \/ Restart
    BY <2>5, <1>11, <1>12
    DEF Die, registry, tasks, engine
  <2>6. CASE UNCHANGED vars
    BY <2>6, <1>12 DEF vars, registry, tasks, engine
  <2> QED BY <2>1, <2>2, <2>3, <2>4, <2>5, <2>6 DEF Next

\* Every step keeps the targets.
LEMMA TargetsStep ==
  ASSUME TypeOK, Targets, [Next]_vars
  PROVE  Targets'
PROOF
<1> USE ThreadAssumption, PairAssumption, TurnAssumption
       DEF registry, tasks, engine, Turn, InFlight, Terminal, Status,
           TypeOK, RegistryType, TaskType, EngineType, CommandType,
           Session, Follower, Stopping, Targets
<1>0. 1 \in Turn OBVIOUS
<1> USE <1>0
<1>1. ASSUME NEW s \in Sender, NEW t \in Thread, OpenFollowUp(s, t) PROVE Targets'
  BY <1>1 DEF OpenFollowUp, Absent
<1>2. ASSUME NEW s \in Sender, NEW t \in Thread, Rehydrate(s, t) PROVE Targets'
  BY <1>2 DEF Rehydrate
<1>3. ASSUME NEW s \in Sender, NEW t \in Thread, BeginResume(s, t) PROVE Targets'
  BY <1>3 DEF BeginResume, NewSend, Drive, SetStatus
<1>4. ASSUME NEW s \in Sender, RefuseResume(s) PROVE Targets'
  BY <1>4 DEF RefuseResume, NewSend
<1>5. ASSUME NEW c \in Stopper, NEW p \in Pair, NEW t \in Thread, FindTarget(c, p, t)
      PROVE Targets'
  BY <1>5 DEF FindTarget, Live
<1>6. ASSUME NEW c \in Stopper, NEW p \in Pair, FindNothing(c, p) PROVE Targets'
  BY <1>6 DEF FindNothing
<1>7. ASSUME NEW c \in Stopper, NEW t \in Thread, BeginInterrupt(c, t) PROVE Targets'
  BY <1>7 DEF BeginInterrupt, SetStatus
<1>8. ASSUME NEW c \in Stopper, AlreadyHandled(c) PROVE Targets'
  BY <1>8 DEF AlreadyHandled
<1>9. ASSUME NEW c \in Stopper, NEW t \in Thread, GiveUpInterrupt(c, t) PROVE Targets'
  BY <1>9 DEF GiveUpInterrupt, Rollback, SetStatus
<1>10. ASSUME NEW c \in Stopper, NEW t \in Thread, NEW k \in Turn, Interrupt(c, t, k)
       PROVE Targets'
  BY <1>10 DEF Interrupt, Notify
<1>11. CASE Restart
  BY <1>11 DEF Restart, FailOrphan, Absent, NewSend, NewStop
<1>12. CASE UNCHANGED <<send, stop>>
  BY <1>12
<1> HIDE DEF Turn, InFlight, Terminal, Status, TypeOK, RegistryType, TaskType, EngineType,
     CommandType, Session, Follower, Stopping, Targets
<1> QED
  <2>1. CASE \E t \in Thread : StartStep(t)
    BY <2>1, <1>12
    DEF StartStep, Reserve, Dedupe, AbandonStart, Promote, registry, tasks, engine
  <2>2. CASE \E t \in Thread, k \in Turn : TurnStep(t, k) \/ EndTurn(t, k) \/ Lag(t, k)
    BY <2>2, <1>12
    DEF TurnStep, Connect, Accept, SetRunning, SpawnPump, FailTurn, PersistFailure,
        BeginTerminal, Yield, SetOutcome, WriteOutcome, Announce, EndTurn, Lag, registry,
        tasks, engine
  <2>3. CASE \E s \in Sender, t \in Thread : SendStep(s, t)
    BY <2>3, <1>1, <1>2, <1>3, <1>4, <1>12
    DEF SendStep
  <2>4. CASE \E c \in Stopper, t \in Thread : StopStep(c, t)
    BY <2>4, <1>5, <1>6, <1>7, <1>8, <1>9, <1>10, <1>12
    DEF StopStep
  <2>5. CASE Die \/ Restart
    BY <2>5, <1>11, <1>12
    DEF Die, registry, tasks, engine
  <2>6. CASE UNCHANGED vars
    BY <2>6, <1>12 DEF vars, registry, tasks, engine
  <2> QED BY <2>1, <2>2, <2>3, <2>4, <2>5, <2>6 DEF Next

\* Only what was promoted and admitted is worked on.
LEMMA WorkingStep ==
  ASSUME TypeOK, Targets, Working, Heard, Rehydrated, [Next]_vars
  PROVE  Working'
PROOF
<1> USE ThreadAssumption, PairAssumption, TurnAssumption
       DEF registry, tasks, engine, Turn, InFlight, Terminal, Status,
           TypeOK, RegistryType, TaskType, EngineType, CommandType,
           Session, Follower, Stopping, Targets, Working, Heard,
           Rehydrated, ActiveDrive, ActivePump
<1>0. 1 \in Turn OBVIOUS
<1> USE <1>0
<1>1. ASSUME NEW t \in Thread, Reserve(t) PROVE Working'
  BY <1>1 DEF Reserve, Covered, Drive
<1>2. ASSUME NEW t \in Thread, Dedupe(t) PROVE Working'
  BY <1>2 DEF Dedupe, Drive
<1>3. ASSUME NEW t \in Thread, AbandonStart(t) PROVE Working'
  BY <1>3 DEF AbandonStart, Drive
<1>4. ASSUME NEW t \in Thread, Promote(t) PROVE Working'
  BY <1>4 DEF Promote, Drive
<1>5. ASSUME NEW s \in Sender, NEW t \in Thread, Rehydrate(s, t) PROVE Working'
  <2>1. /\ send[s].copy \in Terminal /\ turns[t] # 0 /\ drive[t][1] = "over"
        /\ mem' = [mem EXCEPT ![t] = [status |-> send[s].copy, turn |-> 0]]
    BY <1>5 DEF Rehydrate
  <2>2. \A u \in Thread : mem'[u].status = IF u = t THEN send[s].copy ELSE mem[u].status
    BY <2>1
  <2> QED BY <1>5, <2>1, <2>2 DEF Rehydrate
<1>6. ASSUME NEW s \in Sender, NEW t \in Thread, BeginResume(s, t) PROVE Working'
  BY <1>6 DEF BeginResume, NewSend, Drive, SetStatus
<1>7. ASSUME NEW t \in Thread, NEW k \in Turn, Connect(t, k) PROVE Working'
  BY <1>7 DEF Connect, Drive
<1>8. ASSUME NEW t \in Thread, NEW k \in Turn, Accept(t, k) PROVE Working'
  BY <1>8 DEF Accept, Drive
<1>9. ASSUME NEW t \in Thread, NEW k \in Turn, SetRunning(t, k) PROVE Working'
  BY <1>9 DEF SetRunning, Drive
<1>10. ASSUME NEW t \in Thread, NEW k \in Turn, SpawnPump(t, k) PROVE Working'
  BY <1>10 DEF SpawnPump, Drive
<1>11. ASSUME NEW t \in Thread, NEW k \in Turn, FailTurn(t, k) PROVE Working'
  BY <1>11 DEF FailTurn, SetStatus
<1>12. ASSUME NEW t \in Thread, NEW k \in Turn, PersistFailure(t, k) PROVE Working'
  BY <1>12 DEF PersistFailure, Drive
<1>13. ASSUME NEW t \in Thread, NEW k \in Turn, BeginTerminal(t, k) PROVE Working'
  BY <1>13 DEF BeginTerminal, SetStatus, Move
<1>14. ASSUME NEW t \in Thread, NEW k \in Turn, Yield(t, k) PROVE Working'
  BY <1>14 DEF Yield, Move
<1>15. ASSUME NEW t \in Thread, NEW k \in Turn, SetOutcome(t, k) PROVE Working'
  <2>1. heard[t][k] \in Terminal BY <1>15 DEF SetOutcome, SetStatus, Move, Heard
  <2> QED BY <1>15, <2>1 DEF SetOutcome, SetStatus, Move
<1>16. ASSUME NEW t \in Thread, NEW k \in Turn, WriteOutcome(t, k) PROVE Working'
  BY <1>16 DEF WriteOutcome, Move
<1>17. ASSUME NEW t \in Thread, NEW k \in Turn, Announce(t, k) PROVE Working'
  BY <1>17 DEF Announce, Move
<1>18. ASSUME NEW c \in Stopper, NEW t \in Thread, BeginInterrupt(c, t) PROVE Working'
  BY <1>18 DEF BeginInterrupt, SetStatus
<1>19. ASSUME NEW c \in Stopper, NEW t \in Thread, GiveUpInterrupt(c, t) PROVE Working'
  BY <1>19 DEF GiveUpInterrupt, Rollback, SetStatus
<1>20. CASE Restart
  BY <1>20 DEF Restart, FailOrphan, Absent, NewSend, NewStop
<1>21. CASE UNCHANGED <<row, mem, turns, drive, pump>>
  BY <1>21
<1> HIDE DEF Turn, InFlight, Terminal, Status, TypeOK, RegistryType, TaskType, EngineType,
     CommandType, Session, Follower, Stopping, Targets, Working, Heard, Rehydrated,
     ActiveDrive, ActivePump
<1> QED
  <2>1. CASE \E t \in Thread : StartStep(t)
    BY <2>1, <1>1, <1>2, <1>3, <1>4, <1>21
    DEF StartStep
  <2>2. CASE \E t \in Thread, k \in Turn : TurnStep(t, k) \/ EndTurn(t, k) \/ Lag(t, k)
    BY <2>2, <1>7, <1>8, <1>9, <1>10, <1>11, <1>12, <1>13, <1>14, <1>15, <1>16, <1>17, <1>21
    DEF TurnStep, EndTurn, Lag, registry, tasks, engine
  <2>3. CASE \E s \in Sender, t \in Thread : SendStep(s, t)
    BY <2>3, <1>5, <1>6, <1>21
    DEF SendStep, OpenFollowUp, RefuseResume, registry, tasks, engine
  <2>4. CASE \E c \in Stopper, t \in Thread : StopStep(c, t)
    BY <2>4, <1>18, <1>19, <1>21
    DEF StopStep, FindTarget, FindNothing, AlreadyHandled, Interrupt, registry, tasks,
        engine
  <2>5. CASE Die \/ Restart
    BY <2>5, <1>20, <1>21
    DEF Die, registry, tasks, engine
  <2>6. CASE UNCHANGED vars
    BY <2>6, <1>21 DEF vars, registry, tasks, engine
  <2> QED BY <2>1, <2>2, <2>3, <2>4, <2>5, <2>6 DEF Next

\* What was heard first stays.
LEMMA HeardStep ==
  ASSUME TypeOK, Heard, [Next]_vars
  PROVE  Heard'
PROOF
<1> USE ThreadAssumption, PairAssumption, TurnAssumption
       DEF registry, tasks, engine, Turn, InFlight, Terminal, Status,
           TypeOK, RegistryType, TaskType, EngineType, CommandType,
           Session, Follower, Stopping, Heard
<1>0. 1 \in Turn OBVIOUS
<1> USE <1>0
<1>1. ASSUME NEW t \in Thread, NEW k \in Turn, SpawnPump(t, k) PROVE Heard'
  BY <1>1 DEF SpawnPump, Drive
<1>2. ASSUME NEW t \in Thread, NEW k \in Turn, EndTurn(t, k) PROVE Heard'
  BY <1>2 DEF EndTurn, Notify
<1>3. ASSUME NEW t \in Thread, NEW k \in Turn, Lag(t, k) PROVE Heard'
  BY <1>3 DEF Lag
<1>4. ASSUME NEW t \in Thread, NEW k \in Turn, BeginTerminal(t, k) PROVE Heard'
  BY <1>4 DEF BeginTerminal, SetStatus, Move
<1>5. ASSUME NEW t \in Thread, NEW k \in Turn, Yield(t, k) PROVE Heard'
  BY <1>5 DEF Yield, Move
<1>6. ASSUME NEW t \in Thread, NEW k \in Turn, SetOutcome(t, k) PROVE Heard'
  BY <1>6 DEF SetOutcome, SetStatus, Move
<1>7. ASSUME NEW t \in Thread, NEW k \in Turn, WriteOutcome(t, k) PROVE Heard'
  BY <1>7 DEF WriteOutcome, Move
<1>8. ASSUME NEW t \in Thread, NEW k \in Turn, Announce(t, k) PROVE Heard'
  BY <1>8 DEF Announce, Move
<1>9. ASSUME NEW c \in Stopper, NEW t \in Thread, NEW k \in Turn, Interrupt(c, t, k)
      PROVE Heard'
  BY <1>9 DEF Interrupt, Notify
<1>10. CASE Die
  BY <1>10 DEF Die, Notify
<1>11. CASE Restart
  BY <1>11 DEF Restart, FailOrphan, Absent, NewSend, NewStop
<1>12. CASE UNCHANGED <<pump, heard>>
  BY <1>12
<1> HIDE DEF Turn, InFlight, Terminal, Status, TypeOK, RegistryType, TaskType, EngineType,
     CommandType, Session, Follower, Stopping, Heard
<1> QED
  <2>1. CASE \E t \in Thread : StartStep(t)
    BY <2>1, <1>12
    DEF StartStep, Reserve, Dedupe, AbandonStart, Promote, registry, tasks, engine
  <2>2. CASE \E t \in Thread, k \in Turn : TurnStep(t, k) \/ EndTurn(t, k) \/ Lag(t, k)
    BY <2>2, <1>1, <1>4, <1>5, <1>6, <1>7, <1>8, <1>2, <1>3, <1>12
    DEF TurnStep, Connect, Accept, SetRunning, FailTurn, PersistFailure, registry, tasks,
        engine
  <2>3. CASE \E s \in Sender, t \in Thread : SendStep(s, t)
    BY <2>3, <1>12
    DEF SendStep, OpenFollowUp, Rehydrate, BeginResume, RefuseResume, registry, tasks,
        engine
  <2>4. CASE \E c \in Stopper, t \in Thread : StopStep(c, t)
    BY <2>4, <1>9, <1>12
    DEF StopStep, FindTarget, FindNothing, BeginInterrupt, AlreadyHandled, GiveUpInterrupt,
        registry, tasks, engine
  <2>5. CASE Die \/ Restart
    BY <2>5, <1>10, <1>11
  <2>6. CASE UNCHANGED vars
    BY <2>6, <1>12 DEF vars, registry, tasks, engine
  <2> QED BY <2>1, <2>2, <2>3, <2>4, <2>5, <2>6 DEF Next

\* Nothing interferes with a first turn before set_running.
LEMMA FirstTurnStep ==
  ASSUME TypeOK, Targets, Working, Heard, FirstTurn, Rehydrated, [Next]_vars
  PROVE  FirstTurn'
PROOF
<1> USE ThreadAssumption, PairAssumption, TurnAssumption
       DEF registry, tasks, engine, Turn, InFlight, Terminal, Status,
           TypeOK, RegistryType, TaskType, EngineType, CommandType,
           Session, Follower, Stopping, Targets, Working, Heard,
           FirstTurn, Rehydrated, ActiveDrive, ActivePump
<1>0. 1 \in Turn OBVIOUS
<1> USE <1>0
<1>1. ASSUME NEW t \in Thread, Reserve(t) PROVE FirstTurn'
  BY <1>1 DEF Reserve, Covered, Drive
<1>2. ASSUME NEW t \in Thread, Dedupe(t) PROVE FirstTurn'
  BY <1>2 DEF Dedupe, Drive
<1>3. ASSUME NEW t \in Thread, AbandonStart(t) PROVE FirstTurn'
  BY <1>3 DEF AbandonStart, Drive
<1>4. ASSUME NEW t \in Thread, Promote(t) PROVE FirstTurn'
  BY <1>4 DEF Promote, Drive
<1>5. ASSUME NEW s \in Sender, NEW t \in Thread, Rehydrate(s, t) PROVE FirstTurn'
  <2>1. /\ send[s].copy \in Terminal /\ turns[t] # 0 /\ drive[t][1] = "over"
        /\ mem' = [mem EXCEPT ![t] = [status |-> send[s].copy, turn |-> 0]]
    BY <1>5 DEF Rehydrate
  <2>2. \A u \in Thread : mem'[u].status = IF u = t THEN send[s].copy ELSE mem[u].status
    BY <2>1
  <2> QED BY <1>5, <2>1, <2>2 DEF Rehydrate
<1>6. ASSUME NEW s \in Sender, NEW t \in Thread, BeginResume(s, t) PROVE FirstTurn'
  BY <1>6 DEF BeginResume, NewSend, Drive, SetStatus
<1>7. ASSUME NEW t \in Thread, NEW k \in Turn, Connect(t, k) PROVE FirstTurn'
  BY <1>7 DEF Connect, Drive
<1>8. ASSUME NEW t \in Thread, NEW k \in Turn, Accept(t, k) PROVE FirstTurn'
  BY <1>8 DEF Accept, Drive
<1>9. ASSUME NEW t \in Thread, NEW k \in Turn, SetRunning(t, k) PROVE FirstTurn'
  BY <1>9 DEF SetRunning, Drive
<1>10. ASSUME NEW t \in Thread, NEW k \in Turn, SpawnPump(t, k) PROVE FirstTurn'
  BY <1>10 DEF SpawnPump, Drive
<1>11. ASSUME NEW t \in Thread, NEW k \in Turn, FailTurn(t, k) PROVE FirstTurn'
  BY <1>11 DEF FailTurn, SetStatus
<1>12. ASSUME NEW t \in Thread, NEW k \in Turn, PersistFailure(t, k) PROVE FirstTurn'
  BY <1>12 DEF PersistFailure, Drive
<1>13. ASSUME NEW t \in Thread, NEW k \in Turn, BeginTerminal(t, k) PROVE FirstTurn'
  BY <1>13 DEF BeginTerminal, SetStatus, Move
<1>14. ASSUME NEW t \in Thread, NEW k \in Turn, Yield(t, k) PROVE FirstTurn'
  BY <1>14 DEF Yield, Move
<1>15. ASSUME NEW t \in Thread, NEW k \in Turn, SetOutcome(t, k) PROVE FirstTurn'
  <2>1. heard[t][k] \in Terminal BY <1>15 DEF SetOutcome, SetStatus, Move, Heard
  <2> QED BY <1>15, <2>1 DEF SetOutcome, SetStatus, Move
<1>16. ASSUME NEW t \in Thread, NEW k \in Turn, WriteOutcome(t, k) PROVE FirstTurn'
  BY <1>16 DEF WriteOutcome, Move
<1>17. ASSUME NEW t \in Thread, NEW k \in Turn, Announce(t, k) PROVE FirstTurn'
  BY <1>17 DEF Announce, Move
<1>18. ASSUME NEW c \in Stopper, NEW t \in Thread, BeginInterrupt(c, t) PROVE FirstTurn'
  BY <1>18 DEF BeginInterrupt, SetStatus
<1>19. ASSUME NEW c \in Stopper, NEW t \in Thread, GiveUpInterrupt(c, t) PROVE FirstTurn'
  BY <1>19 DEF GiveUpInterrupt, Rollback, SetStatus
<1>20. CASE Restart
  BY <1>20 DEF Restart, FailOrphan, Absent, NewSend, NewStop
<1>21. CASE UNCHANGED <<drive, turns, mem, pump>>
  BY <1>21
<1> HIDE DEF Turn, InFlight, Terminal, Status, TypeOK, RegistryType, TaskType, EngineType,
     CommandType, Session, Follower, Stopping, Targets, Working, Heard, FirstTurn,
     Rehydrated, ActiveDrive, ActivePump
<1> QED
  <2>1. CASE \E t \in Thread : StartStep(t)
    BY <2>1, <1>1, <1>2, <1>3, <1>4, <1>21
    DEF StartStep
  <2>2. CASE \E t \in Thread, k \in Turn : TurnStep(t, k) \/ EndTurn(t, k) \/ Lag(t, k)
    BY <2>2, <1>7, <1>8, <1>9, <1>10, <1>11, <1>12, <1>13, <1>14, <1>15, <1>16, <1>17, <1>21
    DEF TurnStep, EndTurn, Lag, registry, tasks, engine
  <2>3. CASE \E s \in Sender, t \in Thread : SendStep(s, t)
    BY <2>3, <1>5, <1>6, <1>21
    DEF SendStep, OpenFollowUp, RefuseResume, registry, tasks, engine
  <2>4. CASE \E c \in Stopper, t \in Thread : StopStep(c, t)
    BY <2>4, <1>18, <1>19, <1>21
    DEF StopStep, FindTarget, FindNothing, AlreadyHandled, Interrupt, registry, tasks,
        engine
  <2>5. CASE Die \/ Restart
    BY <2>5, <1>20, <1>21
    DEF Die, registry, tasks, engine
  <2>6. CASE UNCHANGED vars
    BY <2>6, <1>21 DEF vars, registry, tasks, engine
  <2> QED BY <2>1, <2>2, <2>3, <2>4, <2>5, <2>6 DEF Next

\* A session is rehydrated only as one that has ended.
LEMMA RehydratedStep ==
  ASSUME TypeOK, Targets, Working, Heard, Rehydrated, [Next]_vars
  PROVE  Rehydrated'
PROOF
<1> USE ThreadAssumption, PairAssumption, TurnAssumption
       DEF registry, tasks, engine, Turn, InFlight, Terminal, Status,
           TypeOK, RegistryType, TaskType, EngineType, CommandType,
           Session, Follower, Stopping, Targets, Working, Heard,
           Rehydrated, ActiveDrive, ActivePump
<1>0. 1 \in Turn OBVIOUS
<1> USE <1>0
<1>1. ASSUME NEW t \in Thread, Reserve(t) PROVE Rehydrated'
  BY <1>1 DEF Reserve, Covered, Drive
<1>2. ASSUME NEW t \in Thread, Dedupe(t) PROVE Rehydrated'
  BY <1>2 DEF Dedupe, Drive
<1>3. ASSUME NEW t \in Thread, AbandonStart(t) PROVE Rehydrated'
  BY <1>3 DEF AbandonStart, Drive
<1>4. ASSUME NEW t \in Thread, Promote(t) PROVE Rehydrated'
  BY <1>4 DEF Promote, Drive
<1>5. ASSUME NEW s \in Sender, NEW t \in Thread, OpenFollowUp(s, t) PROVE Rehydrated'
  <2>1. mem[t] = Absent => mem[t].status = "none" BY DEF Absent
  <2>2. row[t] # "none" BY <1>5 DEF OpenFollowUp
  <2>3. mem[t].status = "none" => row[t] \in Terminal /\ turns[t] # 0 /\ drive[t][1] = "over"
    BY <2>2
  <2> QED BY <1>5, <2>1, <2>2, <2>3 DEF OpenFollowUp
<1>6. ASSUME NEW s \in Sender, NEW t \in Thread, Rehydrate(s, t) PROVE Rehydrated'
  <2>1. /\ send[s].copy \in Terminal /\ turns[t] # 0 /\ drive[t][1] = "over"
        /\ mem' = [mem EXCEPT ![t] = [status |-> send[s].copy, turn |-> 0]]
    BY <1>6 DEF Rehydrate
  <2>2. \A u \in Thread : mem'[u].status = IF u = t THEN send[s].copy ELSE mem[u].status
    BY <2>1
  <2> QED BY <1>6, <2>1, <2>2 DEF Rehydrate
<1>7. ASSUME NEW s \in Sender, NEW t \in Thread, BeginResume(s, t) PROVE Rehydrated'
  BY <1>7 DEF BeginResume, NewSend, Drive, SetStatus
<1>8. ASSUME NEW s \in Sender, RefuseResume(s) PROVE Rehydrated'
  BY <1>8 DEF RefuseResume, NewSend
<1>9. ASSUME NEW t \in Thread, NEW k \in Turn, Connect(t, k) PROVE Rehydrated'
  BY <1>9 DEF Connect, Drive
<1>10. ASSUME NEW t \in Thread, NEW k \in Turn, Accept(t, k) PROVE Rehydrated'
  BY <1>10 DEF Accept, Drive
<1>11. ASSUME NEW t \in Thread, NEW k \in Turn, SetRunning(t, k) PROVE Rehydrated'
  BY <1>11 DEF SetRunning, Drive
<1>12. ASSUME NEW t \in Thread, NEW k \in Turn, SpawnPump(t, k) PROVE Rehydrated'
  BY <1>12 DEF SpawnPump, Drive
<1>13. ASSUME NEW t \in Thread, NEW k \in Turn, FailTurn(t, k) PROVE Rehydrated'
  BY <1>13 DEF FailTurn, SetStatus
<1>14. ASSUME NEW t \in Thread, NEW k \in Turn, PersistFailure(t, k) PROVE Rehydrated'
  BY <1>14 DEF PersistFailure, Drive
<1>15. ASSUME NEW t \in Thread, NEW k \in Turn, BeginTerminal(t, k) PROVE Rehydrated'
  BY <1>15 DEF BeginTerminal, SetStatus, Move
<1>16. ASSUME NEW t \in Thread, NEW k \in Turn, SetOutcome(t, k) PROVE Rehydrated'
  <2>1. heard[t][k] \in Terminal BY <1>16 DEF SetOutcome, SetStatus, Move, Heard
  <2> QED BY <1>16, <2>1 DEF SetOutcome, SetStatus, Move
<1>17. ASSUME NEW t \in Thread, NEW k \in Turn, WriteOutcome(t, k) PROVE Rehydrated'
  BY <1>17 DEF WriteOutcome, Move
<1>18. ASSUME NEW c \in Stopper, NEW t \in Thread, BeginInterrupt(c, t) PROVE Rehydrated'
  BY <1>18 DEF BeginInterrupt, SetStatus
<1>19. ASSUME NEW c \in Stopper, NEW t \in Thread, GiveUpInterrupt(c, t) PROVE Rehydrated'
  BY <1>19 DEF GiveUpInterrupt, Rollback, SetStatus
<1>20. CASE Restart
  BY <1>20 DEF Restart, FailOrphan, Absent, NewSend, NewStop
<1>21. CASE UNCHANGED <<mem, row, send, turns, drive>>
  BY <1>21
<1> HIDE DEF Turn, InFlight, Terminal, Status, TypeOK, RegistryType, TaskType, EngineType,
     CommandType, Session, Follower, Stopping, Targets, Working, Heard, Rehydrated,
     ActiveDrive, ActivePump
<1> QED
  <2>1. CASE \E t \in Thread : StartStep(t)
    BY <2>1, <1>1, <1>2, <1>3, <1>4, <1>21
    DEF StartStep
  <2>2. CASE \E t \in Thread, k \in Turn : TurnStep(t, k) \/ EndTurn(t, k) \/ Lag(t, k)
    BY <2>2, <1>9, <1>10, <1>11, <1>12, <1>13, <1>14, <1>15, <1>16, <1>17, <1>21
    DEF TurnStep, Yield, Announce, EndTurn, Lag, registry, tasks, engine
  <2>3. CASE \E s \in Sender, t \in Thread : SendStep(s, t)
    BY <2>3, <1>5, <1>6, <1>7, <1>8, <1>21
    DEF SendStep
  <2>4. CASE \E c \in Stopper, t \in Thread : StopStep(c, t)
    BY <2>4, <1>18, <1>19, <1>21
    DEF StopStep, FindTarget, FindNothing, AlreadyHandled, Interrupt, registry, tasks,
        engine
  <2>5. CASE Die \/ Restart
    BY <2>5, <1>20, <1>21
    DEF Die, registry, tasks, engine
  <2>6. CASE UNCHANGED vars
    BY <2>6, <1>21 DEF vars, registry, tasks, engine
  <2> QED BY <2>1, <2>2, <2>3, <2>4, <2>5, <2>6 DEF Next

\* A reservation is released only by the start that holds it.
LEMMA ReservationsStep ==
  ASSUME TypeOK, Reservations, NoDoubleStart, [Next]_vars
  PROVE  Reservations'
PROOF
<1> USE ThreadAssumption, PairAssumption, TurnAssumption
       DEF registry, tasks, engine, Turn, InFlight, Terminal, Status,
           TypeOK, RegistryType, TaskType, EngineType, CommandType,
           Session, Follower, Stopping, Reservations, NoDoubleStart, Reviewing
<1>0. 1 \in Turn OBVIOUS
<1> USE <1>0
<1>1. ASSUME NEW t \in Thread, Reserve(t) PROVE Reservations'
  BY <1>1 DEF Reserve, Covered, Drive
<1>2. ASSUME NEW t \in Thread, Dedupe(t) PROVE Reservations'
  BY <1>2 DEF Dedupe, Drive
<1>3. ASSUME NEW t \in Thread, AbandonStart(t) PROVE Reservations'
  BY <1>3 DEF AbandonStart, Drive
<1>4. ASSUME NEW t \in Thread, Promote(t) PROVE Reservations'
  BY <1>4 DEF Promote, Drive
<1>5. ASSUME NEW s \in Sender, NEW t \in Thread, BeginResume(s, t) PROVE Reservations'
  BY <1>5 DEF BeginResume, NewSend, Drive, SetStatus
<1>6. ASSUME NEW t \in Thread, NEW k \in Turn, Connect(t, k) PROVE Reservations'
  BY <1>6 DEF Connect, Drive
<1>7. ASSUME NEW t \in Thread, NEW k \in Turn, Accept(t, k) PROVE Reservations'
  BY <1>7 DEF Accept, Drive
<1>8. ASSUME NEW t \in Thread, NEW k \in Turn, SetRunning(t, k) PROVE Reservations'
  BY <1>8 DEF SetRunning, Drive
<1>9. ASSUME NEW t \in Thread, NEW k \in Turn, SpawnPump(t, k) PROVE Reservations'
  BY <1>9 DEF SpawnPump, Drive
<1>10. ASSUME NEW t \in Thread, NEW k \in Turn, FailTurn(t, k) PROVE Reservations'
  BY <1>10 DEF FailTurn, SetStatus
<1>11. ASSUME NEW t \in Thread, NEW k \in Turn, PersistFailure(t, k) PROVE Reservations'
  BY <1>11 DEF PersistFailure, Drive
<1>12. CASE Restart
  BY <1>12 DEF Restart, FailOrphan, Absent, NewSend, NewStop
<1>13. CASE UNCHANGED <<drive, reserved>>
  BY <1>13
<1> HIDE DEF Turn, InFlight, Terminal, Status, TypeOK, RegistryType, TaskType, EngineType,
     CommandType, Session, Follower, Stopping, Reservations, NoDoubleStart, Reviewing
<1> QED
  <2>1. CASE \E t \in Thread : StartStep(t)
    BY <2>1, <1>1, <1>2, <1>3, <1>4, <1>13
    DEF StartStep
  <2>2. CASE \E t \in Thread, k \in Turn : TurnStep(t, k) \/ EndTurn(t, k) \/ Lag(t, k)
    BY <2>2, <1>6, <1>7, <1>8, <1>9, <1>10, <1>11, <1>13
    DEF TurnStep, BeginTerminal, Yield, SetOutcome, WriteOutcome, Announce, EndTurn, Lag,
        registry, tasks, engine
  <2>3. CASE \E s \in Sender, t \in Thread : SendStep(s, t)
    BY <2>3, <1>5, <1>13
    DEF SendStep, OpenFollowUp, Rehydrate, RefuseResume, registry, tasks, engine
  <2>4. CASE \E c \in Stopper, t \in Thread : StopStep(c, t)
    BY <2>4, <1>13
    DEF StopStep, FindTarget, FindNothing, BeginInterrupt, AlreadyHandled, GiveUpInterrupt,
        Interrupt, registry, tasks, engine
  <2>5. CASE Die \/ Restart
    BY <2>5, <1>12, <1>13
    DEF Die, registry, tasks, engine
  <2>6. CASE UNCHANGED vars
    BY <2>6, <1>13 DEF vars, registry, tasks, engine
  <2> QED BY <2>1, <2>2, <2>3, <2>4, <2>5, <2>6 DEF Next

\* No step makes a second review of a pair.
LEMMA OnceStep ==
  ASSUME TypeOK, Targets, Working, Heard, FirstTurn, Rehydrated, Reservations,
         NoDoubleStart, [Next]_vars
  PROVE  NoDoubleStart'
PROOF
<1> USE ThreadAssumption, PairAssumption, TurnAssumption
       DEF registry, tasks, engine, Turn, InFlight, Terminal, Status,
           TypeOK, RegistryType, TaskType, EngineType, CommandType,
           Session, Follower, Stopping, Targets, Working, Heard,
           FirstTurn, Rehydrated, Reservations, ActiveDrive, NoDoubleStart, Reviewing
<1>0. 1 \in Turn OBVIOUS
<1> USE <1>0
<1>1. ASSUME NEW t \in Thread, Reserve(t) PROVE NoDoubleStart'
  BY <1>1 DEF Reserve, Covered, Drive
<1>2. ASSUME NEW t \in Thread, Dedupe(t) PROVE NoDoubleStart'
  BY <1>2 DEF Dedupe, Drive
<1>3. ASSUME NEW t \in Thread, AbandonStart(t) PROVE NoDoubleStart'
  BY <1>3 DEF AbandonStart, Drive
<1>4. ASSUME NEW t \in Thread, Promote(t) PROVE NoDoubleStart'
  BY <1>4 DEF Promote, Drive
<1>5. ASSUME NEW s \in Sender, NEW t \in Thread, Rehydrate(s, t) PROVE NoDoubleStart'
  <2>1. /\ send[s].copy \in Terminal /\ turns[t] # 0 /\ drive[t][1] = "over"
        /\ mem' = [mem EXCEPT ![t] = [status |-> send[s].copy, turn |-> 0]]
    BY <1>5 DEF Rehydrate
  <2>2. \A u \in Thread : mem'[u].status = IF u = t THEN send[s].copy ELSE mem[u].status
    BY <2>1
  <2> QED BY <1>5, <2>1, <2>2 DEF Rehydrate
<1>6. ASSUME NEW s \in Sender, NEW t \in Thread, BeginResume(s, t) PROVE NoDoubleStart'
  BY <1>6 DEF BeginResume, NewSend, Drive, SetStatus
<1>7. ASSUME NEW t \in Thread, NEW k \in Turn, Connect(t, k) PROVE NoDoubleStart'
  BY <1>7 DEF Connect, Drive
<1>8. ASSUME NEW t \in Thread, NEW k \in Turn, Accept(t, k) PROVE NoDoubleStart'
  BY <1>8 DEF Accept, Drive
<1>9. ASSUME NEW t \in Thread, NEW k \in Turn, SetRunning(t, k) PROVE NoDoubleStart'
  BY <1>9 DEF SetRunning, Drive
<1>10. ASSUME NEW t \in Thread, NEW k \in Turn, SpawnPump(t, k) PROVE NoDoubleStart'
  BY <1>10 DEF SpawnPump, Drive
<1>11. ASSUME NEW t \in Thread, NEW k \in Turn, FailTurn(t, k) PROVE NoDoubleStart'
  BY <1>11 DEF FailTurn, SetStatus
<1>12. ASSUME NEW t \in Thread, NEW k \in Turn, PersistFailure(t, k) PROVE NoDoubleStart'
  BY <1>12 DEF PersistFailure, Drive
<1>13. ASSUME NEW t \in Thread, NEW k \in Turn, BeginTerminal(t, k) PROVE NoDoubleStart'
  BY <1>13 DEF BeginTerminal, SetStatus, Move
<1>14. ASSUME NEW t \in Thread, NEW k \in Turn, SetOutcome(t, k) PROVE NoDoubleStart'
  <2>1. heard[t][k] \in Terminal BY <1>14 DEF SetOutcome, SetStatus, Move, Heard
  <2> QED BY <1>14, <2>1 DEF SetOutcome, SetStatus, Move
<1>15. ASSUME NEW c \in Stopper, NEW t \in Thread, BeginInterrupt(c, t) PROVE NoDoubleStart'
  BY <1>15 DEF BeginInterrupt, SetStatus
<1>16. ASSUME NEW c \in Stopper, NEW t \in Thread, GiveUpInterrupt(c, t) PROVE NoDoubleStart'
  BY <1>16 DEF GiveUpInterrupt, Rollback, SetStatus
<1>17. CASE Restart
  BY <1>17 DEF Restart, FailOrphan, Absent, NewSend, NewStop
<1>18. CASE UNCHANGED <<drive, turns, mem>>
  BY <1>18
<1> HIDE DEF Turn, InFlight, Terminal, Status, TypeOK, RegistryType, TaskType, EngineType,
     CommandType, Session, Follower, Stopping, Targets, Working, Heard, FirstTurn,
     Rehydrated, Reservations, ActiveDrive, NoDoubleStart, Reviewing
<1> QED
  <2>1. CASE \E t \in Thread : StartStep(t)
    BY <2>1, <1>1, <1>2, <1>3, <1>4, <1>18
    DEF StartStep
  <2>2. CASE \E t \in Thread, k \in Turn : TurnStep(t, k) \/ EndTurn(t, k) \/ Lag(t, k)
    BY <2>2, <1>7, <1>8, <1>9, <1>10, <1>11, <1>12, <1>13, <1>14, <1>18
    DEF TurnStep, Yield, WriteOutcome, Announce, EndTurn, Lag, registry, tasks, engine
  <2>3. CASE \E s \in Sender, t \in Thread : SendStep(s, t)
    BY <2>3, <1>5, <1>6, <1>18
    DEF SendStep, OpenFollowUp, RefuseResume, registry, tasks, engine
  <2>4. CASE \E c \in Stopper, t \in Thread : StopStep(c, t)
    BY <2>4, <1>15, <1>16, <1>18
    DEF StopStep, FindTarget, FindNothing, AlreadyHandled, Interrupt, registry, tasks,
        engine
  <2>5. CASE Die \/ Restart
    BY <2>5, <1>17, <1>18
    DEF Die, registry, tasks, engine
  <2>6. CASE UNCHANGED vars
    BY <2>6, <1>18 DEF vars, registry, tasks, engine
  <2> QED BY <2>1, <2>2, <2>3, <2>4, <2>5, <2>6 DEF Next

\* Every way out of a start gives its reservation back.
LEMMA LeakStep ==
  ASSUME TypeOK, NoLeakedReservation, [Next]_vars
  PROVE  NoLeakedReservation'
PROOF
<1> USE ThreadAssumption, PairAssumption, TurnAssumption
       DEF registry, tasks, engine, Turn, InFlight, Terminal, Status,
           TypeOK, RegistryType, TaskType, EngineType, CommandType,
           Session, Follower, Stopping, NoLeakedReservation
<1>0. 1 \in Turn OBVIOUS
<1> USE <1>0
<1>1. ASSUME NEW t \in Thread, Reserve(t) PROVE NoLeakedReservation'
  BY <1>1 DEF Reserve, Covered, Drive
<1>2. ASSUME NEW t \in Thread, Dedupe(t) PROVE NoLeakedReservation'
  BY <1>2 DEF Dedupe, Drive
<1>3. ASSUME NEW t \in Thread, AbandonStart(t) PROVE NoLeakedReservation'
  BY <1>3 DEF AbandonStart, Drive
<1>4. ASSUME NEW t \in Thread, Promote(t) PROVE NoLeakedReservation'
  BY <1>4 DEF Promote, Drive
<1>5. ASSUME NEW s \in Sender, NEW t \in Thread, BeginResume(s, t) PROVE NoLeakedReservation'
  BY <1>5 DEF BeginResume, NewSend, Drive, SetStatus
<1>6. ASSUME NEW t \in Thread, NEW k \in Turn, Connect(t, k) PROVE NoLeakedReservation'
  <2> SUFFICES ASSUME NEW p \in reserved
               PROVE  \E u \in Thread : PairOf[u] = p /\ drive'[u][1] = "reserved"
    BY <1>6 DEF Connect
  <2>1. PICK u \in Thread : PairOf[u] = p /\ drive[u][1] = "reserved"
    OBVIOUS
  <2>2. drive'[u][1] = "reserved"
    BY <1>6, <2>1 DEF Connect, Drive
  <2> QED BY <2>1, <2>2
<1>7. ASSUME NEW t \in Thread, NEW k \in Turn, Accept(t, k) PROVE NoLeakedReservation'
  <2> SUFFICES ASSUME NEW p \in reserved
               PROVE  \E u \in Thread : PairOf[u] = p /\ drive'[u][1] = "reserved"
    BY <1>7 DEF Accept
  <2>1. PICK u \in Thread : PairOf[u] = p /\ drive[u][1] = "reserved"
    OBVIOUS
  <2>2. drive'[u][1] = "reserved"
    BY <1>7, <2>1 DEF Accept, Drive
  <2> QED BY <2>1, <2>2
<1>8. ASSUME NEW t \in Thread, NEW k \in Turn, SetRunning(t, k) PROVE NoLeakedReservation'
  <2> SUFFICES ASSUME NEW p \in reserved
               PROVE  \E u \in Thread : PairOf[u] = p /\ drive'[u][1] = "reserved"
    BY <1>8 DEF SetRunning
  <2>1. PICK u \in Thread : PairOf[u] = p /\ drive[u][1] = "reserved"
    OBVIOUS
  <2>2. drive'[u][1] = "reserved"
    BY <1>8, <2>1 DEF SetRunning, Drive
  <2> QED BY <2>1, <2>2
<1>9. ASSUME NEW t \in Thread, NEW k \in Turn, SpawnPump(t, k) PROVE NoLeakedReservation'
  BY <1>9 DEF SpawnPump, Drive
<1>10. ASSUME NEW t \in Thread, NEW k \in Turn, FailTurn(t, k) PROVE NoLeakedReservation'
  <2> SUFFICES ASSUME NEW p \in reserved
               PROVE  \E u \in Thread : PairOf[u] = p /\ drive'[u][1] = "reserved"
    BY <1>10 DEF FailTurn
  <2>1. PICK u \in Thread : PairOf[u] = p /\ drive[u][1] = "reserved"
    OBVIOUS
  <2>2. drive'[u][1] = "reserved"
    BY <1>10, <2>1 DEF FailTurn, SetStatus
  <2> QED BY <2>1, <2>2
<1>11. ASSUME NEW t \in Thread, NEW k \in Turn, PersistFailure(t, k) PROVE NoLeakedReservation'
  BY <1>11 DEF PersistFailure, Drive
<1>12. CASE Restart
  BY <1>12 DEF Restart, FailOrphan, Absent, NewSend, NewStop
<1>13. CASE UNCHANGED <<reserved, drive>>
  BY <1>13
<1> HIDE DEF Turn, InFlight, Terminal, Status, TypeOK, RegistryType, TaskType, EngineType,
     CommandType, Session, Follower, Stopping, NoLeakedReservation
<1> QED
  <2>1. CASE \E t \in Thread : StartStep(t)
    BY <2>1, <1>1, <1>2, <1>3, <1>4, <1>13
    DEF StartStep
  <2>2. CASE \E t \in Thread, k \in Turn : TurnStep(t, k) \/ EndTurn(t, k) \/ Lag(t, k)
    BY <2>2, <1>6, <1>7, <1>8, <1>9, <1>10, <1>11, <1>13
    DEF TurnStep, BeginTerminal, Yield, SetOutcome, WriteOutcome, Announce, EndTurn, Lag,
        registry, tasks, engine
  <2>3. CASE \E s \in Sender, t \in Thread : SendStep(s, t)
    BY <2>3, <1>5, <1>13
    DEF SendStep, OpenFollowUp, Rehydrate, RefuseResume, registry, tasks, engine
  <2>4. CASE \E c \in Stopper, t \in Thread : StopStep(c, t)
    BY <2>4, <1>13
    DEF StopStep, FindTarget, FindNothing, BeginInterrupt, AlreadyHandled, GiveUpInterrupt,
        Interrupt, registry, tasks, engine
  <2>5. CASE Die \/ Restart
    BY <2>5, <1>12, <1>13
    DEF Die, registry, tasks, engine
  <2>6. CASE UNCHANGED vars
    BY <2>6, <1>13 DEF vars, registry, tasks, engine
  <2> QED BY <2>1, <2>2, <2>3, <2>4, <2>5, <2>6 DEF Next

\* While no follow-up was let in, work on a turn is work on the first.
LEMMA OnlyTurn ==
  ASSUME TypeOK, Working, PumpAfterDrive, NEW t \in Thread, NEW k \in Turn, turns[t] = 1,
         drive[t][k] # "none" \/ pump[t][k] # "none"
  PROVE  k = 1
PROOF
<1>1. drive[t][k] # "none" BY DEF PumpAfterDrive
<1>2. k = 1 \/ k <= turns[t] BY <1>1 DEF Working
<1> QED BY <1>2, TurnAssumption DEF Turn

\* A session leaves the registry only by a restart, and a status is never reset.
LEMMA BlankStep ==
  ASSUME TypeOK, Targets, Working, Heard, Rehydrated, Blank, [Next]_vars
  PROVE  Blank'
PROOF
<1> USE ThreadAssumption, PairAssumption, TurnAssumption
       DEF registry, tasks, engine, Turn, InFlight, Terminal, Status,
           TypeOK, RegistryType, TaskType, EngineType, CommandType,
           Session, Follower, Stopping, Targets, Working,
           Heard, Rehydrated, Blank, ActiveDrive, ActivePump
<1>0. 1 \in Turn OBVIOUS
<1> USE <1>0
<1>1. ASSUME NEW t \in Thread, Promote(t) PROVE Blank'
  BY <1>1 DEF Promote, Drive
<1>2. ASSUME NEW s \in Sender, NEW t \in Thread, Rehydrate(s, t) PROVE Blank'
  <2>1. /\ send[s].copy \in Terminal /\ send[s].thread = t
        /\ mem' = [mem EXCEPT ![t] = [status |-> send[s].copy, turn |-> 0]]
    BY <1>2 DEF Rehydrate
  <2>2. \A u \in Thread : u # t => mem'[u] = mem[u]
    BY <2>1
  <2>3. mem'[t].status # "none"
    BY <2>1
  <2> QED BY <2>2, <2>3
<1>3. ASSUME NEW s \in Sender, NEW t \in Thread, BeginResume(s, t) PROVE Blank'
  BY <1>3 DEF BeginResume, NewSend, Drive, SetStatus
<1>4. ASSUME NEW t \in Thread, NEW k \in Turn, SetRunning(t, k) PROVE Blank'
  BY <1>4 DEF SetRunning, Drive
<1>5. ASSUME NEW t \in Thread, NEW k \in Turn, FailTurn(t, k) PROVE Blank'
  BY <1>5 DEF FailTurn, SetStatus
<1>6. ASSUME NEW t \in Thread, NEW k \in Turn, BeginTerminal(t, k) PROVE Blank'
  BY <1>6 DEF BeginTerminal, SetStatus, Move
<1>7. ASSUME NEW t \in Thread, NEW k \in Turn, SetOutcome(t, k) PROVE Blank'
  <2>1. heard[t][k] \in Terminal BY <1>7 DEF SetOutcome, Move
  <2> QED BY <1>7, <2>1 DEF SetOutcome, SetStatus, Move
<1>8. ASSUME NEW c \in Stopper, NEW t \in Thread, BeginInterrupt(c, t) PROVE Blank'
  BY <1>8 DEF BeginInterrupt, SetStatus
<1>9. ASSUME NEW c \in Stopper, NEW t \in Thread, GiveUpInterrupt(c, t) PROVE Blank'
  BY <1>9 DEF GiveUpInterrupt, Rollback, SetStatus
<1>10. CASE Restart
  BY <1>10 DEF Restart, FailOrphan, Absent, NewSend, NewStop
<1>11. CASE UNCHANGED <<mem>>
  BY <1>11
<1> HIDE DEF Turn, InFlight, Terminal, Status, TypeOK, RegistryType, TaskType, EngineType,
     CommandType, Session, Follower, Stopping, Targets, Working,
           Heard, Rehydrated, Blank, ActiveDrive, ActivePump
<1> QED
  <2>1. CASE \E t \in Thread : StartStep(t)
    BY <2>1, <1>1, <1>11
    DEF StartStep, Reserve, Dedupe, AbandonStart, registry, tasks, engine
  <2>2. CASE \E t \in Thread, k \in Turn : TurnStep(t, k) \/ EndTurn(t, k) \/ Lag(t, k)
    BY <2>2, <1>4, <1>5, <1>6, <1>7, <1>11
    DEF TurnStep, Connect, Accept, SpawnPump, PersistFailure, Yield, WriteOutcome, Announce,
        EndTurn, Lag, registry, tasks, engine
  <2>3. CASE \E s \in Sender, t \in Thread : SendStep(s, t)
    BY <2>3, <1>2, <1>3, <1>11
    DEF SendStep, OpenFollowUp, RefuseResume, registry, tasks, engine
  <2>4. CASE \E c \in Stopper, t \in Thread : StopStep(c, t)
    BY <2>4, <1>8, <1>9, <1>11
    DEF StopStep, FindTarget, FindNothing, AlreadyHandled, Interrupt, registry, tasks,
        engine
  <2>5. CASE Die \/ Restart
    BY <2>5, <1>10, <1>11
    DEF Die, registry, tasks, engine
  <2>6. CASE UNCHANGED vars
    BY <2>6, <1>11 DEF vars, registry, tasks, engine
  <2> QED BY <2>1, <2>2, <2>3, <2>4, <2>5, <2>6 DEF Next

\* A pump starts when its command is over, and no command goes on after that.
LEMMA PumpAfterDriveStep ==
  ASSUME TypeOK, Working, FirstTurn, PumpAfterDrive, [Next]_vars
  PROVE  PumpAfterDrive'
PROOF
<1> USE ThreadAssumption, PairAssumption, TurnAssumption
       DEF registry, tasks, engine, Turn, InFlight, Terminal, Status,
           TypeOK, RegistryType, TaskType, EngineType, CommandType,
           Session, Follower, Stopping, Working, FirstTurn,
           PumpAfterDrive, ActiveDrive, ActivePump
<1>0. 1 \in Turn OBVIOUS
<1> USE <1>0
<1>1. ASSUME NEW t \in Thread, Reserve(t) PROVE PumpAfterDrive'
  BY <1>1 DEF Reserve, Covered, Drive
<1>2. ASSUME NEW t \in Thread, Dedupe(t) PROVE PumpAfterDrive'
  BY <1>2 DEF Dedupe, Drive
<1>3. ASSUME NEW t \in Thread, AbandonStart(t) PROVE PumpAfterDrive'
  BY <1>3 DEF AbandonStart, Drive
<1>4. ASSUME NEW t \in Thread, Promote(t) PROVE PumpAfterDrive'
  BY <1>4 DEF Promote, Drive
<1>5. ASSUME NEW s \in Sender, NEW t \in Thread, BeginResume(s, t) PROVE PumpAfterDrive'
  BY <1>5 DEF BeginResume, NewSend, Drive, SetStatus
<1>6. ASSUME NEW t \in Thread, NEW k \in Turn, Connect(t, k) PROVE PumpAfterDrive'
  BY <1>6 DEF Connect, Drive
<1>7. ASSUME NEW t \in Thread, NEW k \in Turn, Accept(t, k) PROVE PumpAfterDrive'
  BY <1>7 DEF Accept, Drive
<1>8. ASSUME NEW t \in Thread, NEW k \in Turn, SetRunning(t, k) PROVE PumpAfterDrive'
  BY <1>8 DEF SetRunning, Drive
<1>9. ASSUME NEW t \in Thread, NEW k \in Turn, SpawnPump(t, k) PROVE PumpAfterDrive'
  BY <1>9 DEF SpawnPump, Drive
<1>10. ASSUME NEW t \in Thread, NEW k \in Turn, FailTurn(t, k) PROVE PumpAfterDrive'
  BY <1>10 DEF FailTurn, SetStatus
<1>11. ASSUME NEW t \in Thread, NEW k \in Turn, PersistFailure(t, k) PROVE PumpAfterDrive'
  BY <1>11 DEF PersistFailure, Drive
<1>12. ASSUME NEW t \in Thread, NEW k \in Turn, BeginTerminal(t, k) PROVE PumpAfterDrive'
  BY <1>12 DEF BeginTerminal, SetStatus, Move
<1>13. ASSUME NEW t \in Thread, NEW k \in Turn, Yield(t, k) PROVE PumpAfterDrive'
  BY <1>13 DEF Yield, Move
<1>14. ASSUME NEW t \in Thread, NEW k \in Turn, SetOutcome(t, k) PROVE PumpAfterDrive'
  BY <1>14 DEF SetOutcome, SetStatus, Move
<1>15. ASSUME NEW t \in Thread, NEW k \in Turn, WriteOutcome(t, k) PROVE PumpAfterDrive'
  BY <1>15 DEF WriteOutcome, Move
<1>16. ASSUME NEW t \in Thread, NEW k \in Turn, Announce(t, k) PROVE PumpAfterDrive'
  BY <1>16 DEF Announce, Move
<1>17. CASE Restart
  BY <1>17 DEF Restart, FailOrphan, Absent, NewSend, NewStop
<1>18. CASE UNCHANGED <<drive, pump>>
  BY <1>18
<1> HIDE DEF Turn, InFlight, Terminal, Status, TypeOK, RegistryType, TaskType, EngineType,
     CommandType, Session, Follower, Stopping, Working, FirstTurn,
           PumpAfterDrive, ActiveDrive, ActivePump
<1> QED
  <2>1. CASE \E t \in Thread : StartStep(t)
    BY <2>1, <1>1, <1>2, <1>3, <1>4, <1>18
    DEF StartStep
  <2>2. CASE \E t \in Thread, k \in Turn : TurnStep(t, k) \/ EndTurn(t, k) \/ Lag(t, k)
    BY <2>2, <1>6, <1>7, <1>8, <1>9, <1>10, <1>11, <1>12, <1>13, <1>14, <1>15, <1>16, <1>18
    DEF TurnStep, EndTurn, Lag, registry, tasks, engine
  <2>3. CASE \E s \in Sender, t \in Thread : SendStep(s, t)
    BY <2>3, <1>5, <1>18
    DEF SendStep, OpenFollowUp, Rehydrate, RefuseResume, registry, tasks, engine
  <2>4. CASE \E c \in Stopper, t \in Thread : StopStep(c, t)
    BY <2>4, <1>18
    DEF StopStep, FindTarget, FindNothing, BeginInterrupt, AlreadyHandled, GiveUpInterrupt,
        Interrupt, registry, tasks, engine
  <2>5. CASE Die \/ Restart
    BY <2>5, <1>17, <1>18
    DEF Die, registry, tasks, engine
  <2>6. CASE UNCHANGED vars
    BY <2>6, <1>18 DEF vars, registry, tasks, engine
  <2> QED BY <2>1, <2>2, <2>3, <2>4, <2>5, <2>6 DEF Next

\* A first turn is finished by one writer after another: the command that starts
\* it, then its pump.
LEMMA FirstOutcomeStep ==
  ASSUME TypeOK, Targets, Working, Heard, FirstTurn, Rehydrated,
         PumpAfterDrive, FirstOutcome, CopyIsRow, [Next]_vars
  PROVE  FirstOutcome'
PROOF
<1> USE ThreadAssumption, PairAssumption, TurnAssumption
       DEF registry, tasks, engine, Turn, InFlight, Terminal, Status,
           TypeOK, RegistryType, TaskType, EngineType, CommandType,
           Session, Follower, Stopping, Targets, Working,
           Heard, FirstTurn, Rehydrated, PumpAfterDrive, FirstOutcome, CopyIsRow,
           OnItsWay, ActiveDrive, ActivePump
<1>0. 1 \in Turn OBVIOUS
<1> USE <1>0
<1>1. ASSUME NEW t \in Thread, Reserve(t) PROVE FirstOutcome'
  BY <1>1 DEF Reserve, Covered, Drive
<1>2. ASSUME NEW t \in Thread, Dedupe(t) PROVE FirstOutcome'
  BY <1>2 DEF Dedupe, Drive
<1>3. ASSUME NEW t \in Thread, AbandonStart(t) PROVE FirstOutcome'
  BY <1>3 DEF AbandonStart, Drive
<1>4. ASSUME NEW t \in Thread, Promote(t) PROVE FirstOutcome'
  BY <1>4 DEF Promote, Drive
<1>5. ASSUME NEW s \in Sender, NEW t \in Thread, Rehydrate(s, t) PROVE FirstOutcome'
  <2>1. /\ send[s].copy \in Terminal /\ turns[t] # 0 /\ drive[t][1] = "over"
        /\ mem' = [mem EXCEPT ![t] = [status |-> send[s].copy, turn |-> 0]]
    BY <1>5 DEF Rehydrate
  <2>2. \A u \in Thread : mem'[u].status = IF u = t THEN send[s].copy ELSE mem[u].status
    BY <2>1
  <2> QED BY <1>5, <2>1, <2>2 DEF Rehydrate
<1>6. ASSUME NEW s \in Sender, NEW t \in Thread, BeginResume(s, t) PROVE FirstOutcome'
  BY <1>6 DEF BeginResume, NewSend, Drive, SetStatus
<1>7. ASSUME NEW t \in Thread, NEW k \in Turn, Connect(t, k) PROVE FirstOutcome'
  BY <1>7 DEF Connect, Drive
<1>8. ASSUME NEW t \in Thread, NEW k \in Turn, Accept(t, k) PROVE FirstOutcome'
  BY <1>8 DEF Accept, Drive
<1>9. ASSUME NEW t \in Thread, NEW k \in Turn, SetRunning(t, k) PROVE FirstOutcome'
  <2> HIDE DEF TypeOK, RegistryType, TaskType, EngineType, CommandType, Turn, Targets,
       Working, Heard, FirstTurn, Rehydrated, PumpAfterDrive, CopyIsRow, OnItsWay
  <2> SUFFICES ASSUME NEW u \in Thread, turns'[u] = 1, mem'[u].status # "none"
               PROVE  OnItsWay(u)'
    OBVIOUS
  <2>1. UNCHANGED <<turns, row, pump, heard>>
    BY <1>9 DEF SetRunning
  <2>2. /\ mem'[t].status = "running" /\ drive'[t][k] = "persist" /\ drive[t][k] = "accepted"
        /\ \A r \in Thread : r # t => mem'[r] = mem[r] /\ drive'[r] = drive[r]
    BY <1>9 DEF SetRunning, Drive, TypeOK, RegistryType, TaskType, Turn
  <2>3. CASE u # t
    BY <2>1, <2>2, <2>3 DEF OnItsWay
  <2>4. CASE u = t
    <3>1. k = 1 BY <2>1, <2>2, <2>4, OnlyTurn
    <3> QED BY <2>2, <2>4, <3>1 DEF OnItsWay
  <2> QED BY <2>3, <2>4
<1>10. ASSUME NEW t \in Thread, NEW k \in Turn, SpawnPump(t, k) PROVE FirstOutcome'
  <2> HIDE DEF TypeOK, RegistryType, TaskType, EngineType, CommandType, Turn, Targets,
       Working, Heard, FirstTurn, Rehydrated, PumpAfterDrive, CopyIsRow, OnItsWay
  <2> SUFFICES ASSUME NEW u \in Thread, turns'[u] = 1, mem'[u].status # "none"
               PROVE  OnItsWay(u)'
    OBVIOUS
  <2>1. UNCHANGED <<mem, turns, heard>>
    BY <1>10 DEF SpawnPump, registry
  <2>2. /\ drive[t][k] = "persist" /\ drive'[t][k] = "over" /\ pump'[t][k] = "listening"
        /\ \A r \in Thread : r # t =>
             row'[r] = row[r] /\ pump'[r] = pump[r] /\ drive'[r] = drive[r]
    BY <1>10 DEF SpawnPump, Drive, TypeOK, RegistryType, TaskType, Turn
  <2>3. CASE u # t
    BY <2>1, <2>2, <2>3 DEF OnItsWay
  <2>4. CASE u = t
    <3>1. k = 1 BY <2>1, <2>2, <2>4, OnlyTurn
    <3>2. mem[t].status \in {"running", "interrupting"} BY <2>1, <2>2, <2>4, <3>1 DEF OnItsWay
    <3> QED BY <2>1, <2>2, <2>4, <3>1, <3>2 DEF OnItsWay
  <2> QED BY <2>3, <2>4
<1>11. ASSUME NEW t \in Thread, NEW k \in Turn, FailTurn(t, k) PROVE FirstOutcome'
  <2> HIDE DEF TypeOK, RegistryType, TaskType, EngineType, CommandType, Turn, Targets,
       Working, Heard, FirstTurn, Rehydrated, PumpAfterDrive, CopyIsRow, OnItsWay
  <2> SUFFICES ASSUME NEW u \in Thread, turns'[u] = 1, mem'[u].status # "none"
               PROVE  OnItsWay(u)'
    OBVIOUS
  <2>1. UNCHANGED <<turns, row, pump, heard>>
    BY <1>11 DEF FailTurn
  <2>2. /\ mem'[t].status = "failed" /\ drive'[t][k] = "failing" /\ drive[t][k] # "none"
        /\ \A r \in Thread : r # t => mem'[r] = mem[r] /\ drive'[r] = drive[r]
    BY <1>11 DEF FailTurn, SetStatus, TypeOK, RegistryType, TaskType, Turn
  <2>3. CASE u # t
    BY <2>1, <2>2, <2>3 DEF OnItsWay
  <2>4. CASE u = t
    <3>1. k = 1 BY <2>1, <2>2, <2>4, OnlyTurn
    <3> QED BY <2>2, <2>4, <3>1 DEF OnItsWay
  <2> QED BY <2>3, <2>4
<1>12. ASSUME NEW t \in Thread, NEW k \in Turn, PersistFailure(t, k) PROVE FirstOutcome'
  BY <1>12 DEF PersistFailure, Drive
<1>13. ASSUME NEW t \in Thread, NEW k \in Turn, BeginTerminal(t, k) PROVE FirstOutcome'
  BY <1>13 DEF BeginTerminal, SetStatus, Move
<1>14. ASSUME NEW t \in Thread, NEW k \in Turn, Yield(t, k) PROVE FirstOutcome'
  BY <1>14 DEF Yield, Move
<1>15. ASSUME NEW t \in Thread, NEW k \in Turn, SetOutcome(t, k) PROVE FirstOutcome'
  <2> HIDE DEF TypeOK, RegistryType, TaskType, EngineType, CommandType, Turn, Targets,
       Working, Heard, FirstTurn, Rehydrated, PumpAfterDrive, CopyIsRow, OnItsWay
  <2> SUFFICES ASSUME NEW u \in Thread, turns'[u] = 1, mem'[u].status # "none"
               PROVE  OnItsWay(u)'
    OBVIOUS
  <2>1. UNCHANGED <<row, turns, drive, heard>>
    BY <1>15 DEF SetOutcome
  <2>2. /\ pump[t][k] = "resolving" /\ pump'[t][k] = "writing"
        /\ mem'[t].status = heard[t][k]
        /\ \A r \in Thread : r # t => mem'[r] = mem[r] /\ pump'[r] = pump[r]
    BY <1>15 DEF SetOutcome, SetStatus, Move, Heard, TypeOK, RegistryType, TaskType, Turn
  <2>3. CASE u # t
    BY <2>1, <2>2, <2>3 DEF OnItsWay
  <2>4. CASE u = t
    <3>1. k = 1 BY <2>1, <2>2, <2>4, OnlyTurn
    <3>2. drive[t][1] = "over" BY <2>2, <3>1 DEF PumpAfterDrive
    <3> QED BY <2>1, <2>2, <2>4, <3>1, <3>2 DEF OnItsWay
  <2> QED BY <2>3, <2>4
<1>16. ASSUME NEW t \in Thread, NEW k \in Turn, WriteOutcome(t, k) PROVE FirstOutcome'
  <2> HIDE DEF TypeOK, RegistryType, TaskType, EngineType, CommandType, Turn, Targets,
       Working, Heard, FirstTurn, Rehydrated, PumpAfterDrive, CopyIsRow, OnItsWay
  <2> SUFFICES ASSUME NEW u \in Thread, turns'[u] = 1, mem'[u].status # "none"
               PROVE  OnItsWay(u)'
    OBVIOUS
  <2>1. UNCHANGED <<mem, turns, drive, heard>>
    BY <1>16 DEF WriteOutcome, registry
  <2>2. /\ pump[t][k] = "writing" /\ pump'[t][k] = "announcing"
        /\ row'[t] = heard[t][k] /\ heard[t][k] \in Terminal
        /\ \A r \in Thread : r # t => row'[r] = row[r] /\ pump'[r] = pump[r]
    BY <1>16 DEF WriteOutcome, Move, Heard, TypeOK, RegistryType, TaskType, Turn
  <2>3. CASE u # t
    BY <2>1, <2>2, <2>3 DEF OnItsWay
  <2>4. CASE u = t
    <3>1. k = 1 BY <2>1, <2>2, <2>4, OnlyTurn
    <3>2. drive[t][1] = "over" BY <2>2, <3>1 DEF PumpAfterDrive
    <3>3. mem[t].status = heard[t][1] BY <2>1, <2>2, <2>4, <3>1, <3>2 DEF OnItsWay
    <3> QED BY <2>1, <2>2, <2>4, <3>1, <3>2, <3>3 DEF OnItsWay
  <2> QED BY <2>3, <2>4
<1>17. ASSUME NEW t \in Thread, NEW k \in Turn, Announce(t, k) PROVE FirstOutcome'
  BY <1>17 DEF Announce, Move
<1>18. ASSUME NEW t \in Thread, NEW k \in Turn, EndTurn(t, k) PROVE FirstOutcome'
  BY <1>18 DEF EndTurn, Notify, Receivers
<1>19. ASSUME NEW t \in Thread, NEW k \in Turn, Lag(t, k) PROVE FirstOutcome'
  BY <1>19 DEF Lag
<1>20. ASSUME NEW c \in Stopper, NEW t \in Thread, BeginInterrupt(c, t) PROVE FirstOutcome'
  BY <1>20 DEF BeginInterrupt, SetStatus
<1>21. ASSUME NEW c \in Stopper, NEW t \in Thread, GiveUpInterrupt(c, t) PROVE FirstOutcome'
  BY <1>21 DEF GiveUpInterrupt, Rollback, SetStatus
<1>22. ASSUME NEW c \in Stopper, NEW t \in Thread, NEW k \in Turn, Interrupt(c, t, k)
      PROVE FirstOutcome'
  BY <1>22 DEF Interrupt, Notify, Receivers
<1>23. CASE Die
  BY <1>23 DEF Die, Notify, Receivers
<1>24. CASE Restart
  BY <1>24 DEF Restart, FailOrphan, Absent, NewSend, NewStop
<1>25. CASE UNCHANGED <<mem, row, turns, drive, pump, heard>>
  BY <1>25
<1> HIDE DEF Turn, InFlight, Terminal, Status, TypeOK, RegistryType, TaskType, EngineType,
     CommandType, Session, Follower, Stopping, Targets, Working,
           Heard, FirstTurn, Rehydrated, PumpAfterDrive, FirstOutcome, CopyIsRow,
           OnItsWay, ActiveDrive, ActivePump
<1> QED
  <2>1. CASE \E t \in Thread : StartStep(t)
    BY <2>1, <1>1, <1>2, <1>3, <1>4, <1>25
    DEF StartStep
  <2>2. CASE \E t \in Thread, k \in Turn : TurnStep(t, k) \/ EndTurn(t, k) \/ Lag(t, k)
    BY <2>2, <1>7, <1>8, <1>9, <1>10, <1>11, <1>12, <1>13, <1>14, <1>15, <1>16, <1>17,
       <1>18, <1>19, <1>25
    DEF TurnStep
  <2>3. CASE \E s \in Sender, t \in Thread : SendStep(s, t)
    BY <2>3, <1>5, <1>6, <1>25
    DEF SendStep, OpenFollowUp, RefuseResume, registry, tasks, engine
  <2>4. CASE \E c \in Stopper, t \in Thread : StopStep(c, t)
    BY <2>4, <1>20, <1>21, <1>22, <1>25
    DEF StopStep, FindTarget, FindNothing, AlreadyHandled, registry, tasks, engine
  <2>5. CASE Die \/ Restart
    BY <2>5, <1>23, <1>24
  <2>6. CASE UNCHANGED vars
    BY <2>6, <1>25 DEF vars, registry, tasks, engine
  <2> QED BY <2>1, <2>2, <2>3, <2>4, <2>5, <2>6 DEF Next

\* Nobody writes the row of a review that only follow-ups could touch.
LEMMA CopyIsRowStep ==
  ASSUME TypeOK, Targets, Working, Heard, FirstTurn, Rehydrated,
         PumpAfterDrive, Blank, CopyIsRow, [Next]_vars
  PROVE  CopyIsRow'
PROOF
<1> USE ThreadAssumption, PairAssumption, TurnAssumption
       DEF registry, tasks, engine, Turn, InFlight, Terminal, Status,
           TypeOK, RegistryType, TaskType, EngineType, CommandType,
           Session, Follower, Stopping, Targets, Working,
           Heard, FirstTurn, Rehydrated, PumpAfterDrive, Blank, CopyIsRow,
           ActiveDrive, ActivePump
<1>0. 1 \in Turn OBVIOUS
<1> USE <1>0
<1>1. ASSUME NEW t \in Thread, Promote(t) PROVE CopyIsRow'
  BY <1>1 DEF Promote, Drive
<1>2. ASSUME NEW s \in Sender, NEW t \in Thread, OpenFollowUp(s, t) PROVE CopyIsRow'
  <2>1. /\ \A r \in Sender : r # s => send'[r] = send[r]
        /\ send'[s].pc = "rehydrate" => mem[t].status = "none"
        /\ send'[s].thread = t /\ send'[s].copy = row[t]
    BY <1>2 DEF OpenFollowUp, Absent
  <2>2. UNCHANGED <<row, turns, pump>>
    BY <1>2 DEF OpenFollowUp, tasks
  <2>3. mem[t].status = "none" => pump[t][1] \in {"none", "ended"}
    OBVIOUS
  <2> HIDE DEF TypeOK, RegistryType, TaskType, EngineType, CommandType, Working, Heard,
       FirstTurn, Rehydrated, PumpAfterDrive, Blank
  <2> SUFFICES ASSUME NEW r \in Sender, send'[r].pc = "rehydrate",
                      turns'[send'[r].thread] = 1
               PROVE  /\ send'[r].copy = row'[send'[r].thread]
                      /\ pump'[send'[r].thread][1] \in {"none", "ended"}
    BY DEF CopyIsRow
  <2>4. CASE r = s
    BY <2>1, <2>2, <2>3, <2>4
  <2>5. CASE r # s
    <3>1. send'[r] = send[r] BY <2>1, <2>5
    <3> QED BY <2>2, <3>1 DEF CopyIsRow
  <2> QED BY <2>4, <2>5
<1>3. ASSUME NEW s \in Sender, NEW t \in Thread, Rehydrate(s, t) PROVE CopyIsRow'
  BY <1>3 DEF Rehydrate
<1>4. ASSUME NEW s \in Sender, NEW t \in Thread, BeginResume(s, t) PROVE CopyIsRow'
  BY <1>4 DEF BeginResume, NewSend, Drive, SetStatus
<1>5. ASSUME NEW s \in Sender, RefuseResume(s) PROVE CopyIsRow'
  BY <1>5 DEF RefuseResume, NewSend
<1>6. ASSUME NEW t \in Thread, NEW k \in Turn, SpawnPump(t, k) PROVE CopyIsRow'
  BY <1>6 DEF SpawnPump, Drive
<1>7. ASSUME NEW t \in Thread, NEW k \in Turn, PersistFailure(t, k) PROVE CopyIsRow'
  BY <1>7 DEF PersistFailure, Drive
<1>8. ASSUME NEW t \in Thread, NEW k \in Turn, BeginTerminal(t, k) PROVE CopyIsRow'
  BY <1>8 DEF BeginTerminal, SetStatus, Move
<1>9. ASSUME NEW t \in Thread, NEW k \in Turn, Yield(t, k) PROVE CopyIsRow'
  BY <1>9 DEF Yield, Move
<1>10. ASSUME NEW t \in Thread, NEW k \in Turn, SetOutcome(t, k) PROVE CopyIsRow'
  BY <1>10 DEF SetOutcome, SetStatus, Move
<1>11. ASSUME NEW t \in Thread, NEW k \in Turn, WriteOutcome(t, k) PROVE CopyIsRow'
  BY <1>11 DEF WriteOutcome, Move
<1>12. ASSUME NEW t \in Thread, NEW k \in Turn, Announce(t, k) PROVE CopyIsRow'
  BY <1>12 DEF Announce, Move
<1>13. CASE Restart
  BY <1>13 DEF Restart, FailOrphan, Absent, NewSend, NewStop
<1>14. CASE UNCHANGED <<row, turns, pump, send>>
  BY <1>14
<1> HIDE DEF Turn, InFlight, Terminal, Status, TypeOK, RegistryType, TaskType, EngineType,
     CommandType, Session, Follower, Stopping, Targets, Working,
           Heard, FirstTurn, Rehydrated, PumpAfterDrive, Blank, CopyIsRow,
           ActiveDrive, ActivePump
<1> QED
  <2>1. CASE \E t \in Thread : StartStep(t)
    BY <2>1, <1>1, <1>14
    DEF StartStep, Reserve, Dedupe, AbandonStart, registry, tasks, engine
  <2>2. CASE \E t \in Thread, k \in Turn : TurnStep(t, k) \/ EndTurn(t, k) \/ Lag(t, k)
    BY <2>2, <1>6, <1>7, <1>8, <1>9, <1>10, <1>11, <1>12, <1>14
    DEF TurnStep, Connect, Accept, SetRunning, FailTurn, EndTurn, Lag, registry, tasks,
        engine
  <2>3. CASE \E s \in Sender, t \in Thread : SendStep(s, t)
    BY <2>3, <1>2, <1>3, <1>4, <1>5, <1>14
    DEF SendStep
  <2>4. CASE \E c \in Stopper, t \in Thread : StopStep(c, t)
    BY <2>4, <1>14
    DEF StopStep, FindTarget, FindNothing, BeginInterrupt, AlreadyHandled, GiveUpInterrupt,
        Interrupt, registry, tasks, engine
  <2>5. CASE Die \/ Restart
    BY <2>5, <1>13, <1>14
    DEF Die, registry, tasks, engine
  <2>6. CASE UNCHANGED vars
    BY <2>6, <1>14 DEF vars, registry, tasks, engine
  <2> QED BY <2>1, <2>2, <2>3, <2>4, <2>5, <2>6 DEF Next

\* The invariant holds at first.
LEMMA InitIInv == Init => IInv
PROOF
<1> SUFFICES ASSUME Init PROVE IInv OBVIOUS
<1> USE TurnAssumption, BoundAssumption
    DEF Init, EveryTurn, NewSend, NewStop, Absent, Turn, InFlight, Terminal, Status
<1>0. 1 \in Turn OBVIOUS
<1>1. RegistryType BY DEF RegistryType, Session
<1>2. TaskType BY DEF TaskType
<1>3. EngineType BY DEF EngineType
<1>4. CommandType BY DEF CommandType, Follower, Stopping
<1>5. Targets /\ Heard BY DEF Targets, Heard
<1>6. Working BY <1>0 DEF Working, ActiveDrive, ActivePump
<1>7. FirstTurn BY <1>0 DEF FirstTurn
<1>8. Rehydrated BY DEF Rehydrated
<1>9. Reservations /\ NoDoubleStart /\ NoLeakedReservation
  BY <1>0 DEF Reservations, NoDoubleStart, Reviewing, NoLeakedReservation
<1>10. Blank /\ PumpAfterDrive /\ FirstOutcome /\ CopyIsRow
  BY <1>0 DEF Blank, PumpAfterDrive, FirstOutcome, CopyIsRow
<1> QED BY <1>1, <1>2, <1>3, <1>4, <1>5, <1>6, <1>7, <1>8, <1>9, <1>10 DEF IInv, TypeOK

\* The invariant holds in every reachable state.
LEMMA Invariance == Spec => []IInv
PROOF
<1>1. IInv /\ [Next]_vars => IInv'
  BY RegistryStep, TaskStep, EngineStep, CommandStep, TargetsStep, WorkingStep, HeardStep,
     FirstTurnStep, RehydratedStep, ReservationsStep, OnceStep, LeakStep, BlankStep,
     PumpAfterDriveStep, FirstOutcomeStep, CopyIsRowStep
  DEF IInv, TypeOK
<1> QED BY InitIInv, <1>1, PTL DEF Spec

-----------------------------------------------------------------------------
(* The theorems.                                                            *)

\* Every variable keeps its type: no interleaving writes a status, a turn id or
\* a program counter that the code does not have.
THEOREM TypeCorrect == Spec => []TypeOK
PROOF
<1>1. IInv => TypeOK BY DEF IInv
<1> QED BY Invariance, <1>1, PTL

\* A pair is never reviewed twice at once: reservation, promotion, failure, stop,
\* follow-up, rehydration and restart in any order.
THEOREM PairReviewedOnce == Spec => []NoDoubleStart
PROOF
<1>1. IInv => NoDoubleStart BY DEF IInv
<1> QED BY Invariance, <1>1, PTL

\* No reservation outlives its start, so no pair is deduplicated for ever.
THEOREM ReservationsAreReleased == Spec => []NoLeakedReservation
PROOF
<1>1. IInv => NoLeakedReservation BY DEF IInv
<1> QED BY Invariance, <1>1, PTL

\* What the row and the registry say of a review that nobody works on any more.
LEMMA SettledInIInv == IInv => SettledAgree
PROOF
<1> SUFFICES ASSUME IInv, NEW t \in Thread, Quiet(t), mem[t] # Absent, turns[t] <= 1
             PROVE  row[t] = mem[t].status
  BY DEF SettledAgree
<1>1. TypeOK /\ Working /\ Blank /\ FirstOutcome BY DEF IInv
<1>2. 1 \in Turn BY TurnAssumption DEF Turn
<1>3. mem[t].status # "none" BY <1>1 DEF Blank
<1>4. turns[t] = 1
  <2>1. turns[t] # 0 BY <1>1, <1>3 DEF Working
  <2> QED BY <1>1, <2>1, TurnAssumption DEF TypeOK, RegistryType
<1>5. drive[t][1] = "over"
  <2>1. drive[t][1] \in {"none", "over"} BY <1>2 DEF Quiet
  <2> QED BY <1>1, <1>4, <2>1 DEF Working
<1>6. pump[t][1] \in {"none", "ended"} BY <1>2 DEF Quiet
<1> QED BY <1>1, <1>3, <1>4, <1>5, <1>6 DEF FirstOutcome, OnItsWay

\* Nobody brings an ended first turn back: whoever still writes its status writes
\* the one it has.
LEMMA EndedStep ==
  ASSUME IInv, [Next]_vars, NEW t \in Thread, mem[t].status \in Terminal, turns'[t] <= 1
  PROVE  mem'[t].status \in {mem[t].status, "none"}
PROOF
<1> DEFINE Goal == mem'[t].status \in {mem[t].status, "none"}
<1>1. /\ TypeOK /\ Working /\ Heard /\ FirstTurn /\ Rehydrated /\ PumpAfterDrive
      /\ FirstOutcome /\ CopyIsRow
  BY DEF IInv
<1>2. 1 \in Turn BY TurnAssumption DEF Turn
<1>3. turns[t] # 0 BY <1>1 DEF Working, Terminal
<1>4. turns[t] \in Nat
  BY <1>1, TurnAssumption DEF TypeOK, RegistryType
<1>5. ASSUME NEW u \in Thread, Promote(u) PROVE Goal
  <2>1. drive[u][1] = "reserved" BY <1>5 DEF Promote, Drive
  <2>2. u # t BY <1>1, <1>3, <2>1 DEF Working
  <2> QED BY <1>1, <1>5, <2>2 DEF Promote, TypeOK, RegistryType
<1>6. ASSUME NEW s \in Sender, NEW u \in Thread, Rehydrate(s, u) PROVE Goal
  <2>1. CASE u # t BY <1>1, <1>6, <2>1 DEF Rehydrate, TypeOK, RegistryType
  <2>2. CASE u = t
    <3>1. send[s].pc = "rehydrate" /\ send[s].thread = t /\ turns' = turns
      BY <1>6, <2>2 DEF Rehydrate
    <3>2. turns[t] = 1 BY <1>3, <1>4, <3>1
    <3>3. send[s].copy = row[t] /\ pump[t][1] \in {"none", "ended"}
      BY <1>1, <3>1, <3>2 DEF CopyIsRow
    <3>4. drive[t][1] = "over" BY <1>1, <3>1 DEF Rehydrated
    <3>5. row[t] = mem[t].status
      BY <1>1, <3>2, <3>3, <3>4 DEF FirstOutcome, OnItsWay, Terminal
    <3>6. mem'[t].status = send[s].copy
      BY <1>1, <1>6, <2>2 DEF Rehydrate, TypeOK, RegistryType
    <3> QED BY <3>3, <3>5, <3>6
  <2> QED BY <2>1, <2>2
<1>7. ASSUME NEW s \in Sender, NEW u \in Thread, BeginResume(s, u) PROVE Goal
  <2>1. u # t
    BY <1>1, <1>3, <1>4, <1>7 DEF BeginResume, TypeOK, RegistryType
  <2> QED BY <1>1, <1>7, <2>1 DEF BeginResume, SetStatus, TypeOK, RegistryType
<1>8. ASSUME NEW u \in Thread, NEW k \in Turn, SetRunning(u, k) PROVE Goal
  <2>1. drive[u][k] = "accepted" /\ turns' = turns BY <1>8 DEF SetRunning, Drive
  <2>2. u # t
    <3> SUFFICES ASSUME u = t PROVE FALSE OBVIOUS
    <3>1. turns[t] = 1 BY <1>3, <1>4, <2>1
    <3>2. k = 1 BY <1>1, <2>1, <3>1, OnlyTurn
    <3> QED BY <1>1, <2>1, <3>2 DEF FirstTurn, Terminal
  <2> QED BY <1>1, <1>8, <2>2 DEF SetRunning, TypeOK, RegistryType
<1>9. ASSUME NEW u \in Thread, NEW k \in Turn, FailTurn(u, k) PROVE Goal
  <2>1. drive[u][k] \in {"connect", "turn", "accepted"} /\ turns' = turns
    BY <1>9 DEF FailTurn
  <2>2. u # t
    <3> SUFFICES ASSUME u = t PROVE FALSE OBVIOUS
    <3>1. turns[t] = 1 BY <1>3, <1>4, <2>1
    <3>2. k = 1 BY <1>1, <2>1, <3>1, OnlyTurn
    <3> QED BY <1>1, <2>1, <3>2 DEF FirstTurn, Terminal
  <2> QED BY <1>1, <1>9, <2>2 DEF FailTurn, SetStatus, TypeOK, RegistryType
<1>10. ASSUME NEW u \in Thread, NEW k \in Turn, BeginTerminal(u, k) PROVE Goal
  <2>1. u # t BY <1>10 DEF BeginTerminal, InFlight, Terminal
  <2> QED BY <1>1, <1>10, <2>1 DEF BeginTerminal, SetStatus, TypeOK, RegistryType
<1>11. ASSUME NEW u \in Thread, NEW k \in Turn, SetOutcome(u, k) PROVE Goal
  <2>1. CASE u # t BY <1>1, <1>11, <2>1 DEF SetOutcome, SetStatus, TypeOK, RegistryType
  <2>2. CASE u = t
    <3>1. pump[t][k] = "resolving" /\ turns' = turns BY <1>11, <2>2 DEF SetOutcome, Move
    <3>2. turns[t] = 1 BY <1>3, <1>4, <3>1
    <3>3. k = 1 BY <1>1, <3>1, <3>2, OnlyTurn
    <3>4. drive[t][1] = "over" BY <1>1, <1>2, <3>1, <3>3 DEF PumpAfterDrive
    <3>5. mem[t].status = heard[t][1]
      BY <1>1, <3>1, <3>2, <3>3, <3>4 DEF FirstOutcome, OnItsWay, Terminal
    <3>6. mem'[t].status = heard[t][1]
      BY <1>1, <1>11, <2>2, <3>3 DEF SetOutcome, SetStatus, TypeOK, RegistryType, Session
    <3> QED BY <3>5, <3>6
  <2> QED BY <2>1, <2>2
<1>12. ASSUME NEW c \in Stopper, NEW u \in Thread, BeginInterrupt(c, u) PROVE Goal
  <2>1. u # t BY <1>12 DEF BeginInterrupt, Terminal
  <2> QED BY <1>1, <1>12, <2>1 DEF BeginInterrupt, SetStatus, TypeOK, RegistryType
<1>13. ASSUME NEW c \in Stopper, NEW u \in Thread, GiveUpInterrupt(c, u) PROVE Goal
  <2>1. CASE u # t
    BY <1>1, <1>13, <2>1 DEF GiveUpInterrupt, Rollback, SetStatus, TypeOK, RegistryType
  <2>2. CASE u = t
    BY <1>1, <1>13, <2>2
    DEF GiveUpInterrupt, Rollback, SetStatus, TypeOK, RegistryType, Session, Terminal
  <2> QED BY <2>1, <2>2
<1>14. CASE Restart
  BY <1>14 DEF Restart, Absent
<1>15. CASE UNCHANGED mem
  BY <1>15
<1> QED
  <2>1. CASE \E u \in Thread : StartStep(u)
    BY <2>1, <1>5, <1>15 DEF StartStep, Reserve, Dedupe, AbandonStart, registry, tasks,
        engine
  <2>2. CASE \E u \in Thread, k \in Turn : TurnStep(u, k) \/ EndTurn(u, k) \/ Lag(u, k)
    BY <2>2, <1>8, <1>9, <1>10, <1>11, <1>15
    DEF TurnStep, Connect, Accept, SpawnPump, PersistFailure, Yield, WriteOutcome, Announce,
        EndTurn, Lag, registry, tasks,
        engine
  <2>3. CASE \E s \in Sender, u \in Thread : SendStep(s, u)
    BY <2>3, <1>6, <1>7, <1>15 DEF SendStep, OpenFollowUp, RefuseResume, registry, tasks,
        engine
  <2>4. CASE \E c \in Stopper, u \in Thread : StopStep(c, u)
    BY <2>4, <1>12, <1>13, <1>15
    DEF StopStep, FindTarget, FindNothing, AlreadyHandled, Interrupt, registry, tasks,
        engine
  <2>5. CASE Die \/ Restart
    BY <2>5, <1>14, <1>15 DEF Die, registry, tasks,
        engine
  <2>6. CASE UNCHANGED vars
    BY <2>6, <1>15 DEF vars, registry, tasks,
        engine
  <2> QED BY <2>1, <2>2, <2>3, <2>4, <2>5, <2>6 DEF Next

\* The row and the registry agree on every review that nobody works on and nobody
\* followed up, whatever ended it: an outcome, a failed start, a stop, a death of
\* the app-server or a restart.
THEOREM SettledReviewsAgree == Spec => []SettledAgree
PROOF
<1> QED BY Invariance, SettledInIInv, PTL

\* A review that has ended stays ended until somebody follows it up: no late
\* finalizer, failed interrupt or rehydrated row changes its status.
THEOREM EndedReviewsStayEnded == Spec => EndedStaysEnded
PROOF
<1>1. IInv /\ [Next]_vars =>
        [\A t \in Thread : mem[t].status \in Terminal /\ turns'[t] <= 1
           => mem'[t].status \in {mem[t].status, "none"}]_vars
  BY EndedStep
<1> QED BY Invariance, <1>1, PTL DEF Spec, EndedStaysEnded
=============================================================================
