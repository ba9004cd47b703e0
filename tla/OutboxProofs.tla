---------------------------- MODULE OutboxProofs ----------------------------
(***************************************************************************)
(* Proofs about the action outbox, for every finite set of rows, every set *)
(* of engines and commands and every value of the limits.                  *)
(*                                                                         *)
(* None of the safety properties is inductive as it stands: what the       *)
(* worker is about to write depends on the copies it took, on what the     *)
(* executor returned and on the resume generation it saw, so the inductive *)
(* invariant IInv speaks of those too.                                     *)
(***************************************************************************)
EXTENDS Outbox, FiniteSetTheorems, WellFoundedInduction, TLAPS

\* Where the worker can hold rows, and where a result can be waiting.
WorkerShape ==
  /\ wpc \in {"down", "boot", "parked", "claim"} => batch = {}
  /\ wpc \in {"down", "boot", "parked", "claim", "next", "reconcile", "rewake"} =>
       cur = {}
  /\ cur \cap batch = {}
  /\ \A r, q \in cur : r = q
  /\ result # "none" => wpc = "record"

\* A claimed row is still pending or was cancelled, never done or blocked, and
\* its copied attempt count is one the retry budget still allows.
CopiesOpen ==
  \A r \in batch \cup cur :
    status[r] \in {"pending", "dead"} /\ snap[r].attempts < MaxAttempts

\* A success waiting to be recorded has had its effect.
ResultEarned == result = "done" => cur \subseteq effects

\* A refusal waiting to be recorded: unless a resume has bumped the generation
\* since it was observed, the engine is stopped or a resume has yet to bump.
RefusalCurrent ==
  /\ obs <= gen
  /\ result = "blocked" /\ obs = gen =>
       \A r \in cur : stopped[EngineOf[r]] \/ \E p \in Resumer : phase[p] = "cleared"

\* A row due at once is held by the worker, about to be claimed, or signalled.
WakeOwed ==
  \A r \in Row :
    status[r] = "pending" /\ due[r] = "now" =>
      \/ wpc \in {"down", "boot", "claim", "rewake"}
      \/ r \in batch \cup cur
      \/ wake \/ tick \/ full \/ owed # {}
      \/ \E p \in Resumer : phase[p] = "unblocked"

IInv ==
  /\ TypeOK /\ WorkerShape /\ CopiesOpen /\ ResultEarned /\ RefusalCurrent /\ WakeOwed
  /\ RetryLeft /\ NoFalseDone /\ NoStrandedBlock

USE DEF table, worker, signals, engines

-----------------------------------------------------------------------------
\* The empty copy the worker starts from, and the row a producer inserts.
LEMMA CopiesTyped == NoCopies \in [Row -> Copy]
  BY DEF NoCopies, Copy

LEMMA InsertTyped ==
  ASSUME TableType, NEW r \in Row, NEW d \in {"now", "later"}, InsertOrIgnore(r, d)
  PROVE  TableType'
<1>1. CASE Insert(r, d)
  BY <1>1 DEF TableType, Status, Insert
<1>2. CASE UNCHANGED table
  BY <1>2 DEF TableType
<1>3. QED
  BY <1>1, <1>2 DEF InsertOrIgnore

LEMMA InitType == Init => TypeOK
<1> SUFFICES ASSUME Init PROVE TypeOK
  OBVIOUS
<1>1. TableType
  BY DEF Init, TableType, Status
<1>2. WorkerType
  BY CopiesTyped DEF Init, WorkerType, WorkerPc, Result
<1>3. SignalType
  BY DEF Init, SignalType
<1>4. EngineType
  BY DEF Init, EngineType, Phase
<1>5. WorldType
  BY BoundAssumption DEF Init, WorldType
<1>6. QED
  BY <1>1, <1>2, <1>3, <1>4, <1>5 DEF TypeOK

\* TypeOK is inductive on its own: every action writes values of the types the
\* columns and the in-memory fields have.
LEMMA TypeStep == TypeOK /\ [Next]_vars => TypeOK'
<1> SUFFICES ASSUME TypeOK, [Next]_vars PROVE TypeOK'
  OBVIOUS
<1> USE DEF TypeOK, TableType, WorkerType, SignalType, EngineType, WorldType
<1>1. ASSUME Spawn PROVE TypeOK'
  BY <1>1 DEF WorkerPc, Result, Spawn
<1>2. ASSUME WakeUp PROVE TypeOK'
  BY <1>2 DEF WorkerPc, Result, WakeUp
<1>3. ASSUME ClaimDue PROVE TypeOK'
  <2>1. TableType'
    BY <1>3 DEF TableType, Status, ClaimDue, Page, DueRow
  <2>2. WorkerType'
    BY <1>3, CopiesTyped
    DEF WorkerType, TableType, WorkerPc, Result, Copy, ClaimDue, Page, DueRow
  <2>3. SignalType'
    BY <1>3 DEF SignalType, ClaimDue, Page, DueRow
  <2>4. QED
    BY <1>3, <2>1, <2>2, <2>3 DEF ClaimDue, EngineType, WorldType
<1>4. ASSUME EndCycle PROVE TypeOK'
  BY <1>4, CopiesTyped DEF WorkerPc, Result, EndCycle
<1>5. ASSUME Observe PROVE TypeOK'
  BY <1>5 DEF WorkerPc, Result, Observe
<1>6. ASSUME Resumed PROVE TypeOK'
  BY <1>6 DEF WorkerPc, Result, Resumed
<1>7. ASSUME Reconcile PROVE TypeOK'
  BY <1>7 DEF Status, WorkerPc, Result, Reconcile, UnblockReviews, Blocked
<1>8. ASSUME Rewake PROVE TypeOK'
  BY <1>8 DEF WorkerPc, Result, Rewake
<1>9. ASSUME NEW r \in Row, DropExpired(r) PROVE TypeOK'
  <2>1. TableType'
    BY <1>9 DEF TableType, WorkerType, Status, Copy, DropExpired, Oldest, MarkDead
  <2>2. WorkerType'
    BY <1>9 DEF WorkerType, WorkerPc, Result, DropExpired, Oldest, MarkDead
  <2>3. QED
    BY <1>9, <2>1, <2>2 DEF DropExpired, SignalType, EngineType, WorldType
<1>10. ASSUME NEW r \in Row, BeginRow(r) PROVE TypeOK'
  BY <1>10 DEF WorkerPc, Result, BeginRow, Oldest
<1>11. ASSUME NEW r \in Row, GateBlock(r) PROVE TypeOK'
  BY <1>11 DEF WorkerPc, Result, GateBlock
<1>12. ASSUME NEW r \in Row, GateOpen(r) PROVE TypeOK'
  BY <1>12 DEF WorkerPc, Result, GateOpen
<1>13. ASSUME NEW r \in Row, GateResume(r) PROVE TypeOK'
  BY <1>13 DEF WorkerPc, Result, Phase, Resumer, GateResume, Clear
<1>14. ASSUME NEW r \in Row, Succeed(r) PROVE TypeOK'
  BY <1>14 DEF WorkerPc, Result, Succeed
<1>15. ASSUME NEW r \in Row, Fail(r) PROVE TypeOK'
  BY <1>15 DEF WorkerPc, Result, Fail
<1>16. ASSUME NEW r \in Row, Record(r) PROVE TypeOK'
  <2>1. NextAttempt(r) \in Nat
    BY DEF NextAttempt, Copy
  <2>2. TableType'
    BY <1>16, <2>1 DEF Status, Record, MarkDone, MarkBlocked, MarkRetry, MarkDead
  <2>3. WorkerType'
    BY <1>16 DEF WorkerPc, Result, Record
  <2>4. QED
    BY <1>16, <2>2, <2>3 DEF Record
<1>17. ASSUME Boot PROVE TypeOK'
  BY <1>17 DEF Status, WorkerPc, Result, Boot, UnblockReviews, Blocked
<1>18. ASSUME Tick PROVE TypeOK'
  BY <1>18 DEF Tick
<1>19. ASSUME BeginReview PROVE TypeOK'
  BY <1>19 DEF BeginReview
<1>20. ASSUME EndReview PROVE TypeOK'
  BY <1>20 DEF Status, EndReview
<1>21. ASSUME Crash PROVE TypeOK'
  <2>1. WorkerType'
    BY <1>21, CopiesTyped DEF WorkerType, WorkerPc, Result, Crash
  <2>2. SignalType'
    BY <1>21 DEF SignalType, Crash
  <2>3. EngineType'
    BY <1>21 DEF EngineType, Phase, Resumer, Crash
  <2>4. WorldType'
    BY <1>21 DEF WorldType, Crash
  <2>5. QED
    BY <1>21, <2>1, <2>2, <2>3, <2>4 DEF Crash, TableType
<1>22. ASSUME NEW r \in Row, Enqueue(r) PROVE TypeOK'
  <2>1. TableType'
    BY <1>22, InsertTyped DEF TableType, Status, Enqueue
  <2>2. SignalType'
    BY <1>22 DEF SignalType, Enqueue, Alive, InsertOrIgnore, Insert
  <2>3. WorldType'
    BY <1>22 DEF WorldType, Enqueue, Alive, InsertOrIgnore, Insert
  <2>4. QED
    BY <1>22, <2>1, <2>2, <2>3 DEF Enqueue, WorkerType, EngineType
<1>23. ASSUME NEW r \in Row, ProducerWake(r) PROVE TypeOK'
  BY <1>23 DEF ProducerWake
<1>24. ASSUME NEW r \in Row, AnnounceStarted(r) PROVE TypeOK'
  <2>1. TableType'
    BY <1>24, InsertTyped DEF TableType, Status, AnnounceStarted
  <2>2. SignalType'
    BY <1>24 DEF SignalType, AnnounceStarted, InsertOrIgnore, Insert
  <2>3. WorldType'
    BY <1>24 DEF WorldType, AnnounceStarted, InsertOrIgnore, Insert
  <2>4. QED
    BY <1>24, <2>1, <2>2, <2>3 DEF AnnounceStarted, WorkerType, EngineType
<1>25. ASSUME NEW r \in Row, Requeue(r) PROVE TypeOK'
  BY <1>25 DEF Status, Requeue, Alive, Insert
<1>26. ASSUME NEW r \in Row, Elapse(r) PROVE TypeOK'
  BY <1>26 DEF Status, Elapse
<1>27. ASSUME NEW r \in Row, Age(r) PROVE TypeOK'
  BY <1>27 DEF Status, Age
<1>28. ASSUME NEW e \in Engine, StopEngine(e) PROVE TypeOK'
  BY <1>28 DEF Phase, Resumer, StopEngine, Alive
<1>29. ASSUME NEW c \in Command, NEW e \in Engine, CommandClear(c, e) PROVE TypeOK'
  <2>1. EngineType'
    BY <1>29 DEF EngineType, Phase, Resumer, CommandClear, Alive, Clear
  <2>2. WorldType'
    BY <1>29 DEF WorldType, CommandClear, Alive, Clear
  <2>3. QED
    BY <1>29, <2>1, <2>2 DEF CommandClear, TableType, WorkerType, SignalType
<1>30. ASSUME NEW p \in Resumer, Bump(p) PROVE TypeOK'
  BY <1>30 DEF Phase, Resumer, Bump
<1>31. ASSUME NEW p \in Resumer, Unblock(p) PROVE TypeOK'
  BY <1>31 DEF Status, Phase, Resumer, Unblock, UnblockReviews, Blocked
<1>32. ASSUME NEW p \in Resumer, ResumeWake(p) PROVE TypeOK'
  BY <1>32 DEF Phase, Resumer, ResumeWake
<1>33. CASE UNCHANGED vars
  BY <1>33 DEF vars
<1> HIDE DEF TypeOK, TableType, WorkerType, SignalType, EngineType, WorldType
<1>34. QED
  BY <1>1, <1>2, <1>3, <1>4, <1>5, <1>6, <1>7, <1>8, <1>9, <1>10, <1>11, <1>12,
     <1>13, <1>14, <1>15, <1>16, <1>17, <1>18, <1>19, <1>20, <1>21, <1>22, <1>23,
     <1>24, <1>25, <1>26, <1>27, <1>28, <1>29, <1>30, <1>31, <1>32, <1>33
     DEF Next, WorkerStep, ResumeStep

\* The worker holds rows only while it works on a page, and one at a time.
LEMMA ShapeStep ==
  TypeOK /\ WorkerShape /\ [Next]_vars => WorkerShape'
<1> SUFFICES ASSUME TypeOK, WorkerShape, [Next]_vars PROVE WorkerShape'
  OBVIOUS
<1> USE DEF TypeOK, TableType, WorkerType, WorkerShape, WorkerPc, Result, Worker
<1>1. ASSUME Spawn PROVE WorkerShape'
  BY <1>1 DEF Spawn
<1>2. ASSUME WakeUp PROVE WorkerShape'
  BY <1>2 DEF WakeUp
<1>3. ASSUME ClaimDue PROVE WorkerShape'
  BY <1>3 DEF ClaimDue, Page, DueRow
<1>4. ASSUME EndCycle PROVE WorkerShape'
  BY <1>4 DEF EndCycle
<1>5. ASSUME Observe PROVE WorkerShape'
  BY <1>5 DEF Observe
<1>6. ASSUME Resumed PROVE WorkerShape'
  BY <1>6 DEF Resumed
<1>7. ASSUME Reconcile PROVE WorkerShape'
  BY <1>7 DEF Reconcile, UnblockReviews, Blocked
<1>8. ASSUME Rewake PROVE WorkerShape'
  BY <1>8 DEF Rewake
<1>9. ASSUME NEW r \in Row, DropExpired(r) PROVE WorkerShape'
  BY <1>9 DEF DropExpired, Oldest, MarkDead
<1>10. ASSUME NEW r \in Row, BeginRow(r) PROVE WorkerShape'
  BY <1>10 DEF BeginRow, Oldest
<1>11. ASSUME NEW r \in Row, GateBlock(r) PROVE WorkerShape'
  BY <1>11 DEF GateBlock
<1>12. ASSUME NEW r \in Row, GateOpen(r) PROVE WorkerShape'
  BY <1>12 DEF GateOpen
<1>13. ASSUME NEW r \in Row, GateResume(r) PROVE WorkerShape'
  BY <1>13 DEF GateResume, Clear
<1>14. ASSUME NEW r \in Row, Succeed(r) PROVE WorkerShape'
  BY <1>14 DEF Succeed
<1>15. ASSUME NEW r \in Row, Fail(r) PROVE WorkerShape'
  BY <1>15 DEF Fail
<1>16. ASSUME NEW r \in Row, Record(r) PROVE WorkerShape'
  BY <1>16 DEF Record, NextAttempt, MarkDone, MarkBlocked, MarkRetry, MarkDead
<1>17. ASSUME Boot PROVE WorkerShape'
  BY <1>17 DEF Boot, UnblockReviews, Blocked
<1>18. ASSUME Crash PROVE WorkerShape'
  BY <1>18 DEF Crash
<1>19. CASE UNCHANGED <<wpc, batch, cur, result>>
  BY <1>19
<1> HIDE DEF TypeOK, TableType, WorkerType, WorkerShape, WorkerPc, Result, Worker
<1>20. QED
  BY <1>1, <1>2, <1>3, <1>4, <1>5, <1>6, <1>7, <1>8, <1>9, <1>10, <1>11, <1>12,
     <1>13, <1>14, <1>15, <1>16, <1>17, <1>18, <1>19
     DEF Next, WorkerStep, ResumeStep, vars, Tick, BeginReview, EndReview, Enqueue,
     ProducerWake, AnnounceStarted, Requeue, Elapse, Age, StopEngine, CommandClear,
     Bump, Unblock, ResumeWake

\* No thread takes a claimed row out of {pending, dead}: only the worker itself
\* settles a row, and a requeue starts from dead.
LEMMA CopiesStep ==
  TypeOK /\ WorkerShape /\ RetryLeft /\ CopiesOpen /\ [Next]_vars => CopiesOpen'
<1> SUFFICES ASSUME TypeOK, WorkerShape, RetryLeft, CopiesOpen, [Next]_vars PROVE CopiesOpen'
  OBVIOUS
<1> USE DEF TypeOK, TableType, WorkerType, WorkerShape, CopiesOpen, RetryLeft,
     Status, Copy, NoCopies
<1>1. ASSUME ClaimDue PROVE CopiesOpen'
  BY <1>1 DEF ClaimDue, Page, DueRow
<1>2. ASSUME EndCycle PROVE CopiesOpen'
  BY <1>2 DEF EndCycle
<1>3. ASSUME Reconcile PROVE CopiesOpen'
  BY <1>3 DEF Reconcile, UnblockReviews, Blocked
<1>4. ASSUME NEW r \in Row, DropExpired(r) PROVE CopiesOpen'
  BY <1>4 DEF DropExpired, Oldest, MarkDead
<1>5. ASSUME NEW r \in Row, BeginRow(r) PROVE CopiesOpen'
  BY <1>5 DEF BeginRow, Oldest
<1>6. ASSUME NEW r \in Row, Record(r) PROVE CopiesOpen'
  BY <1>6 DEF Record, NextAttempt, MarkDone, MarkBlocked, MarkRetry, MarkDead
<1>7. ASSUME Boot PROVE CopiesOpen'
  BY <1>7 DEF Boot, UnblockReviews, Blocked
<1>8. ASSUME EndReview PROVE CopiesOpen'
  BY <1>8 DEF EndReview
<1>9. ASSUME Crash PROVE CopiesOpen'
  BY <1>9 DEF Crash
<1>10. ASSUME NEW r \in Row, Enqueue(r) PROVE CopiesOpen'
  BY <1>10 DEF Enqueue, Alive, InsertOrIgnore, Insert
<1>11. ASSUME NEW r \in Row, AnnounceStarted(r) PROVE CopiesOpen'
  BY <1>11 DEF AnnounceStarted, InsertOrIgnore, Insert
<1>12. ASSUME NEW r \in Row, Requeue(r) PROVE CopiesOpen'
  BY <1>12 DEF Requeue, Alive, Insert
<1>13. ASSUME NEW p \in Resumer, Unblock(p) PROVE CopiesOpen'
  BY <1>13 DEF Unblock, UnblockReviews, Blocked
<1>14. CASE UNCHANGED <<batch, cur, snap, status>>
  BY <1>14
<1> HIDE DEF TypeOK, TableType, WorkerType, WorkerShape, CopiesOpen, RetryLeft,
     Status, Copy, NoCopies
<1>15. QED
  BY <1>1, <1>2, <1>3, <1>4, <1>5, <1>6, <1>7, <1>8, <1>9, <1>10, <1>11, <1>12,
     <1>13, <1>14
     DEF Next, WorkerStep, ResumeStep, vars, Spawn, WakeUp, Observe, Resumed, Rewake,
     GateBlock, GateOpen, GateResume, Succeed, Fail, Tick, BeginReview, ProducerWake,
     Elapse, Age, StopEngine, CommandClear, Bump, ResumeWake

\* A late reschedule writes the copied count plus one, and only below the limit.
LEMMA RetryStep ==
  TypeOK /\ WorkerShape /\ CopiesOpen /\ RetryLeft /\ [Next]_vars => RetryLeft'
<1> SUFFICES ASSUME TypeOK, WorkerShape, CopiesOpen, RetryLeft, [Next]_vars PROVE RetryLeft'
  OBVIOUS
<1> USE DEF TypeOK, TableType, WorkerType, WorkerShape, CopiesOpen, RetryLeft,
     Status, Copy, Result
<1>1. ASSUME ClaimDue PROVE RetryLeft'
  BY <1>1 DEF ClaimDue, Page, DueRow
<1>2. ASSUME Reconcile PROVE RetryLeft'
  BY <1>2 DEF Reconcile, UnblockReviews, Blocked
<1>3. ASSUME NEW r \in Row, DropExpired(r) PROVE RetryLeft'
  BY <1>3 DEF DropExpired, Oldest, MarkDead
<1>4. ASSUME NEW r \in Row, Record(r) PROVE RetryLeft'
  BY <1>4 DEF Record, NextAttempt, MarkDone, MarkBlocked, MarkRetry, MarkDead
<1>5. ASSUME Boot PROVE RetryLeft'
  BY <1>5 DEF Boot, UnblockReviews, Blocked
<1>6. ASSUME EndReview PROVE RetryLeft'
  BY <1>6 DEF EndReview
<1>7. ASSUME NEW r \in Row, Enqueue(r) PROVE RetryLeft'
  BY <1>7, LimitAssumption DEF Enqueue, Alive, InsertOrIgnore, Insert
<1>8. ASSUME NEW r \in Row, AnnounceStarted(r) PROVE RetryLeft'
  BY <1>8, LimitAssumption DEF AnnounceStarted, InsertOrIgnore, Insert
<1>9. ASSUME NEW r \in Row, Requeue(r) PROVE RetryLeft'
  BY <1>9, LimitAssumption DEF Requeue, Alive, Insert
<1>10. ASSUME NEW p \in Resumer, Unblock(p) PROVE RetryLeft'
  BY <1>10 DEF Unblock, UnblockReviews, Blocked
<1>11. CASE UNCHANGED <<status, attempts>>
  BY <1>11
<1> HIDE DEF TypeOK, TableType, WorkerType, WorkerShape, CopiesOpen, RetryLeft,
     Status, Copy, Result
<1>12. QED
  BY <1>1, <1>2, <1>3, <1>4, <1>5, <1>6, <1>7, <1>8, <1>9, <1>10, <1>11
     DEF Next, WorkerStep, ResumeStep, vars, Spawn, WakeUp, EndCycle, Observe,
     Resumed, Rewake, BeginRow, GateBlock, GateOpen, GateResume, Succeed, Fail, Tick,
     BeginReview, Crash, ProducerWake, Elapse, Age, StopEngine, CommandClear, Bump,
     ResumeWake

\* A result waiting to be recorded belongs to the row the worker is on.
LEMMA EarnedStep ==
  TypeOK /\ WorkerShape /\ ResultEarned /\ [Next]_vars => ResultEarned'
<1> SUFFICES ASSUME TypeOK, WorkerShape, ResultEarned, [Next]_vars PROVE ResultEarned'
  OBVIOUS
<1> USE DEF TypeOK, TableType, WorkerType, WorkerShape, ResultEarned
<1>1. ASSUME NEW r \in Row, BeginRow(r) PROVE ResultEarned'
  BY <1>1 DEF BeginRow, Oldest
<1>2. ASSUME NEW r \in Row, GateBlock(r) PROVE ResultEarned'
  BY <1>2 DEF GateBlock
<1>3. ASSUME NEW r \in Row, Succeed(r) PROVE ResultEarned'
  BY <1>3 DEF Succeed
<1>4. ASSUME NEW r \in Row, Fail(r) PROVE ResultEarned'
  BY <1>4 DEF Fail
<1>5. ASSUME NEW r \in Row, Record(r) PROVE ResultEarned'
  BY <1>5 DEF Record, NextAttempt, MarkDone, MarkBlocked, MarkRetry, MarkDead
<1>6. ASSUME Crash PROVE ResultEarned'
  BY <1>6 DEF Crash
<1>7. CASE UNCHANGED <<result, cur, effects>>
  BY <1>7
<1> HIDE DEF TypeOK, TableType, WorkerType, WorkerShape, ResultEarned
<1>8. QED
  BY <1>1, <1>2, <1>3, <1>4, <1>5, <1>6, <1>7
     DEF Next, WorkerStep, ResumeStep, vars, Spawn, WakeUp, ClaimDue, EndCycle,
     Observe, Resumed, Reconcile, Rewake, DropExpired, GateOpen, GateResume, Boot,
     Tick, BeginReview, EndReview, Enqueue, ProducerWake, AnnounceStarted, Requeue,
     Elapse, Age, StopEngine, CommandClear, Bump, Unblock, ResumeWake

\* Only a recorded success makes a row done, and effects are never undone.
LEMMA DoneStep ==
  TypeOK /\ ResultEarned /\ NoFalseDone /\ [Next]_vars => NoFalseDone'
<1> SUFFICES ASSUME TypeOK, ResultEarned, NoFalseDone, [Next]_vars PROVE NoFalseDone'
  OBVIOUS
<1> USE DEF TypeOK, TableType, WorkerType, ResultEarned, NoFalseDone, Status
<1>1. ASSUME ClaimDue PROVE NoFalseDone'
  BY <1>1 DEF ClaimDue, Page, DueRow
<1>2. ASSUME Reconcile PROVE NoFalseDone'
  BY <1>2 DEF Reconcile, UnblockReviews, Blocked
<1>3. ASSUME NEW r \in Row, DropExpired(r) PROVE NoFalseDone'
  BY <1>3 DEF DropExpired, Oldest, MarkDead
<1>4. ASSUME NEW r \in Row, Succeed(r) PROVE NoFalseDone'
  BY <1>4 DEF Succeed
<1>5. ASSUME NEW r \in Row, Fail(r) PROVE NoFalseDone'
  BY <1>5 DEF Fail
<1>6. ASSUME NEW r \in Row, Record(r) PROVE NoFalseDone'
  BY <1>6 DEF Record, NextAttempt, MarkDone, MarkBlocked, MarkRetry, MarkDead
<1>7. ASSUME Boot PROVE NoFalseDone'
  BY <1>7 DEF Boot, UnblockReviews, Blocked
<1>8. ASSUME EndReview PROVE NoFalseDone'
  BY <1>8 DEF EndReview
<1>9. ASSUME NEW r \in Row, Enqueue(r) PROVE NoFalseDone'
  BY <1>9 DEF Enqueue, Alive, InsertOrIgnore, Insert
<1>10. ASSUME NEW r \in Row, AnnounceStarted(r) PROVE NoFalseDone'
  BY <1>10 DEF AnnounceStarted, InsertOrIgnore, Insert
<1>11. ASSUME NEW r \in Row, Requeue(r) PROVE NoFalseDone'
  BY <1>11 DEF Requeue, Alive, Insert
<1>12. ASSUME NEW p \in Resumer, Unblock(p) PROVE NoFalseDone'
  BY <1>12 DEF Unblock, UnblockReviews, Blocked
<1>13. CASE UNCHANGED <<status, effects>>
  BY <1>13
<1> HIDE DEF TypeOK, TableType, WorkerType, ResultEarned, NoFalseDone, Status
<1>14. QED
  BY <1>1, <1>2, <1>3, <1>4, <1>5, <1>6, <1>7, <1>8, <1>9, <1>10, <1>11, <1>12, <1>13
     DEF Next, WorkerStep, ResumeStep, vars, Spawn, WakeUp, EndCycle, Observe,
     Resumed, Rewake, BeginRow, GateBlock, GateOpen, GateResume, Tick, BeginReview,
     Crash, ProducerWake, Elapse, Age, StopEngine, CommandClear, Bump, ResumeWake

\* A refusal is current until a resume bumps the generation.
LEMMA RefusalStep ==
  TypeOK /\ WorkerShape /\ RefusalCurrent /\ [Next]_vars => RefusalCurrent'
<1> SUFFICES ASSUME TypeOK, WorkerShape, RefusalCurrent, [Next]_vars PROVE RefusalCurrent'
  OBVIOUS
<1> USE DEF TypeOK, TableType, WorkerType, EngineType, WorkerShape, RefusalCurrent,
     Phase, Resumer, Worker
<1>1. ASSUME Observe PROVE RefusalCurrent'
  BY <1>1 DEF Observe
<1>2. ASSUME Resumed PROVE RefusalCurrent'
  BY <1>2 DEF Resumed
<1>3. ASSUME Reconcile PROVE RefusalCurrent'
  BY <1>3 DEF Reconcile, UnblockReviews, Blocked
<1>4. ASSUME NEW r \in Row, BeginRow(r) PROVE RefusalCurrent'
  BY <1>4 DEF BeginRow, Oldest
<1>5. ASSUME NEW r \in Row, GateBlock(r) PROVE RefusalCurrent'
  BY <1>5 DEF GateBlock
<1>6. ASSUME NEW r \in Row, GateOpen(r) PROVE RefusalCurrent'
  BY <1>6 DEF GateOpen
<1>7. ASSUME NEW r \in Row, GateResume(r) PROVE RefusalCurrent'
  BY <1>7 DEF GateResume, Clear
<1>8. ASSUME NEW r \in Row, Succeed(r) PROVE RefusalCurrent'
  BY <1>8 DEF Succeed
<1>9. ASSUME NEW r \in Row, Fail(r) PROVE RefusalCurrent'
  BY <1>9 DEF Fail
<1>10. ASSUME NEW r \in Row, Record(r) PROVE RefusalCurrent'
  BY <1>10 DEF Record, NextAttempt, MarkDone, MarkBlocked, MarkRetry, MarkDead
<1>11. ASSUME Crash PROVE RefusalCurrent'
  BY <1>11 DEF Crash
<1>12. ASSUME NEW e \in Engine, StopEngine(e) PROVE RefusalCurrent'
  BY <1>12 DEF StopEngine, Alive
<1>13. ASSUME NEW c \in Command, NEW e \in Engine, CommandClear(c,e) PROVE RefusalCurrent'
  BY <1>13 DEF CommandClear, Alive, Clear
<1>14. ASSUME NEW p \in Resumer, Bump(p) PROVE RefusalCurrent'
  BY <1>14 DEF Bump
<1>15. ASSUME NEW p \in Resumer, Unblock(p) PROVE RefusalCurrent'
  BY <1>15 DEF Unblock, UnblockReviews, Blocked
<1>16. ASSUME NEW p \in Resumer, ResumeWake(p) PROVE RefusalCurrent'
  BY <1>16 DEF ResumeWake
<1>17. CASE UNCHANGED <<obs, gen, result, cur, stopped, phase>>
  BY <1>17
<1> HIDE DEF TypeOK, TableType, WorkerType, EngineType, WorkerShape, RefusalCurrent,
     Phase, Resumer, Worker
<1>18. QED
  BY <1>1, <1>2, <1>3, <1>4, <1>5, <1>6, <1>7, <1>8, <1>9, <1>10, <1>11, <1>12,
     <1>13, <1>14, <1>15, <1>16, <1>17
     DEF Next, WorkerStep, ResumeStep, vars, Spawn, WakeUp, ClaimDue, EndCycle,
     Rewake, DropExpired, Boot, Tick, BeginReview, EndReview, Enqueue, ProducerWake,
     AnnounceStarted, Requeue, Elapse, Age

\* A row that becomes blocked has its resume ahead of it.
LEMMA StrandStep ==
  TypeOK /\ WorkerShape /\ RefusalCurrent /\ NoStrandedBlock /\ [Next]_vars => NoStrandedBlock'
<1> SUFFICES ASSUME TypeOK, WorkerShape, RefusalCurrent, NoStrandedBlock, [Next]_vars
             PROVE  NoStrandedBlock'
  OBVIOUS
<1> USE DEF TypeOK, TableType, WorkerType, EngineType, WorkerShape, RefusalCurrent,
     NoStrandedBlock, Status, Phase, Resumer, Worker
<1>1. ASSUME Spawn PROVE NoStrandedBlock'
  BY <1>1 DEF Spawn
<1>2. ASSUME WakeUp PROVE NoStrandedBlock'
  BY <1>2 DEF WakeUp
<1>3. ASSUME ClaimDue PROVE NoStrandedBlock'
  BY <1>3 DEF ClaimDue, Page, DueRow
<1>4. ASSUME EndCycle PROVE NoStrandedBlock'
  BY <1>4 DEF EndCycle
<1>5. ASSUME Observe PROVE NoStrandedBlock'
  BY <1>5 DEF Observe
<1>6. ASSUME Resumed PROVE NoStrandedBlock'
  BY <1>6 DEF Resumed
<1>7. ASSUME Reconcile PROVE NoStrandedBlock'
  BY <1>7 DEF Reconcile, UnblockReviews, Blocked
<1>8. ASSUME Rewake PROVE NoStrandedBlock'
  BY <1>8 DEF Rewake
<1>9. ASSUME NEW r \in Row, DropExpired(r) PROVE NoStrandedBlock'
  BY <1>9 DEF DropExpired, Oldest, MarkDead
<1>10. ASSUME NEW r \in Row, BeginRow(r) PROVE NoStrandedBlock'
  BY <1>10 DEF BeginRow, Oldest
<1>11. ASSUME NEW r \in Row, GateBlock(r) PROVE NoStrandedBlock'
  BY <1>11 DEF GateBlock
<1>12. ASSUME NEW r \in Row, GateOpen(r) PROVE NoStrandedBlock'
  BY <1>12 DEF GateOpen
<1>13. ASSUME NEW r \in Row, GateResume(r) PROVE NoStrandedBlock'
  BY <1>13 DEF GateResume, Clear
<1>14. ASSUME NEW r \in Row, Succeed(r) PROVE NoStrandedBlock'
  BY <1>14 DEF Succeed
<1>15. ASSUME NEW r \in Row, Fail(r) PROVE NoStrandedBlock'
  BY <1>15 DEF Fail
<1>16. ASSUME NEW r \in Row, Record(r) PROVE NoStrandedBlock'
  BY <1>16 DEF Record, NextAttempt, MarkDone, MarkBlocked, MarkRetry, MarkDead
<1>17. ASSUME Boot PROVE NoStrandedBlock'
  BY <1>17 DEF Boot, UnblockReviews, Blocked
<1>18. ASSUME EndReview PROVE NoStrandedBlock'
  BY <1>18 DEF EndReview
<1>19. ASSUME Crash PROVE NoStrandedBlock'
  BY <1>19 DEF Crash
<1>20. ASSUME NEW r \in Row, Enqueue(r) PROVE NoStrandedBlock'
  BY <1>20 DEF Enqueue, Alive, InsertOrIgnore, Insert
<1>21. ASSUME NEW r \in Row, AnnounceStarted(r) PROVE NoStrandedBlock'
  BY <1>21 DEF AnnounceStarted, InsertOrIgnore, Insert
<1>22. ASSUME NEW r \in Row, Requeue(r) PROVE NoStrandedBlock'
  BY <1>22 DEF Requeue, Alive, Insert
<1>23. ASSUME NEW e \in Engine, StopEngine(e) PROVE NoStrandedBlock'
  BY <1>23 DEF StopEngine, Alive
<1>24. ASSUME NEW c \in Command, NEW e \in Engine, CommandClear(c,e) PROVE NoStrandedBlock'
  BY <1>24 DEF CommandClear, Alive, Clear
<1>25. ASSUME NEW p \in Resumer, Bump(p) PROVE NoStrandedBlock'
  BY <1>25 DEF Bump
<1>26. ASSUME NEW p \in Resumer, Unblock(p) PROVE NoStrandedBlock'
  BY <1>26 DEF Unblock, UnblockReviews, Blocked
<1>27. ASSUME NEW p \in Resumer, ResumeWake(p) PROVE NoStrandedBlock'
  BY <1>27 DEF ResumeWake
<1>28. CASE UNCHANGED <<status, stopped, phase, wpc, obs, gen>>
  BY <1>28
<1> HIDE DEF TypeOK, TableType, WorkerType, EngineType, WorkerShape, RefusalCurrent,
     NoStrandedBlock, Status, Phase, Resumer, Worker
<1>29. QED
  BY <1>1, <1>2, <1>3, <1>4, <1>5, <1>6, <1>7, <1>8, <1>9, <1>10, <1>11, <1>12,
     <1>13, <1>14, <1>15, <1>16, <1>17, <1>18, <1>19, <1>20, <1>21, <1>22, <1>23,
     <1>24, <1>25, <1>26, <1>27, <1>28
     DEF Next, WorkerStep, ResumeStep, vars, Tick, BeginReview, ProducerWake, Elapse,
     Age

\* A page that is not full holds every due row: were one left out, the lowest
\* such row would have a full page of due rows below it (claim_due, CLAIM_LIMIT).
LEMMA ShortPageHoldsAll ==
  ASSUME IsFiniteSet(Row), ClaimLimit \in Nat, Cardinality(Page) < ClaimLimit
  PROVE  DueRow \subseteq Page
<1>1. SUFFICES ASSUME DueRow \ Page # {} PROVE FALSE
  OBVIOUS
<1>2. PICK x \in DueRow \ Page : \A y \in DueRow \ Page : ~(y < x)
  <2>1. DueRow \ Page \subseteq Nat
    BY RowAssumption DEF DueRow
  <2>2. PICK x \in DueRow \ Page :
          \A y \in DueRow \ Page : ~(<<y, x>> \in OpToRel(<, Nat))
    BY <1>1, <2>1, NatLessThanWellFounded, WFMin
  <2>3. QED
    BY <2>1, <2>2 DEF OpToRel
<1> DEFINE S == {q \in DueRow : q < x}
<1>3. S \subseteq Page
  <2>1. DueRow \subseteq Nat
    BY RowAssumption DEF DueRow
  <2>2. QED
    BY <1>2, <2>1
<1>4. IsFiniteSet(Page) /\ IsFiniteSet(S)
  BY FS_Subset DEF Page, DueRow
<1>5. Cardinality(S) \in Nat /\ Cardinality(Page) \in Nat /\ Cardinality(S) <= Cardinality(Page)
  BY <1>3, <1>4, FS_Subset, FS_CardinalityType
<1>6. ~(Cardinality(S) < ClaimLimit)
  BY <1>2 DEF Page
<1>7. QED
  BY <1>5, <1>6

\* Every write that makes a row due at once leaves a signal behind it, and no
\* signal is consumed except by a claim.
LEMMA WakeStep ==
  TypeOK /\ WorkerShape /\ WakeOwed /\ [Next]_vars => WakeOwed'
<1> SUFFICES ASSUME TypeOK, WorkerShape, WakeOwed, [Next]_vars PROVE WakeOwed'
  OBVIOUS
<1> USE DEF TypeOK, TableType, WorkerType, SignalType, EngineType, WorkerShape,
     WakeOwed, Status, Phase, Resumer, Worker
<1>1. ASSUME Spawn PROVE WakeOwed'
  BY <1>1 DEF Spawn
<1>2. ASSUME WakeUp PROVE WakeOwed'
  BY <1>2 DEF WakeUp
<1>3. ASSUME ClaimDue PROVE WakeOwed'
  <2>1. CASE Cardinality(Page) < ClaimLimit
    <3>1. DueRow \subseteq Page
      BY <2>1, ShortPageHoldsAll, RowAssumption, LimitAssumption
    <3>2. QED
      BY <1>3, <3>1 DEF ClaimDue, DueRow
  <2>2. CASE ~(Cardinality(Page) < ClaimLimit)
    <3>1. Cardinality(Page) \in Nat
      BY RowAssumption, FS_Subset, FS_CardinalityType DEF Page, DueRow
    <3>2. Cardinality(Page) >= ClaimLimit
      BY <2>2, <3>1, LimitAssumption
    <3>3. full' = (Cardinality(Page) >= ClaimLimit)
      BY <1>3 DEF ClaimDue
    <3>4. full'
      BY <3>2, <3>3
    <3>5. QED
      BY <3>4
  <2>3. QED
    BY <2>1, <2>2
<1>4. ASSUME EndCycle PROVE WakeOwed'
  BY <1>4 DEF EndCycle
<1>5. ASSUME Observe PROVE WakeOwed'
  BY <1>5 DEF Observe
<1>6. ASSUME Resumed PROVE WakeOwed'
  BY <1>6 DEF Resumed
<1>7. ASSUME Reconcile PROVE WakeOwed'
  BY <1>7 DEF Reconcile, UnblockReviews, Blocked
<1>8. ASSUME Rewake PROVE WakeOwed'
  BY <1>8 DEF Rewake
<1>9. ASSUME NEW r \in Row, DropExpired(r) PROVE WakeOwed'
  BY <1>9 DEF DropExpired, Oldest, MarkDead
<1>10. ASSUME NEW r \in Row, BeginRow(r) PROVE WakeOwed'
  BY <1>10 DEF BeginRow, Oldest
<1>11. ASSUME NEW r \in Row, GateBlock(r) PROVE WakeOwed'
  BY <1>11 DEF GateBlock
<1>12. ASSUME NEW r \in Row, GateOpen(r) PROVE WakeOwed'
  BY <1>12 DEF GateOpen
<1>13. ASSUME NEW r \in Row, GateResume(r) PROVE WakeOwed'
  BY <1>13 DEF GateResume, Clear
<1>14. ASSUME NEW r \in Row, Succeed(r) PROVE WakeOwed'
  BY <1>14 DEF Succeed
<1>15. ASSUME NEW r \in Row, Fail(r) PROVE WakeOwed'
  BY <1>15 DEF Fail
<1>16. ASSUME NEW r \in Row, Record(r) PROVE WakeOwed'
  BY <1>16 DEF Record, NextAttempt, MarkDone, MarkBlocked, MarkRetry, MarkDead
<1>17. ASSUME Boot PROVE WakeOwed'
  BY <1>17 DEF Boot, UnblockReviews, Blocked
<1>18. ASSUME Tick PROVE WakeOwed'
  BY <1>18 DEF Tick
<1>19. ASSUME EndReview PROVE WakeOwed'
  BY <1>19 DEF EndReview
<1>20. ASSUME Crash PROVE WakeOwed'
  BY <1>20 DEF Crash
<1>21. ASSUME NEW r \in Row, Enqueue(r) PROVE WakeOwed'
  BY <1>21 DEF Enqueue, Alive, InsertOrIgnore, Insert
<1>22. ASSUME NEW r \in Row, ProducerWake(r) PROVE WakeOwed'
  BY <1>22 DEF ProducerWake
<1>23. ASSUME NEW r \in Row, AnnounceStarted(r) PROVE WakeOwed'
  BY <1>23 DEF AnnounceStarted, InsertOrIgnore, Insert
<1>24. ASSUME NEW r \in Row, Requeue(r) PROVE WakeOwed'
  BY <1>24 DEF Requeue, Alive, Insert
<1>25. ASSUME NEW r \in Row, Elapse(r) PROVE WakeOwed'
  BY <1>25 DEF Elapse
<1>26. ASSUME NEW c \in Command, NEW e \in Engine, CommandClear(c,e) PROVE WakeOwed'
  BY <1>26 DEF CommandClear, Alive, Clear
<1>27. ASSUME NEW p \in Resumer, Bump(p) PROVE WakeOwed'
  BY <1>27 DEF Bump
<1>28. ASSUME NEW p \in Resumer, Unblock(p) PROVE WakeOwed'
  BY <1>28 DEF Unblock, UnblockReviews, Blocked
<1>29. ASSUME NEW p \in Resumer, ResumeWake(p) PROVE WakeOwed'
  BY <1>29 DEF ResumeWake
<1>30. CASE UNCHANGED <<status, due, wpc, batch, cur, wake, tick, full, owed, phase>>
  BY <1>30
<1> HIDE DEF TypeOK, TableType, WorkerType, SignalType, EngineType, WorkerShape,
     WakeOwed, Status, Phase, Resumer, Worker
<1>31. QED
  BY <1>1, <1>2, <1>3, <1>4, <1>5, <1>6, <1>7, <1>8, <1>9, <1>10, <1>11, <1>12,
     <1>13, <1>14, <1>15, <1>16, <1>17, <1>18, <1>19, <1>20, <1>21, <1>22, <1>23,
     <1>24, <1>25, <1>26, <1>27, <1>28, <1>29, <1>30
     DEF Next, WorkerStep, ResumeStep, vars, BeginReview, Age, StopEngine

-----------------------------------------------------------------------------
LEMMA InitIInv == Init => IInv
<1> SUFFICES ASSUME Init PROVE IInv
  OBVIOUS
<1>1. TypeOK
  BY InitType
<1>2. WorkerShape /\ CopiesOpen /\ ResultEarned /\ RefusalCurrent /\ WakeOwed
  BY DEF Init, WorkerShape, CopiesOpen, ResultEarned, RefusalCurrent, WakeOwed
<1>3. RetryLeft /\ NoFalseDone /\ NoStrandedBlock
  BY DEF Init, RetryLeft, NoFalseDone, NoStrandedBlock
<1>4. QED
  BY <1>1, <1>2, <1>3 DEF IInv

LEMMA StepIInv == IInv /\ [Next]_vars => IInv'
  BY TypeStep, ShapeStep, CopiesStep, RetryStep, EarnedStep, DoneStep, RefusalStep,
     StrandStep, WakeStep DEF IInv

\* The strengthened invariant, from which the theorems below are read off.
LEMMA Invariance == Spec => []IInv
  BY InitIInv, StepIInv, PTL DEF Spec

\* The columns and fields of a running system always have their types.
THEOREM TypeCorrect == Spec => []TypeOK
  BY Invariance, PTL DEF IInv

\* No interleaving of stale copies, cancels and manual retries leaves a queued row
\* whose retry budget is used up (decide_outcome, mark_retry, reset_for_retry).
THEOREM RetryBudgetLasts == Spec => []RetryLeft
  BY Invariance, PTL DEF IInv

\* A row is done only after its effect happened (run_due_once: "no false done").
THEOREM DoneIsEarned == Spec => []NoFalseDone
  BY Invariance, PTL DEF IInv

\* A review is never left blocked behind an engine that runs, however a stop, a
\* resume, the executor's look at the flag and the blocked mark interleave.
THEOREM BlocksAreResumed == Spec => []NoStrandedBlock
  BY Invariance, PTL DEF IInv

\* A parked worker never leaves a row that is due at once to the ticker alone.
THEOREM WakesArePrompt == Spec => []PromptWake
<1>1. IInv => PromptWake
  BY DEF IInv, TypeOK, WorkerShape, WakeOwed, PromptWake
<1>2. QED
  BY <1>1, Invariance, PTL

\* Once done, a row is never written or executed again: not by a replayed enqueue,
\* a manual retry, a resume, a restart or the record of a stale copy.
THEOREM DoneForGood == Spec => DoneIsFinal
<1> DEFINE Final == \A r \in Row : status[r] = "done" => status'[r] = "done" /\ r \notin cur' \ cur
<1>1. ASSUME IInv, [Next]_vars PROVE Final
  <2> USE <1>1 DEF IInv, TypeOK, TableType, WorkerType, WorkerShape, CopiesOpen
  <2>1. ASSUME ClaimDue PROVE Final
    BY <2>1 DEF ClaimDue, Page, DueRow
  <2>2. ASSUME Reconcile PROVE Final
    BY <2>2 DEF Reconcile, UnblockReviews, Blocked
  <2>3. ASSUME NEW r \in Row, DropExpired(r) PROVE Final
    BY <2>3 DEF DropExpired, Oldest, MarkDead
  <2>4. ASSUME NEW r \in Row, BeginRow(r) PROVE Final
    BY <2>4 DEF BeginRow, Oldest
  <2>5. ASSUME NEW r \in Row, Record(r) PROVE Final
    BY <2>5 DEF Record, NextAttempt, MarkDone, MarkBlocked, MarkRetry, MarkDead
  <2>6. ASSUME Boot PROVE Final
    BY <2>6 DEF Boot, UnblockReviews, Blocked
  <2>7. ASSUME EndReview PROVE Final
    BY <2>7 DEF EndReview
  <2>8. ASSUME Crash PROVE Final
    BY <2>8 DEF Crash
  <2>9. ASSUME NEW r \in Row, Enqueue(r) PROVE Final
    BY <2>9 DEF Enqueue, Alive, InsertOrIgnore, Insert
  <2>10. ASSUME NEW r \in Row, AnnounceStarted(r) PROVE Final
    BY <2>10 DEF AnnounceStarted, InsertOrIgnore, Insert
  <2>11. ASSUME NEW r \in Row, Requeue(r) PROVE Final
    BY <2>11 DEF Requeue, Alive, Insert
  <2>12. ASSUME NEW p \in Resumer, Unblock(p) PROVE Final
    BY <2>12 DEF Unblock, UnblockReviews, Blocked
  <2>13. CASE UNCHANGED <<status, cur>>
    BY <2>13
  <2> HIDE DEF IInv, TypeOK, TableType, WorkerType, WorkerShape, CopiesOpen, Final
  <2>14. QED
    BY <1>1, <2>1, <2>2, <2>3, <2>4, <2>5, <2>6, <2>7, <2>8, <2>9, <2>10, <2>11,
     <2>12, <2>13
     DEF Next, WorkerStep, ResumeStep, vars, Spawn, WakeUp, EndCycle, Observe,
     Resumed, Rewake, GateBlock, GateOpen, GateResume, Succeed, Fail, Tick,
     BeginReview, ProducerWake, Elapse, Age, StopEngine, CommandClear, Bump,
     ResumeWake
<1>2. QED
  BY <1>1, Invariance, PTL DEF Spec, DoneIsFinal
-----------------------------------------------------------------------------
(* The refinement of DurableAction.                                        *)

\* One row is produced, recorded as done, or revived; several are given up.
LEMMA Gives ==
  ASSUME TableType, NEW those \in SUBSET Row,
         \A r \in those : status[r] \in {"pending", "blocked"},
         status' = [r \in Row |-> IF r \in those THEN "dead" ELSE status[r]],
         effects' = effects
  PROVE  Durable!Next
<1>1. Durable!GiveUp(those)
  BY DEF TableType, Status, Progress, Durable!GiveUp
<1>2. QED
  BY <1>1 DEF Durable!Next

LEMMA Inserts ==
  ASSUME TableType, NEW r \in Row, NEW d, status[r] \in {"absent", "dead"}, Insert(r, d),
         effects' = effects
  PROVE  Durable!Next
<1>1. CASE status[r] = "absent"
  <2>1. Durable!Produce(r)
    BY <1>1 DEF TableType, Insert, Progress, Durable!Produce
  <2>2. QED
    BY <2>1 DEF Durable!Next
<1>2. CASE status[r] = "dead"
  <2>1. Durable!Revive(r)
    BY <1>2 DEF TableType, Insert, Progress, Durable!Revive
  <2>2. QED
    BY <2>1 DEF Durable!Next
<1>3. QED
  BY <1>1, <1>2

\* A step of the outbox that leaves status and effects alone is no step of it.
LEMMA StepSimulates ==
  IInv /\ [Next]_vars => [Durable!Next]_(Durable!durableVars)
<1> DEFINE Sim == Durable!Next \/ (Progress' = Progress /\ effects' = effects)
<1> SUFFICES ASSUME IInv, [Next]_vars PROVE Sim
  BY DEF Durable!durableVars
<1> USE DEF IInv, TypeOK
<1>1. ASSUME ClaimDue PROVE Sim
  <2>1. status' = [r \in Row |-> IF r \in Page \cap Corrupt THEN "dead" ELSE status[r]]
    BY <1>1 DEF ClaimDue
  <2>2. QED
    BY <1>1, <2>1, Gives DEF ClaimDue, Page, DueRow
<1>2. ASSUME UnblockReviews, UNCHANGED effects PROVE Sim
  BY <1>2 DEF UnblockReviews, Blocked, Progress, TableType
<1>3. ASSUME Reconcile PROVE Sim
  BY <1>2, <1>3 DEF Reconcile, Progress
<1>4. ASSUME NEW r \in Row, MarkDead(r, attempts'[r]), status[r] \in {"pending", "dead"},
             UNCHANGED effects
      PROVE Sim
  <2>1. CASE status[r] = "pending"
    <3>1. status' = [q \in Row |-> IF q \in {r} THEN "dead" ELSE status[q]]
      BY <1>4 DEF MarkDead, TableType
    <3>2. QED
      BY <1>4, <2>1, <3>1, Gives
  <2>2. CASE status[r] = "dead"
    BY <1>4, <2>2 DEF MarkDead, Progress, TableType
  <2>3. QED
    BY <1>4, <2>1, <2>2
<1>5. ASSUME NEW r \in Row, DropExpired(r) PROVE Sim
  <2>1. status[r] \in {"pending", "dead"}
    BY <1>5 DEF DropExpired, Oldest, CopiesOpen
  <2>2. MarkDead(r, attempts'[r]) /\ UNCHANGED effects
    BY <1>5 DEF DropExpired, MarkDead, TableType
  <2>3. QED
    BY <2>1, <2>2, <1>4
<1>6. ASSUME NEW r \in Row, Record(r) PROVE Sim
  <2>1. status[r] \in {"pending", "dead"}
    BY <1>6 DEF Record, CopiesOpen
  <2>2. UNCHANGED effects
    BY <1>6 DEF Record
  <2>3. ASSUME result = "done", MarkDone(r, NextAttempt(r)) PROVE Sim
    <3>1. r \in effects
      BY <1>6, <2>3 DEF Record, ResultEarned
    <3>2. Durable!Complete(r)
      BY <2>1, <2>2, <2>3, <3>1 DEF MarkDone, TableType, Progress, Durable!Complete
    <3>3. QED
      BY <3>2 DEF Durable!Next
  <2>4. ASSUME MarkBlocked(r) PROVE Sim
    BY <2>2, <2>4 DEF MarkBlocked, Progress, TableType
  <2>5. ASSUME MarkRetry(r, NextAttempt(r)) PROVE Sim
    BY <2>2, <2>5 DEF MarkRetry, Progress
  <2>6. ASSUME MarkDead(r, NextAttempt(r)) PROVE Sim
    <3>1. MarkDead(r, attempts'[r])
      BY <2>6 DEF MarkDead, TableType
    <3>2. QED
      BY <2>1, <2>2, <3>1, <1>4
  <2>7. QED
    BY <1>6, <2>3, <2>4, <2>5, <2>6 DEF Record
<1>7. ASSUME NEW r \in Row, effects' \in {effects, effects \cup {r}}, UNCHANGED status,
             status[r] \in {"pending", "dead"}
      PROVE Sim
  <2>1. CASE effects' = effects \cup {r}
    <3>1. Durable!Happen(r)
      BY <1>7, <2>1 DEF Progress, Durable!Happen
    <3>2. QED
      BY <3>1 DEF Durable!Next
  <2>2. CASE effects' = effects
    BY <1>7, <2>2 DEF Progress
  <2>3. QED
    BY <1>7, <2>1, <2>2
<1>8. ASSUME NEW r \in Row, Succeed(r) \/ Fail(r) PROVE Sim
  <2>1. status[r] \in {"pending", "dead"}
    BY <1>8 DEF Succeed, Fail, CopiesOpen
  <2>2. UNCHANGED status /\ effects' \in {effects, effects \cup {r}}
    BY <1>8 DEF Succeed, Fail
  <2>3. QED
    BY <2>1, <2>2, <1>7
<1>9. ASSUME Boot PROVE Sim
  BY <1>2, <1>9 DEF Boot
<1>10. ASSUME NEW p \in Resumer, Unblock(p) PROVE Sim
  BY <1>2, <1>10 DEF Unblock
<1>11. ASSUME EndReview PROVE Sim
  <2> DEFINE those == {r \in Started : status[r] = "pending"}
  <2>1. those \in SUBSET Row /\ \A r \in those : status[r] \in {"pending", "blocked"}
    BY StartedAssumption
  <2>2. status' = [r \in Row |-> IF r \in those THEN "dead" ELSE status[r]]
    BY <1>11 DEF EndReview
  <2>3. effects' = effects
    BY <1>11 DEF EndReview
  <2>4. QED
    BY <2>1, <2>2, <2>3, Gives
<1>12. ASSUME NEW r \in Row, NEW d, InsertOrIgnore(r, d), UNCHANGED effects PROVE Sim
  BY <1>12, Inserts DEF InsertOrIgnore, Progress
<1>13. ASSUME NEW r \in Row, Enqueue(r) PROVE Sim
  BY <1>12, <1>13 DEF Enqueue
<1>14. ASSUME NEW r \in Row, AnnounceStarted(r) PROVE Sim
  BY <1>12, <1>14 DEF AnnounceStarted
<1>15. ASSUME NEW r \in Row, Requeue(r) PROVE Sim
  BY <1>15, Inserts DEF Requeue
<1>16. ASSUME UNCHANGED <<status, effects>> PROVE Sim
  BY <1>16 DEF Progress
<1> HIDE DEF IInv, TypeOK, Sim
<1>17. QED
  BY <1>1, <1>3, <1>5, <1>6, <1>8, <1>9, <1>10, <1>11, <1>13, <1>14, <1>15, <1>16
     DEF Next, WorkerStep, ResumeStep, vars, Spawn, WakeUp, EndCycle, Observe,
     Resumed, Rewake, BeginRow, GateBlock, GateOpen, GateResume, Tick,
     BeginReview, ProducerWake, Elapse, Age, StopEngine, CommandClear, Bump,
     ResumeWake, Crash

\* The outbox implements DurableAction for every set of rows and every bound: its
\* initial states map to initial states and every step to a step or a stutter.
THEOREM OutboxIsDurable == Spec => ImplementsDurableAction
<1>1. Init => Durable!Init
  BY DEF Init, Progress, Durable!Init
<1>2. QED
  BY <1>1, StepSimulates, Invariance, PTL DEF Spec, ImplementsDurableAction, Durable!Spec
=============================================================================
