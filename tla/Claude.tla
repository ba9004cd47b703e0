------------------------------- MODULE Claude -------------------------------
(***************************************************************************)
(* The Claude engine: a review or a follow-up is one child process (claude *)
(* -p), one pump that reads it, and one cancel channel, whose sender       *)
(* ClaudeManager keeps under the session's id.  A turn ends through the    *)
(* shared funnel finalize_turn and then takes the sender out of the        *)
(* manager, whoever's it is by then.                                       *)
(*                                                                         *)
(* One session, whose turn 1 is the review.                                *)
(***************************************************************************)
EXTENDS Naturals, FiniteSets

CONSTANTS
  MaxClaudeTurn, \* turns of the session
  MaxStop        \* stops

ASSUME ClaudeAssumption == MaxClaudeTurn \in Nat \ {0} /\ MaxStop \in Nat

VARIABLES
  cStatus,  \* the session in the registry
  cSender,  \* ClaudeManager.inner: the turn whose sender it holds, or 0
  cancel,   \* what the receiver of each turn has seen
  cTurn,    \* where each turn is
  cChild,   \* the child of each turn
  cOutcome, \* the wire status each turn is shown to have ended with
  cAsked,   \* turns whose sender a stop has signalled
  cStops    \* stops left

claudeVars == <<cStatus, cSender, cancel, cTurn, cChild, cOutcome, cAsked, cStops>>

ClaudeTurn == 1..MaxClaudeTurn
ClaudeInFlight == cStatus = "running"
Outcome == {"completed", "failed", "interrupted"}

ClaudeInit ==
  /\ cStatus = "none" /\ cSender = 0
  /\ cancel = [t \in ClaudeTurn |-> "quiet"] /\ cTurn = [t \in ClaudeTurn |-> "none"]
  /\ cChild = [t \in ClaudeTurn |-> "none"] /\ cOutcome = [t \in ClaudeTurn |-> "none"]
  /\ cAsked = {} /\ cStops = MaxStop

Step(t, from, to) == cTurn[t] = from /\ cTurn' = [cTurn EXCEPT ![t] = to]
Child(t, state) == cChild' = [cChild EXCEPT ![t] = state]

\* register replaces the sender and deregister removes it: a sender that goes without
\* having signalled is dropped, and the receiver's changed() is an error.
Dropped(new) ==
  /\ cSender' = new
  /\ cancel' = [t \in ClaudeTurn |-> IF t = cSender /\ t # new THEN "dropped" ELSE cancel[t]]

-----------------------------------------------------------------------------
(* start_review and resume_review                                          *)

\* Reserved and spawned; the id is not known before the init line.
SpawnReview ==
  /\ Step(1, "none", "first") /\ Child(1, "runs")
  /\ UNCHANGED <<cStatus, cSender, cancel, cOutcome, cAsked, cStops>>

\* No init line, or the session cannot be committed: the child is dropped (killed).
ReviewFails ==
  /\ Step(1, "first", "ended") /\ Child(1, "gone")
  /\ UNCHANGED <<cStatus, cSender, cancel, cOutcome, cAsked, cStops>>

\* Committed, promoted and running, but not yet in the manager.
ReviewStarts ==
  /\ Step(1, "first", "started") /\ cStatus' = "running"
  /\ UNCHANGED <<cSender, cancel, cChild, cOutcome, cAsked, cStops>>

RegisterReview ==
  /\ Step(1, "started", "pump") /\ Dropped(1)
  /\ UNCHANGED <<cStatus, cChild, cOutcome, cAsked, cStops>>

\* begin_resume: a terminal session, whose last turn may not be through yet.
ResumeClaude(t) ==
  /\ cStatus \in {"done", "failed"} /\ t > 1 /\ cTurn[t - 1] # "none"
  /\ Step(t, "none", "resumed") /\ cStatus' = "running"
  /\ UNCHANGED <<cSender, cancel, cChild, cOutcome, cAsked, cStops>>

RegisterFollowUp(t) ==
  /\ Step(t, "resumed", "spawn") /\ Dropped(t)
  /\ UNCHANGED <<cStatus, cChild, cOutcome, cAsked, cStops>>

SpawnFollowUp(t) ==
  /\ Step(t, "spawn", "init") /\ Child(t, "runs")
  /\ UNCHANGED <<cStatus, cSender, cancel, cOutcome, cAsked, cStops>>

\* The spawn fails, or the child ends before its init line: no funnel, set_status and
\* deregister.
FollowUpFails(t) ==
  /\ \/ cTurn[t] = "spawn"
     \/ cTurn[t] = "init" /\ cChild[t] = "gone"
  /\ cTurn' = [cTurn EXCEPT ![t] = "ended"] /\ Child(t, "gone") /\ cStatus' = "failed"
  /\ Dropped(0)
  /\ UNCHANGED <<cOutcome, cAsked, cStops>>

\* The line may come from a child that is gone by now.
InitLine(t) ==
  /\ Step(t, "init", "pump")
  /\ UNCHANGED <<cStatus, cSender, cancel, cChild, cOutcome, cAsked, cStops>>

-----------------------------------------------------------------------------
(* The pump, or the wait for the init line, and finish.                    *)

\* try_begin_terminal: the funnel goes on only for the one who ends the session.
Finish(t, outcome) ==
  /\ cOutcome' = IF ClaudeInFlight THEN [cOutcome EXCEPT ![t] = outcome] ELSE cOutcome
  /\ cTurn' = [cTurn EXCEPT ![t] = IF ClaudeInFlight THEN "settle" ELSE "deregister"]
  /\ cStatus' = IF ClaudeInFlight THEN IF outcome = "failed" THEN "failed" ELSE "done"
                ELSE cStatus

\* changed() resolves for a signal and for a dropped sender alike.
Cancelled(t) ==
  /\ cTurn[t] \in {"init", "pump"} /\ cancel[t] # "quiet"
  /\ Child(t, "gone") /\ Finish(t, "interrupted")
  /\ UNCHANGED <<cSender, cancel, cAsked, cStops>>

\* The result line, or the end of the output without one.
ChildDone(t) ==
  /\ cTurn[t] = "pump"
  /\ \/ cChild[t] = "result" /\ \E o \in {"completed", "failed"} : Finish(t, o)
     \/ cChild[t] = "gone" /\ Finish(t, "failed")
  /\ UNCHANGED <<cSender, cancel, cChild, cAsked, cStops>>

\* The comment URL of a completed turn is resolved across an await (gh); then status
\* and URL are set, whatever the status has become.
Settle(t) ==
  /\ Step(t, "settle", "deregister")
  /\ cStatus' = IF cOutcome[t] = "failed" THEN "failed" ELSE "done"
  /\ UNCHANGED <<cSender, cancel, cChild, cOutcome, cAsked, cStops>>

Deregister(t) ==
  /\ Step(t, "deregister", "ended") /\ Dropped(0) /\ Child(t, "gone")
  /\ UNCHANGED <<cStatus, cOutcome, cAsked, cStops>>

-----------------------------------------------------------------------------
(* ClaudeManager::stop, and shutdown, which does it for every session.     *)
StopClaude ==
  /\ cStops > 0 /\ cStops' = cStops - 1
  /\ cSender # 0 /\ cSender' = 0
  /\ cancel' = [cancel EXCEPT ![cSender] = "sent"]
  /\ cAsked' = cAsked \cup {cSender}
  /\ UNCHANGED <<cStatus, cTurn, cChild, cOutcome>>

\* The child; nothing makes it hurry.
ChildEnds(t) ==
  /\ cChild[t] = "runs"
  /\ \E state \in {"result", "gone"} : Child(t, state)
  /\ UNCHANGED <<cStatus, cSender, cancel, cTurn, cOutcome, cAsked, cStops>>

TurnStep(t) ==
  \/ RegisterFollowUp(t) \/ SpawnFollowUp(t) \/ FollowUpFails(t)
  \/ Settle(t) \/ Deregister(t) \/ Cancelled(t)

ClaudeNext ==
  \/ SpawnReview \/ ReviewFails \/ ReviewStarts \/ RegisterReview \/ StopClaude
  \/ \E t \in ClaudeTurn :
       TurnStep(t) \/ ResumeClaude(t) \/ InitLine(t) \/ ChildDone(t) \/ ChildEnds(t)

\* Tasks run; a select sees a cancel that stays.
ClaudeFair == \A t \in ClaudeTurn : WF_claudeVars(TurnStep(t))

-----------------------------------------------------------------------------
ClaudeTypeOK ==
  /\ cStatus \in {"none", "running", "done", "failed"} /\ cSender \in 0..MaxClaudeTurn
  /\ cancel \in [ClaudeTurn -> {"quiet", "sent", "dropped"}]
  /\ cTurn \in [ClaudeTurn -> {"none", "first", "started", "resumed", "spawn", "init",
                               "pump", "settle", "deregister", "ended"}]
  /\ cChild \in [ClaudeTurn -> {"none", "runs", "result", "gone"}]
  /\ cOutcome \in [ClaudeTurn -> Outcome \cup {"none"}]
  /\ cAsked \subseteq ClaudeTurn /\ cStops \in 0..MaxStop

\* No turn that a stop has signalled is still going.
SignalledEnded == \A t \in cAsked : cTurn[t] = "ended"
=============================================================================
