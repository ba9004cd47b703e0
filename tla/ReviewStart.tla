---------------------------- MODULE ReviewStart -----------------------------
(***************************************************************************)
(* How an outbox row comes to start its review at most once: the executor  *)
(* run_review_action, the write-ahead claim start_for_outbox keeps by the  *)
(* row's id, the session row the engine commits together with the claim's  *)
(* thread, and the dispatch ledger that stops a head from being offered    *)
(* again.                                                                  *)
(*                                                                         *)
(* All rows are for one (project, pull request, skill): the registry lets  *)
(* one of them start at a time.  The memory of the program (reservation,   *)
(* live sessions, executors) is lost in a crash, the rows are not.         *)
(***************************************************************************)
EXTENDS Naturals, Sequences, FiniteSets

CONSTANTS
  ReviewRow,   \* outbox rows of run-skill actions
  NoReviewRow, \* the session was started by hand
  HeadOfRow,   \* the head each row is for
  Kind,        \* the engines the project may use: subset of {"codex", "claude", "cursor"}
  MaxSession,  \* sessions ever started
  MaxMishap    \* failed steps, lost writes and crashes

ASSUME ReviewRowAssumption ==
  NoReviewRow \notin ReviewRow /\ DOMAIN HeadOfRow = ReviewRow /\ MaxSession \in Nat

VARIABLES
  kind,      \* the project's engine
  exec,      \* where the executor of each row is; "idle" is a pending row
  claim,     \* outbox_review_claim: absent, or a session, 0 while it names none
  sessions,  \* review_session rows and what the registry has of them
  pairTaken, \* the reservation of the pair
  ran,       \* the sessions whose review the engine did run
  ledger,    \* heads recorded as dispatched
  mishaps    \* mishaps left

startDurable == <<kind, claim, sessions, ran, ledger>>
startVars == <<startDurable, exec, pairTaken, mishaps>>

NoClaim == MaxSession + 1
InFlightStatus == {"starting", "running"}
StartSession == [row : ReviewRow \cup {NoReviewRow}, status : InFlightStatus \cup {"done", "failed"},
                 turn : BOOLEAN,  \* turn_id is not empty
                 live : BOOLEAN]  \* the registry has it in flight

ReviewStartInit ==
  /\ kind \in Kind
  /\ exec = [r \in ReviewRow |-> "idle"]
  /\ claim = [r \in ReviewRow |-> NoClaim]
  /\ sessions = <<>> /\ pairTaken = FALSE /\ ran = {} /\ ledger = {}
  /\ mishaps = MaxMishap

Exec(r, from, to) == exec[r] = from /\ exec' = [exec EXCEPT ![r] = to]
Mishap == mishaps > 0 /\ mishaps' = mishaps - 1
LiveSession == \E s \in DOMAIN sessions : sessions[s].live
SessionOf(r) == CHOOSE s \in DOMAIN sessions :
                  /\ sessions[s].row = r
                  /\ \A u \in DOMAIN sessions : sessions[u].row = r => u <= s

-----------------------------------------------------------------------------
(* The executor of one row.                                                *)

\* The worker has claimed the row; project and payload are valid.
TakeRow(r) ==
  /\ Exec(r, "idle", "claim")
  /\ UNCHANGED <<startDurable, pairTaken, mishaps>>

\* replayed_review_should_suppress: only a failed session without a turn proves that
\* nothing was posted.
Suppressed(s) == ~(sessions[s].status = "failed" /\ ~sessions[s].turn)

\* begin_claim: insert or keep, and read the thread back, in one transaction.
BeginClaim(r) ==
  /\ exec[r] = "claim"
  /\ claim' = [claim EXCEPT ![r] = IF @ = NoClaim THEN 0 ELSE @]
  /\ exec' = [exec EXCEPT ![r] =
                IF claim'[r] \in DOMAIN sessions /\ Suppressed(claim'[r])
                THEN "ledger" ELSE "reserve"]
  /\ UNCHANGED <<kind, sessions, ran, ledger, pairTaken, mishaps>>

\* try_reserve_pair
ReservePair(r) ==
  /\ ~pairTaken /\ ~LiveSession
  /\ Exec(r, "reserve", "connect")
  /\ pairTaken' = TRUE
  /\ UNCHANGED <<startDurable, mishaps>>

\* Mutant: only the ledger is looked at.
LedgerDeduped(r) ==
  /\ Exec(r, "reserve", "ledger") /\ LiveSession
  /\ UNCHANGED <<startDurable, pairTaken, mishaps>>

\* StartReviewOutcome::Deduped: a live session is the row's outcome, which is not
\* ledgered; a mere reservation is an error, to be retried.
Deduped(r) ==
  /\ Exec(r, "reserve", "finish") /\ LiveSession
  /\ UNCHANGED <<startDurable, pairTaken, mishaps>>

OnlyReserved(r) ==
  /\ Exec(r, "reserve", "idle") /\ pairTaken /\ ~LiveSession
  /\ UNCHANGED <<startDurable, pairTaken, mishaps>>

\* connection, thread/start (session/new, the init line) or the transaction fails:
\* the guard releases the pair and the row is retried.
StartRefused(r) ==
  /\ Exec(r, "connect", "idle") /\ Mishap
  /\ pairTaken' = FALSE
  /\ UNCHANGED startDurable

\* Codex names the turn only when turn/start has answered; Claude and Cursor have no
\* turn of their own and repeat the session id.
NewSession(r) ==
  [row |-> r, status |-> "starting", turn |-> kind # "codex", live |-> TRUE]

\* Mutant: the claim does not learn of the session.
CommitUnclaimed(r) ==
  /\ Exec(r, "connect", "turn") /\ Len(sessions) < MaxSession
  /\ sessions' = Append(sessions, NewSession(r))
  /\ ran' = IF kind = "claude" THEN ran \cup {Len(sessions) + 1} ELSE ran
  /\ pairTaken' = FALSE
  /\ UNCHANGED <<kind, claim, ledger, mishaps>>

\* commit_starting_session: the session row and the claim's thread in one
\* transaction, then the registry takes the session for the reservation.  claude has
\* its prompt from the start.
CommitStarting(r) ==
  /\ Exec(r, "connect", "turn") /\ Len(sessions) < MaxSession
  /\ sessions' = Append(sessions, NewSession(r))
  /\ claim' = [claim EXCEPT ![r] = Len(sessions) + 1]
  /\ ran' = IF kind = "claude" THEN ran \cup {Len(sessions) + 1} ELSE ran
  /\ pairTaken' = FALSE
  /\ UNCHANGED <<kind, ledger, mishaps>>

\* turn/start is answered; for the other two engines there is nothing to start, and
\* Cursor's pump prompts later.
StartTurn(r) ==
  /\ Exec(r, "turn", "running")
  /\ ran' = IF kind = "codex" THEN ran \cup {SessionOf(r)} ELSE ran
  /\ UNCHANGED <<kind, claim, sessions, ledger, pairTaken, mishaps>>

\* set_running and its row, best-effort: a write that fails is not noticed.
PersistTurn(r) ==
  /\ Exec(r, "running", "ledger")
  /\ \/ /\ sessions' = [sessions EXCEPT ![SessionOf(r)] =
                           [@ EXCEPT !.status = "running", !.turn = TRUE]]
        /\ UNCHANGED mishaps
     \/ Mishap /\ UNCHANGED sessions
  /\ UNCHANGED <<kind, claim, ran, ledger, pairTaken>>

\* turn/start fails, or its answer is lost; set_status and its row, and a retry.
TurnRefused(r) ==
  LET s == SessionOf(r) IN
  /\ kind = "codex" /\ Exec(r, "turn", "idle") /\ Mishap
  /\ sessions' = [sessions EXCEPT ![s] = [@ EXCEPT !.status = "failed", !.live = FALSE]]
  /\ ran' \in {ran, ran \cup {s}}
  /\ UNCHANGED <<kind, claim, ledger, pairTaken>>

\* record_dispatched, for a session that was started or found by its claim.
RecordDispatched(r) ==
  /\ Exec(r, "ledger", "finish")
  /\ ledger' = ledger \cup {HeadOfRow[r]}
  /\ UNCHANGED <<kind, claim, sessions, ran, pairTaken, mishaps>>

RecordFails(r) ==
  /\ Exec(r, "ledger", "idle") /\ Mishap
  /\ UNCHANGED <<startDurable, pairTaken>>

\* The worker makes the row done; then release_claim.
FinishRow(r) ==
  /\ Exec(r, "finish", "done")
  /\ claim' = [claim EXCEPT ![r] = NoClaim]
  /\ UNCHANGED <<kind, sessions, ran, ledger, pairTaken, mishaps>>

-----------------------------------------------------------------------------
(* The rest of the program.                                                *)

\* A review started by hand, in one step: it has no claim and no ledger entry.
ManualReview ==
  /\ ~pairTaken /\ ~LiveSession /\ Len(sessions) < MaxSession
  /\ sessions' = Append(sessions, [row |-> NoReviewRow, status |-> "running",
                                   turn |-> TRUE, live |-> TRUE])
  /\ ran' = ran \cup {Len(sessions) + 1}
  /\ UNCHANGED <<kind, claim, ledger, exec, pairTaken, mishaps>>

\* Its start has come to the spawning of the pump.
LetGo(s) == \A r \in ReviewRow : exec[r] \in {"turn", "running"} => SessionOf(r) # s

\* Cursor's pump sends session/prompt.
Prompt(s) ==
  /\ kind = "cursor" /\ sessions[s].live /\ s \notin ran /\ LetGo(s)
  /\ ran' = ran \cup {s}
  /\ UNCHANGED <<kind, claim, sessions, ledger, exec, pairTaken, mishaps>>

\* finalize_turn, once the executor has let go of the session.
Finalize(s) ==
  /\ sessions[s].live /\ s \in ran
  /\ LetGo(s)
  /\ \E outcome \in {"done", "failed"} :
       sessions' = [sessions EXCEPT ![s] = [@ EXCEPT !.status = outcome, !.live = FALSE]]
  /\ UNCHANGED <<kind, claim, ran, ledger, exec, pairTaken, mishaps>>

\* The program restarts: fail_orphaned_sessions, and the outbox takes its rows back.
StartCrash ==
  /\ Mishap
  /\ sessions' = [s \in DOMAIN sessions |->
                    [sessions[s] EXCEPT !.live = FALSE,
                       !.status = IF @ \in InFlightStatus THEN "failed" ELSE @]]
  /\ exec' = [r \in ReviewRow |-> IF exec[r] = "done" THEN "done" ELSE "idle"]
  /\ pairTaken' = FALSE
  /\ UNCHANGED <<kind, claim, ran, ledger>>

ReviewStartNext ==
  \/ \E r \in ReviewRow :
       \/ TakeRow(r) \/ BeginClaim(r) \/ ReservePair(r) \/ Deduped(r) \/ OnlyReserved(r)
       \/ StartRefused(r) \/ CommitStarting(r) \/ StartTurn(r)
       \/ PersistTurn(r) \/ TurnRefused(r)
       \/ RecordDispatched(r) \/ RecordFails(r) \/ FinishRow(r)
  \/ ManualReview \/ StartCrash
  \/ \E s \in DOMAIN sessions : Prompt(s) \/ Finalize(s)

ReviewStartSpec == ReviewStartInit /\ [][ReviewStartNext]_startVars

-----------------------------------------------------------------------------
ReviewStartTypeOK ==
  /\ kind \in Kind /\ sessions \in Seq(StartSession) /\ Len(sessions) <= MaxSession
  /\ exec \in [ReviewRow ->
       {"idle", "claim", "reserve", "connect", "turn", "running", "ledger", "finish",
        "done"}]
  /\ claim \in [ReviewRow -> 0..MaxSession + 1]
  /\ pairTaken \in BOOLEAN /\ ran \subseteq DOMAIN sessions
  /\ ledger \subseteq {HeadOfRow[r] : r \in ReviewRow}

\* A row's review is started once: whatever fails, is lost or crashes between the
\* claim, the session, the turn and the ledger, a second session is started for the
\* row only if the record shows no turn of the first (begin_claim,
\* attach_started_session, replayed_review_should_suppress).
OneRecordedReview ==
  \A r \in ReviewRow : Cardinality({s \in DOMAIN sessions :
                                      sessions[s].row = r /\ sessions[s].turn}) <= 1

\* The ledger, which stops a head from ever being offered again, has a head only if
\* a session for that very head has a turn on record or did run: the live session of
\* another head, found by try_reserve_pair, does not count
\* (should_record_dispatch_ledger).
LedgerMeansReviewed ==
  \A h \in ledger : \E s \in DOMAIN sessions :
    /\ sessions[s].row # NoReviewRow /\ HeadOfRow[sessions[s].row] = h
    /\ s \in ran \/ sessions[s].turn
=============================================================================
