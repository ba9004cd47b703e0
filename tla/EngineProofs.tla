---------------------------- MODULE EngineProofs ----------------------------
(***************************************************************************)
(* Proofs about what runs a review: its start from the outbox, the         *)
(* resident app-server and its JSON-RPC client, and the Cursor engine.     *)
(* They share no state, so each part has an invariant of its own.          *)
(***************************************************************************)
EXTENDS ReviewStart, CodexManager, Rpc, Cursor, FiniteSetTheorems, TLAPS

-----------------------------------------------------------------------------
(***************************************************************************)
(* Proofs about the start of a review, for any set of outbox rows, any     *)
(* engine and any number of sessions and crashes.  The claim is the link:  *)
(* a recorded session of a row that is not done is the one it names.       *)
(***************************************************************************)

Recorded(s, r) == sessions[s].row = r /\ sessions[s].turn
Reviewed(s) == s \in ran \/ sessions[s].turn

\* The session that a claim names is there, and of its row.
ClaimsTheirs ==
  \A r \in ReviewRow :
    /\ claim[r] \in DOMAIN sessions \cup {0, NoClaim}
    /\ claim[r] \in DOMAIN sessions => sessions[claim[r]].row = r

\* A session with a turn on record is the one the claim names, until the row is done.
RecordedIsClaimed ==
  \A r \in ReviewRow, s \in DOMAIN sessions :
    Recorded(s, r) /\ exec[r] # "done" => claim[r] = s
RecordedOnce ==
  \A r \in ReviewRow, s, u \in DOMAIN sessions : Recorded(s, r) /\ Recorded(u, r) => s = u

\* An executor that may still start a session has passed a record without one.
StartsUnrecorded ==
  \A r \in ReviewRow, s \in DOMAIN sessions :
    exec[r] \in {"reserve", "connect"} => ~Recorded(s, r)

\* The session an executor started is the claimed one, and the last of the row.
StartedIsLast ==
  \A r \in ReviewRow : exec[r] \in {"turn", "running"} =>
    /\ claim[r] \in DOMAIN sessions /\ sessions[claim[r]].status = "starting"
    /\ \A u \in DOMAIN sessions : sessions[u].row = r => u <= claim[r]

\* Only Codex has sessions without a turn.
OthersHaveTurns == kind # "codex" => \A s \in DOMAIN sessions : sessions[s].turn

\* A claimed session that has not failed was reviewed, unless its turn is being started.
ClaimedRan ==
  \A r \in ReviewRow :
    /\ claim[r] \in DOMAIN sessions /\ sessions[claim[r]].status # "failed"
    /\ exec[r] # "turn" \/ sessions[claim[r]].status = "done"
    => Reviewed(claim[r])
LedgerAhead ==
  \A r \in ReviewRow : exec[r] = "ledger" =>
    \E s \in DOMAIN sessions : sessions[s].row = r /\ Reviewed(s)

StartInv ==
  /\ ReviewStartTypeOK /\ ClaimsTheirs /\ RecordedIsClaimed /\ RecordedOnce
  /\ StartsUnrecorded /\ StartedIsLast /\ OthersHaveTurns /\ ClaimedRan /\ LedgerAhead
  /\ LedgerMeansReviewed

LEMMA StartInitInv == ReviewStartInit => StartInv
<1> SUFFICES ASSUME ReviewStartInit PROVE StartInv
  OBVIOUS
<1>1. sessions = <<>> /\ DOMAIN sessions = {} /\ ran = {} /\ ledger = {}
  BY DEF ReviewStartInit
<1>2. ReviewStartTypeOK
  <2>1. NoClaim \in 0..MaxSession + 1 /\ Len(<<>>) = 0 /\ 0 <= MaxSession
    BY ReviewRowAssumption DEF NoClaim
  <2>2. sessions \in Seq(StartSession)
    BY <1>1
  <2>3. QED
    BY <1>1, <2>1, <2>2 DEF ReviewStartInit, ReviewStartTypeOK
<1>3. /\ ClaimsTheirs /\ RecordedIsClaimed /\ RecordedOnce /\ StartsUnrecorded
      /\ OthersHaveTurns /\ ClaimedRan /\ LedgerMeansReviewed
  BY <1>1 DEF ReviewStartInit, ClaimsTheirs, RecordedIsClaimed, RecordedOnce,
              StartsUnrecorded, OthersHaveTurns, ClaimedRan, LedgerMeansReviewed
<1>4. StartedIsLast /\ LedgerAhead
  BY DEF ReviewStartInit, StartedIsLast, LedgerAhead
<1>5. QED
  BY <1>2, <1>3, <1>4 DEF StartInv

\* The session of an executor that is starting a turn is the one its claim names.
LEMMA SessionIsClaimed ==
  ASSUME StartInv, NEW r \in ReviewRow, exec[r] \in {"turn", "running"}
  PROVE  SessionOf(r) = claim[r] /\ claim[r] \in DOMAIN sessions /\ sessions[claim[r]].row = r
<1>1. /\ claim[r] \in DOMAIN sessions /\ sessions[claim[r]].row = r
      /\ \A u \in DOMAIN sessions : sessions[u].row = r => u <= claim[r]
  BY DEF StartInv, StartedIsLast, ClaimsTheirs
<1>2. DOMAIN sessions \subseteq Nat
  BY DEF StartInv, ReviewStartTypeOK
<1>3. /\ SessionOf(r) \in DOMAIN sessions /\ sessions[SessionOf(r)].row = r
      /\ \A u \in DOMAIN sessions : sessions[u].row = r => u <= SessionOf(r)
  BY <1>1 DEF SessionOf
<1>4. QED
  BY <1>1, <1>2, <1>3

\* Steps of an executor that leave sessions and claims alone.
LEMMA QuietInv ==
  ASSUME StartInv, NEW r \in ReviewRow,
         \/ TakeRow(r) \/ ReservePair(r) \/ Deduped(r) \/ OnlyReserved(r) \/ StartRefused(r)
         \/ RecordDispatched(r) \/ RecordFails(r)
  PROVE  StartInv'
<1> USE DEF StartInv, Exec, startDurable
<1>1. /\ UNCHANGED <<kind, claim, sessions, ran>> /\ pairTaken' \in BOOLEAN
      /\ \E from, to \in {"idle", "claim", "reserve", "connect", "ledger", "finish"} :
           /\ exec[r] = from /\ exec' = [exec EXCEPT ![r] = to]
           /\ to \in {"reserve", "connect"} => from \in {"reserve", "connect"}
           /\ to # "ledger"
      /\ ledger' = ledger \/ (exec[r] = "ledger" /\ ledger' = ledger \cup {HeadOfRow[r]})
  BY DEF ReviewStartTypeOK, TakeRow, ReservePair, Deduped, OnlyReserved, StartRefused,
         RecordDispatched, RecordFails
<1>2. ReviewStartTypeOK'
  BY <1>1 DEF ReviewStartTypeOK
<1>3. exec \in [ReviewRow -> {"idle", "claim", "reserve", "connect", "turn", "running", "ledger",
                              "finish", "done"}]
  BY DEF ReviewStartTypeOK
<1>4. ClaimsTheirs' /\ OthersHaveTurns' /\ RecordedOnce'
  BY <1>1 DEF ClaimsTheirs, OthersHaveTurns, RecordedOnce, Recorded
<1>5. RecordedIsClaimed' /\ StartsUnrecorded' /\ StartedIsLast'
  BY <1>1, <1>3 DEF RecordedIsClaimed, StartsUnrecorded, StartedIsLast, Recorded
<1>6. ClaimedRan' /\ LedgerAhead'
  BY <1>1, <1>3 DEF ClaimedRan, LedgerAhead, Reviewed
<1>7. LedgerMeansReviewed'
  BY <1>1, ReviewRowAssumption DEF LedgerMeansReviewed, LedgerAhead, Reviewed
<1>8. QED
  BY <1>2, <1>4, <1>5, <1>6, <1>7

\* A record that shows a turn sends the executor past the start.
LEMMA BeginInv ==
  ASSUME StartInv, NEW r \in ReviewRow, BeginClaim(r)
  PROVE  StartInv'
<1> USE DEF StartInv
<1>1. /\ exec[r] = "claim" /\ UNCHANGED <<kind, sessions, ran, ledger, pairTaken>>
      /\ claim' = [claim EXCEPT ![r] = IF @ = NoClaim THEN 0 ELSE @]
      /\ exec' = [exec EXCEPT ![r] = IF claim'[r] \in DOMAIN sessions /\ Suppressed(claim'[r])
                                     THEN "ledger" ELSE "reserve"]
  BY DEF BeginClaim
<1>2. /\ claim \in [ReviewRow -> 0..MaxSession + 1] /\ sessions \in Seq(StartSession)
      /\ DOMAIN sessions = 1..Len(sessions) /\ Len(sessions) \in 0..MaxSession
      /\ exec \in [ReviewRow -> {"idle", "claim", "reserve", "connect", "turn", "running",
                                 "ledger", "finish", "done"}]
  BY DEF ReviewStartTypeOK
<1>3. /\ claim' \in [ReviewRow -> 0..MaxSession + 1]
      /\ \A q \in ReviewRow : claim'[q] = claim[q] \/ (q = r /\ claim[q] \notin DOMAIN sessions
                                                       /\ claim'[q] \notin DOMAIN sessions)
  BY <1>1, <1>2, ReviewRowAssumption DEF NoClaim
<1>4. ReviewStartTypeOK'
  BY <1>1, <1>2, <1>3 DEF ReviewStartTypeOK
<1>5. ClaimsTheirs' /\ OthersHaveTurns' /\ RecordedOnce'
  BY <1>1, <1>3 DEF ClaimsTheirs, OthersHaveTurns, RecordedOnce, Recorded
<1>6. RecordedIsClaimed'
  BY <1>1, <1>2, <1>3 DEF RecordedIsClaimed, Recorded
<1>7. StartsUnrecorded'
  <2>1. ASSUME NEW s \in DOMAIN sessions, Recorded(s, r) PROVE exec'[r] = "ledger"
    <3>1. claim[r] = s /\ claim'[r] = s
      BY <1>1, <1>3, <2>1 DEF RecordedIsClaimed
    <3>2. Suppressed(s)
      BY <2>1 DEF Recorded, Suppressed
    <3>3. QED
      BY <1>1, <1>2, <3>1, <3>2
  <2>2. QED
    BY <1>1, <1>2, <2>1 DEF StartsUnrecorded, Recorded
<1>8. StartedIsLast'
  BY <1>1, <1>2, <1>3 DEF StartedIsLast
<1>9. ClaimedRan'
  BY <1>1, <1>2, <1>3 DEF ClaimedRan, Reviewed
<1>10. LedgerAhead'
  <2>1. ASSUME exec'[r] = "ledger"
        PROVE  \E s \in DOMAIN sessions : sessions[s].row = r /\ Reviewed(s)
    <3>1. claim'[r] \in DOMAIN sessions /\ Suppressed(claim'[r]) /\ claim'[r] = claim[r]
      BY <1>1, <1>2, <1>3, <2>1
    <3>2. sessions[claim[r]].row = r
      BY <3>1 DEF ClaimsTheirs
    <3>3. Reviewed(claim[r])
      BY <1>1, <3>1 DEF Suppressed, ClaimedRan, Reviewed
    <3>4. QED
      BY <3>1, <3>2, <3>3
  <2>2. QED
    BY <1>1, <1>2, <2>1 DEF LedgerAhead, Reviewed
<1>11. LedgerMeansReviewed'
  BY <1>1 DEF LedgerMeansReviewed
<1>12. QED
  BY <1>4, <1>5, <1>6, <1>7, <1>8, <1>9, <1>10, <1>11

\* A session that is new: what was on record stays as it was.
LEMMA NewInv ==
  ASSUME StartInv, NEW new \in StartSession, Len(sessions) < MaxSession,
         sessions' = Append(sessions, new), ran \subseteq ran', ran' \subseteq DOMAIN sessions',
         kind # "codex" => new.turn, UNCHANGED <<kind, ledger>>, pairTaken' \in BOOLEAN,
         \/ new.row = NoReviewRow /\ UNCHANGED <<exec, claim>>
         \/ \E r \in ReviewRow : /\ Exec(r, "connect", "turn") /\ new.row = r
                                 /\ new.status = "starting"
                                 /\ claim' = [claim EXCEPT ![r] = Len(sessions) + 1]
  PROVE  StartInv'
<1> USE DEF StartInv
<1> DEFINE n == Len(sessions) + 1
<1>1. /\ sessions \in Seq(StartSession) /\ DOMAIN sessions = 1..Len(sessions)
      /\ claim \in [ReviewRow -> 0..MaxSession + 1] /\ Len(sessions) \in 0..MaxSession
      /\ exec \in [ReviewRow -> {"idle", "claim", "reserve", "connect", "turn", "running",
                                 "ledger", "finish", "done"}]
  BY DEF ReviewStartTypeOK
<1>2. /\ sessions' \in Seq(StartSession) /\ Len(sessions') = n /\ n \in 1..MaxSession
      /\ DOMAIN sessions' = DOMAIN sessions \cup {n} /\ n \notin DOMAIN sessions
      /\ sessions'[n] = new /\ \A s \in DOMAIN sessions : sessions'[s] = sessions[s]
      /\ \A s \in DOMAIN sessions : s \in Nat /\ s < n
  BY <1>1, ReviewRowAssumption
<1>3. \A s \in DOMAIN sessions : Reviewed(s) => Reviewed(s)'
  BY <1>2 DEF Reviewed
<1>4. LedgerMeansReviewed'
  BY <1>2 DEF LedgerMeansReviewed
<1>5. OthersHaveTurns'
  BY <1>2 DEF OthersHaveTurns
<1>6. ASSUME claim' \in [ReviewRow -> 0..MaxSession + 1],
             exec' \in [ReviewRow -> {"idle", "claim", "reserve", "connect", "turn", "running",
                                     "ledger", "finish", "done"}]
      PROVE  ReviewStartTypeOK'
  BY <1>1, <1>2, <1>6 DEF ReviewStartTypeOK
<1>7. CASE new.row = NoReviewRow /\ UNCHANGED <<exec, claim>>
  <2>1. \A r \in ReviewRow : claim[r] # n
    BY <1>2, ReviewRowAssumption DEF ClaimsTheirs, NoClaim
  <2>2. \A r \in ReviewRow : sessions'[n].row # r
    BY <1>2, <1>7, ReviewRowAssumption
  <2>3. ClaimsTheirs'
    BY <1>2, <1>7, <2>1 DEF ClaimsTheirs, NoClaim
  <2>4. RecordedIsClaimed' /\ RecordedOnce' /\ StartsUnrecorded'
    BY <1>2, <1>7, <2>2 DEF RecordedIsClaimed, RecordedOnce, StartsUnrecorded, Recorded
  <2>5. StartedIsLast'
    BY <1>2, <1>7, <2>2 DEF StartedIsLast
  <2>6. ClaimedRan' /\ LedgerAhead'
    BY <1>2, <1>3, <1>7, <2>1 DEF ClaimedRan, LedgerAhead
  <2>7. ReviewStartTypeOK'
    BY <1>1, <1>6, <1>7
  <2>8. QED
    BY <1>4, <1>5, <2>3, <2>4, <2>5, <2>6, <2>7
<1>8. ASSUME NEW r \in ReviewRow, Exec(r, "connect", "turn"), new.row = r,
             new.status = "starting", claim' = [claim EXCEPT ![r] = n]
      PROVE  StartInv'
  <2>1. /\ claim'[r] = n /\ exec'[r] = "turn" /\ exec[r] = "connect"
        /\ \A q \in ReviewRow : q # r => claim'[q] = claim[q] /\ exec'[q] = exec[q]
                                         /\ claim[q] # n
    BY <1>1, <1>2, <1>8, ReviewRowAssumption DEF Exec, ClaimsTheirs, NoClaim
  <2>2. \A s \in DOMAIN sessions : ~Recorded(s, r)
    BY <2>1 DEF StartsUnrecorded
  <2>3. ClaimsTheirs'
    BY <1>2, <1>8, <2>1 DEF ClaimsTheirs, NoClaim
  <2>4. RecordedIsClaimed' /\ RecordedOnce' /\ StartsUnrecorded'
    BY <1>2, <1>8, <2>1, <2>2 DEF RecordedIsClaimed, RecordedOnce, StartsUnrecorded, Recorded
  <2>5. StartedIsLast'
    BY <1>2, <1>8, <2>1 DEF StartedIsLast
  <2>6. ClaimedRan' /\ LedgerAhead'
    BY <1>2, <1>3, <1>8, <2>1 DEF ClaimedRan, LedgerAhead
  <2>7. ReviewStartTypeOK'
    <3>1. claim' \in [ReviewRow -> 0..MaxSession + 1]
      BY <1>1, <1>2, <1>8, ReviewRowAssumption
    <3>2. exec' \in [ReviewRow -> {"idle", "claim", "reserve", "connect", "turn", "running",
                                  "ledger", "finish", "done"}]
      BY <1>1, <1>8 DEF Exec
    <3>3. QED
      BY <1>6, <3>1, <3>2
  <2>8. QED
    BY <1>4, <1>5, <2>3, <2>4, <2>5, <2>6, <2>7
<1>9. QED
  BY <1>7, <1>8

\* The two ways a session is changed.
LEMMA TurnOnRecord ==
  ASSUME NEW x \in StartSession
  PROVE  LET y == [x EXCEPT !.status = "running", !.turn = TRUE] IN
         y \in StartSession /\ y.turn /\ y.row = x.row
<1>1. [x EXCEPT !.status = "running", !.turn = TRUE] \in StartSession
  BY DEF StartSession, InFlightStatus
<1>2. [x EXCEPT !.status = "running", !.turn = TRUE].turn
  BY DEF StartSession
<1>3. [x EXCEPT !.status = "running", !.turn = TRUE].row = x.row
  BY DEF StartSession
<1>4. QED
  BY <1>1, <1>2, <1>3

LEMMA SessionEnds ==
  ASSUME NEW x \in StartSession, NEW o \in {"done", "failed", "starting", "running"}
  PROVE  LET y == [x EXCEPT !.status = o, !.live = FALSE]
             z == [x EXCEPT !.live = FALSE, !.status = o] IN
         /\ y \in StartSession /\ y.turn = x.turn /\ y.row = x.row /\ y.status = o
         /\ z \in StartSession /\ z.turn = x.turn /\ z.row = x.row /\ z.status = o
<1>1. /\ [x EXCEPT !.status = o, !.live = FALSE] \in StartSession
      /\ [x EXCEPT !.live = FALSE, !.status = o] \in StartSession
  BY DEF StartSession, InFlightStatus
<1>2. /\ [x EXCEPT !.status = o, !.live = FALSE].turn = x.turn
      /\ [x EXCEPT !.live = FALSE, !.status = o].turn = x.turn
  BY DEF StartSession
<1>3. /\ [x EXCEPT !.status = o, !.live = FALSE].row = x.row
      /\ [x EXCEPT !.live = FALSE, !.status = o].row = x.row
  BY DEF StartSession
<1>4. /\ [x EXCEPT !.status = o, !.live = FALSE].status = o
      /\ [x EXCEPT !.live = FALSE, !.status = o].status = o
  BY DEF StartSession
<1>5. QED
  BY <1>1, <1>2, <1>3, <1>4

\* A session gets on: what it was of stays, a turn stays on record, and nobody's review is
\* taken back.
LEMMA SameSessionsInv ==
  ASSUME StartInv, UNCHANGED <<kind, claim, ledger>>, pairTaken' \in BOOLEAN,
         sessions' \in Seq(StartSession), Len(sessions') = Len(sessions),
         ran \subseteq ran', ran' \subseteq DOMAIN sessions,
         exec' \in [ReviewRow -> {"idle", "claim", "reserve", "connect", "turn", "running",
                                 "ledger", "finish", "done"}],
         \A s \in DOMAIN sessions :
           /\ sessions'[s].row = sessions[s].row
           /\ sessions[s].turn => sessions'[s].turn
           /\ sessions'[s].turn /\ ~sessions[s].turn =>
                \E r \in ReviewRow : exec[r] \in {"turn", "running"} /\ claim[r] = s,
         \A r \in ReviewRow :
           /\ exec[r] = "done" <=> exec'[r] = "done"
           /\ exec'[r] \in {"reserve", "connect"} => exec'[r] = exec[r]
           /\ exec'[r] \in {"turn", "running"} =>
                /\ exec[r] \in {"turn", "running"}
                /\ sessions'[claim[r]].status = sessions[claim[r]].status,
         ClaimedRan', LedgerAhead'
  PROVE  StartInv'
<1> USE DEF StartInv
<1>1. DOMAIN sessions' = DOMAIN sessions /\ Len(sessions) \in Nat
  BY DEF ReviewStartTypeOK
<1>2. ReviewStartTypeOK'
  BY <1>1 DEF ReviewStartTypeOK
<1>3. ClaimsTheirs'
  BY <1>1 DEF ClaimsTheirs, NoClaim
<1>4. ASSUME NEW r \in ReviewRow, NEW s \in DOMAIN sessions, Recorded(s, r)'
      PROVE  Recorded(s, r) \/ (exec[r] \in {"turn", "running"} /\ claim[r] = s)
  BY <1>4 DEF Recorded, ClaimsTheirs
<1>5. RecordedIsClaimed'
  BY <1>1, <1>4 DEF RecordedIsClaimed
<1>6. RecordedOnce'
  BY <1>1, <1>4 DEF RecordedIsClaimed, RecordedOnce
<1>7. StartsUnrecorded'
  BY <1>1, <1>4 DEF StartsUnrecorded
<1>8. StartedIsLast'
  BY <1>1 DEF StartedIsLast
<1>9. OthersHaveTurns'
  BY <1>1 DEF OthersHaveTurns
<1>10. LedgerMeansReviewed'
  BY <1>1 DEF LedgerMeansReviewed
<1>11. QED
  BY <1>2, <1>3, <1>5, <1>6, <1>7, <1>8, <1>9, <1>10

\* The turn of the session that an executor has started.
LEMMA TurnInv ==
  ASSUME StartInv, NEW r \in ReviewRow, StartTurn(r) \/ PersistTurn(r) \/ TurnRefused(r)
  PROVE  StartInv'
<1> USE DEF StartInv
<1>1. PICK c \in DOMAIN sessions : c = claim[r] /\ SessionOf(r) = c /\ sessions[c].row = r
  BY SessionIsClaimed DEF StartTurn, PersistTurn, TurnRefused, Exec
<1>2. /\ sessions \in Seq(StartSession) /\ DOMAIN sessions = 1..Len(sessions)
      /\ Len(sessions) \in Nat /\ ran \subseteq DOMAIN sessions
      /\ exec \in [ReviewRow -> {"idle", "claim", "reserve", "connect", "turn", "running",
                                 "ledger", "finish", "done"}]
  BY DEF ReviewStartTypeOK
<1>3. \A q \in ReviewRow : q # r => claim[q] # c
  BY <1>1 DEF ClaimsTheirs
<1>4. CASE StartTurn(r)
  <2>1. /\ UNCHANGED <<kind, claim, sessions, ledger, pairTaken>> /\ exec[r] = "turn"
        /\ exec' = [exec EXCEPT ![r] = "running"]
        /\ ran' = IF kind = "codex" THEN ran \cup {c} ELSE ran
    BY <1>1, <1>4 DEF StartTurn, Exec
  <2>2. Reviewed(c)' /\ \A s \in DOMAIN sessions : Reviewed(s) => Reviewed(s)'
    BY <2>1 DEF Reviewed, OthersHaveTurns
  <2>3. ClaimedRan' /\ LedgerAhead'
    BY <1>1, <1>2, <2>1, <2>2 DEF ClaimedRan, LedgerAhead
  <2>4. pairTaken' \in BOOLEAN /\ ran \subseteq ran' /\ ran' \subseteq DOMAIN sessions
    BY <1>2, <2>1 DEF ReviewStartTypeOK
  <2>5. QED
    BY <1>2, <2>1, <2>3, <2>4, SameSessionsInv
<1>5. CASE PersistTurn(r)
  <2> DEFINE rec == [sessions[c] EXCEPT !.status = "running", !.turn = TRUE]
  <2>1. /\ UNCHANGED <<kind, claim, ran, ledger, pairTaken>> /\ exec[r] = "running"
        /\ exec' = [exec EXCEPT ![r] = "ledger"]
        /\ sessions' = sessions \/ sessions' = [sessions EXCEPT ![c] = rec]
    BY <1>1, <1>5 DEF PersistTurn, Exec
  <2>2. rec \in StartSession /\ rec.turn /\ rec.row = sessions[c].row
    <3>1. sessions[c] \in StartSession
      BY <1>2
    <3>2. QED
      BY <3>1, TurnOnRecord, Zenon
  <2> HIDE DEF rec
  <2>3. /\ sessions' \in Seq(StartSession) /\ Len(sessions') = Len(sessions)
        /\ \A s \in DOMAIN sessions :
             /\ s # c => sessions'[s] = sessions[s]
             /\ sessions'[s].row = sessions[s].row /\ (sessions[s].turn => sessions'[s].turn)
        /\ sessions'[c] = sessions[c] \/ sessions'[c].turn
    BY <1>2, <2>1, <2>2
  <2>4. DOMAIN sessions' = DOMAIN sessions
    BY <1>2, <2>3
  <2>5. \A s \in DOMAIN sessions : Reviewed(s) => Reviewed(s)'
    BY <2>1, <2>3 DEF Reviewed
  <2>6. Reviewed(c) /\ Reviewed(c)'
    BY <1>1, <2>1, <2>5 DEF ClaimedRan, StartedIsLast
  <2>7. ClaimedRan'
    BY <1>1, <1>2, <1>3, <2>1, <2>3, <2>4, <2>5, <2>6 DEF ClaimedRan
  <2>8. LedgerAhead'
    BY <1>1, <1>2, <2>1, <2>3, <2>4, <2>5, <2>6 DEF LedgerAhead
  <2>9. \A q \in ReviewRow : exec'[q] \in {"turn", "running"} =>
          /\ exec[q] \in {"turn", "running"}
          /\ sessions'[claim[q]].status = sessions[claim[q]].status
    BY <1>2, <1>3, <2>1, <2>3 DEF StartedIsLast
  <2>10. pairTaken' \in BOOLEAN
    BY <2>1 DEF ReviewStartTypeOK
  <2>11. QED
    BY <1>1, <1>2, <2>1, <2>3, <2>7, <2>8, <2>9, <2>10, SameSessionsInv
<1>6. CASE TurnRefused(r)
  <2> DEFINE rec == [sessions[c] EXCEPT !.status = "failed", !.live = FALSE]
  <2>1. /\ UNCHANGED <<kind, claim, ledger, pairTaken>> /\ exec[r] = "turn"
        /\ exec' = [exec EXCEPT ![r] = "idle"]
        /\ sessions' = [sessions EXCEPT ![c] = rec] /\ ran' \in {ran, ran \cup {c}}
    BY <1>1, <1>6 DEF TurnRefused, Exec
  <2>2. rec \in StartSession /\ rec.turn = sessions[c].turn /\ rec.row = sessions[c].row
        /\ rec.status = "failed"
    <3>1. sessions[c] \in StartSession /\ "failed" \in {"done", "failed", "starting", "running"}
      BY <1>2
    <3>2. QED
      BY <3>1, SessionEnds, Zenon
  <2> HIDE DEF rec
  <2>3. /\ sessions' \in Seq(StartSession) /\ Len(sessions') = Len(sessions)
        /\ \A s \in DOMAIN sessions :
             /\ s # c => sessions'[s] = sessions[s]
             /\ sessions'[s].row = sessions[s].row /\ sessions'[s].turn = sessions[s].turn
        /\ sessions'[c].status = "failed"
    BY <1>2, <2>1, <2>2
  <2>4. DOMAIN sessions' = DOMAIN sessions
    BY <1>2, <2>3
  <2>5. \A s \in DOMAIN sessions : Reviewed(s) => Reviewed(s)'
    BY <2>1, <2>3 DEF Reviewed
  <2>6. ClaimedRan'
    BY <1>1, <1>2, <1>3, <2>1, <2>3, <2>4, <2>5 DEF ClaimedRan
  <2>7. LedgerAhead'
    BY <1>2, <2>1, <2>3, <2>4, <2>5 DEF LedgerAhead
  <2>8. \A q \in ReviewRow : exec'[q] \in {"turn", "running"} =>
          /\ exec[q] \in {"turn", "running"}
          /\ sessions'[claim[q]].status = sessions[claim[q]].status
    BY <1>2, <1>3, <2>1, <2>3 DEF StartedIsLast
  <2>9. pairTaken' \in BOOLEAN /\ ran \subseteq ran' /\ ran' \subseteq DOMAIN sessions
    BY <1>2, <2>1 DEF ReviewStartTypeOK
  <2>10. QED
    BY <1>1, <1>2, <2>1, <2>3, <2>6, <2>7, <2>8, <2>9, SameSessionsInv
<1>7. QED
  BY <1>4, <1>5, <1>6

\* The row is done, and its claim released.
LEMMA FinishInv ==
  ASSUME StartInv, NEW r \in ReviewRow, FinishRow(r)
  PROVE  StartInv'
<1> USE DEF StartInv
<1>1. /\ UNCHANGED <<kind, sessions, ran, ledger, pairTaken>> /\ exec[r] = "finish"
      /\ exec' = [exec EXCEPT ![r] = "done"] /\ claim' = [claim EXCEPT ![r] = NoClaim]
  BY DEF FinishRow, Exec
<1>2. /\ claim \in [ReviewRow -> 0..MaxSession + 1] /\ sessions \in Seq(StartSession)
      /\ NoClaim \in 0..MaxSession + 1 /\ NoClaim \notin DOMAIN sessions
      /\ exec \in [ReviewRow -> {"idle", "claim", "reserve", "connect", "turn", "running",
                                 "ledger", "finish", "done"}]
  BY ReviewRowAssumption DEF ReviewStartTypeOK, NoClaim
<1>3. ReviewStartTypeOK'
  BY <1>1, <1>2 DEF ReviewStartTypeOK
<1>4. ClaimsTheirs' /\ OthersHaveTurns' /\ RecordedOnce'
  BY <1>1, <1>2 DEF ClaimsTheirs, OthersHaveTurns, RecordedOnce, Recorded, NoClaim
<1>5. RecordedIsClaimed' /\ StartsUnrecorded' /\ StartedIsLast'
  BY <1>1, <1>2 DEF RecordedIsClaimed, StartsUnrecorded, StartedIsLast, Recorded
<1>6. ClaimedRan' /\ LedgerAhead'
  BY <1>1, <1>2 DEF ClaimedRan, LedgerAhead, Reviewed
<1>7. LedgerMeansReviewed'
  BY <1>1 DEF LedgerMeansReviewed
<1>8. QED
  BY <1>3, <1>4, <1>5, <1>6, <1>7

\* A session goes on or ends by itself, or with the program.
LEMMA SessionInv ==
  ASSUME StartInv, StartCrash \/ \E s \in DOMAIN sessions : Prompt(s) \/ Finalize(s)
  PROVE  StartInv'
<1> USE DEF StartInv
<1>1. /\ sessions \in Seq(StartSession) /\ DOMAIN sessions = 1..Len(sessions)
      /\ Len(sessions) \in Nat /\ ran \subseteq DOMAIN sessions /\ pairTaken \in BOOLEAN
      /\ exec \in [ReviewRow -> {"idle", "claim", "reserve", "connect", "turn", "running",
                                 "ledger", "finish", "done"}]
  BY DEF ReviewStartTypeOK
<1>2. ASSUME NEW s \in DOMAIN sessions, Prompt(s) PROVE StartInv'
  <2>1. /\ UNCHANGED <<kind, claim, sessions, ledger, exec, pairTaken>> /\ ran' = ran \cup {s}
    BY <1>2 DEF Prompt
  <2>2. ClaimedRan' /\ LedgerAhead'
    BY <2>1 DEF ClaimedRan, LedgerAhead, Reviewed
  <2>3. QED
    BY <1>1, <2>1, <2>2, SameSessionsInv
<1>3. ASSUME NEW s \in DOMAIN sessions, Finalize(s) PROVE StartInv'
  <2>1. PICK o \in {"done", "failed"} :
          sessions' = [sessions EXCEPT ![s] = [@ EXCEPT !.status = o, !.live = FALSE]]
    BY <1>3 DEF Finalize
  <2>2. /\ UNCHANGED <<kind, claim, ran, ledger, exec, pairTaken>> /\ s \in ran /\ LetGo(s)
    BY <1>3 DEF Finalize
  <2> DEFINE rec == [sessions[s] EXCEPT !.status = o, !.live = FALSE]
  <2>3. rec \in StartSession /\ rec.turn = sessions[s].turn /\ rec.row = sessions[s].row
    <3>1. sessions[s] \in StartSession /\ o \in {"done", "failed", "starting", "running"}
      BY <1>1
    <3>2. QED
      BY <3>1, SessionEnds, ZenonT(30)
  <2>4. sessions' = [sessions EXCEPT ![s] = rec]
    BY <2>1
  <2> HIDE DEF rec
  <2>5. /\ sessions' \in Seq(StartSession) /\ Len(sessions') = Len(sessions)
        /\ \A u \in DOMAIN sessions :
             /\ u # s => sessions'[u] = sessions[u]
             /\ sessions'[u].row = sessions[u].row /\ sessions'[u].turn = sessions[u].turn
    BY <1>1, <2>3, <2>4
  <2>6. DOMAIN sessions' = DOMAIN sessions
    BY <1>1, <2>5
  <2>7. \A u \in DOMAIN sessions : Reviewed(u) <=> Reviewed(u)'
    BY <2>2, <2>5 DEF Reviewed
  <2>8. ClaimedRan'
    BY <2>2, <2>5, <2>6, <2>7 DEF ClaimedRan, Reviewed
  <2>9. LedgerAhead'
    BY <2>2, <2>5, <2>6, <2>7 DEF LedgerAhead
  <2>10. \A q \in ReviewRow : exec[q] \in {"turn", "running"} =>
           sessions'[claim[q]].status = sessions[claim[q]].status
    BY <2>2, <2>5, SessionIsClaimed DEF LetGo
  <2>11. QED
    BY <1>1, <2>2, <2>5, <2>8, <2>9, <2>10, SameSessionsInv
<1>4. CASE StartCrash
  <2>1. /\ UNCHANGED <<kind, claim, ran, ledger>> /\ pairTaken' = FALSE
        /\ exec' = [r \in ReviewRow |-> IF exec[r] = "done" THEN "done" ELSE "idle"]
        /\ sessions' = [s \in DOMAIN sessions |->
                          [sessions[s] EXCEPT !.live = FALSE,
                             !.status = IF @ \in InFlightStatus THEN "failed" ELSE @]]
    BY <1>4 DEF StartCrash
  <2>2. \A s \in DOMAIN sessions :
          /\ sessions'[s] \in StartSession
          /\ sessions'[s].row = sessions[s].row /\ sessions'[s].turn = sessions[s].turn
          /\ sessions'[s].status = sessions[s].status \/ sessions'[s].status = "failed"
          /\ sessions'[s].status \in {"done", "failed"}
    <3>1. SUFFICES ASSUME NEW s \in DOMAIN sessions
                   PROVE  /\ sessions'[s] \in StartSession
                          /\ sessions'[s].row = sessions[s].row
                          /\ sessions'[s].turn = sessions[s].turn
                          /\ sessions'[s].status = sessions[s].status
                               \/ sessions'[s].status = "failed"
                          /\ sessions'[s].status \in {"done", "failed"}
      OBVIOUS
    <3> DEFINE o == IF sessions[s].status \in InFlightStatus THEN "failed" ELSE sessions[s].status
    <3>2. sessions'[s] = [sessions[s] EXCEPT !.live = FALSE, !.status = o]
      BY <2>1
    <3>3. sessions[s] \in StartSession
      BY <1>1
    <3>4. sessions[s].status \in InFlightStatus \cup {"done", "failed"}
      BY <3>3 DEF StartSession
    <3>5. o \in {"done", "failed"} /\ (o = sessions[s].status \/ o = "failed")
      BY <3>4
    <3> HIDE DEF o
    <3>6. o \in {"done", "failed", "starting", "running"}
      BY <3>5
    <3>7. /\ [sessions[s] EXCEPT !.live = FALSE, !.status = o] \in StartSession
          /\ [sessions[s] EXCEPT !.live = FALSE, !.status = o].row = sessions[s].row
          /\ [sessions[s] EXCEPT !.live = FALSE, !.status = o].turn = sessions[s].turn
          /\ [sessions[s] EXCEPT !.live = FALSE, !.status = o].status = o
      BY <3>3, <3>6, SessionEnds, ZenonT(30)
    <3> DEFINE z == [sessions[s] EXCEPT !.live = FALSE, !.status = o]
    <3>8. /\ z \in StartSession /\ z.row = sessions[s].row /\ z.turn = sessions[s].turn
          /\ z.status = o /\ sessions'[s] = z
      BY <3>2, <3>7
    <3> HIDE DEF z
    <3>9. QED
      BY <3>5, <3>8
  <2>3. DOMAIN sessions' = DOMAIN sessions
    BY <2>1
  <2>4. sessions' \in Seq(StartSession) /\ Len(sessions') = Len(sessions)
    <3>1. sessions' = [s \in DOMAIN sessions |-> sessions'[s]]
      BY <2>1, Zenon
    <3>2. sessions' = [s \in 1..Len(sessions) |-> sessions'[s]]
      BY <1>1, <3>1
    <3>3. \A s \in 1..Len(sessions) : sessions'[s] \in StartSession
      BY <1>1, <2>2
    <3>4. QED
      BY <1>1, <3>2, <3>3
  <2>5. \A s \in DOMAIN sessions : Reviewed(s) <=> Reviewed(s)'
    BY <2>1, <2>2 DEF Reviewed
  <2>6. ClaimedRan'
    <3>1. ASSUME NEW q \in ReviewRow, claim[q] \in DOMAIN sessions
          PROVE  /\ sessions'[claim[q]].status = sessions[claim[q]].status
                      \/ sessions'[claim[q]].status = "failed"
                 /\ Reviewed(claim[q]) <=> Reviewed(claim[q])'
      BY <2>1, <2>2, <2>5, <3>1
    <3> QED BY <2>1, <2>2, <2>3, <3>1 DEF ClaimedRan
  <2>7. LedgerAhead'
    BY <2>1 DEF LedgerAhead
  <2>8. QED
    BY <1>1, <2>1, <2>2, <2>4, <2>6, <2>7, SameSessionsInv
<1>5. QED
  BY <1>2, <1>3, <1>4

LEMMA StartStepInv == StartInv /\ [ReviewStartNext]_startVars => StartInv'
<1> SUFFICES ASSUME StartInv, [ReviewStartNext]_startVars PROVE StartInv'
  OBVIOUS
<1>1. /\ sessions \in Seq(StartSession) /\ ran \subseteq DOMAIN sessions
      /\ DOMAIN sessions = 1..Len(sessions) /\ Len(sessions) \in Nat
  BY DEF StartInv, ReviewStartTypeOK
<1>2. ASSUME NEW r \in ReviewRow, CommitStarting(r) PROVE StartInv'
  <2>1. NewSession(r) \in StartSession /\ NewSession(r).row = r
        /\ NewSession(r).status = "starting" /\ (kind # "codex" => NewSession(r).turn)
    BY DEF NewSession, StartSession, InFlightStatus
  <2>2. /\ sessions' = Append(sessions, NewSession(r)) /\ Len(sessions) < MaxSession
        /\ claim' = [claim EXCEPT ![r] = Len(sessions) + 1] /\ Exec(r, "connect", "turn")
        /\ ran' \subseteq ran \cup {Len(sessions) + 1} /\ ran \subseteq ran'
        /\ pairTaken' = FALSE /\ UNCHANGED <<kind, ledger>>
    BY <1>2 DEF CommitStarting
  <2>3. ran' \subseteq DOMAIN sessions'
    BY <1>1, <2>1, <2>2
  <2>4. QED
    BY <2>1, <2>2, <2>3, NewInv
<1>3. CASE ManualReview
  <2> DEFINE new == [row |-> NoReviewRow, status |-> "running", turn |-> TRUE, live |-> TRUE]
  <2>1. new \in StartSession /\ new.row = NoReviewRow /\ new.turn
    BY DEF StartSession, InFlightStatus
  <2>2. /\ sessions' = Append(sessions, new) /\ Len(sessions) < MaxSession
        /\ ran' = ran \cup {Len(sessions) + 1}
        /\ UNCHANGED <<kind, claim, ledger, exec, pairTaken>>
    BY <1>3 DEF ManualReview
  <2> HIDE DEF new
  <2>3. ran \subseteq ran' /\ ran' \subseteq DOMAIN sessions' /\ pairTaken' \in BOOLEAN
    BY <1>1, <2>1, <2>2 DEF StartInv, ReviewStartTypeOK
  <2>4. QED
    BY <2>1, <2>2, <2>3, NewInv
<1>4. CASE UNCHANGED startVars
  BY <1>4 DEF startVars, startDurable, StartInv, ReviewStartTypeOK, ClaimsTheirs,
              RecordedIsClaimed, RecordedOnce, StartsUnrecorded, StartedIsLast,
              OthersHaveTurns, ClaimedRan, LedgerAhead, LedgerMeansReviewed, Recorded, Reviewed
<1>5. QED
  BY <1>2, <1>3, <1>4, QuietInv, BeginInv, TurnInv, FinishInv, SessionInv DEF ReviewStartNext

LEMMA StartInvariance == ReviewStartSpec => []StartInv
  BY StartInitInv, StartStepInv, PTL DEF ReviewStartSpec

\* No row has two sessions with a turn on record, for any number of rows, sessions and
\* crashes and whichever engine runs them.
THEOREM ReviewedOnce == ReviewStartSpec => []OneRecordedReview
<1>1. StartInv => OneRecordedReview
  <2> SUFFICES ASSUME StartInv, NEW r \in ReviewRow
               PROVE Cardinality({s \in DOMAIN sessions :
                                    sessions[s].row = r /\ sessions[s].turn}) <= 1
    BY DEF OneRecordedReview
  <2> DEFINE On == {s \in DOMAIN sessions : sessions[s].row = r /\ sessions[s].turn}
  <2>1. \A s, u \in On : s = u
    BY DEF StartInv, RecordedOnce, Recorded
  <2> HIDE DEF On
  <2>2. ASSUME On = {} PROVE Cardinality(On) <= 1
    BY <2>2, FS_EmptySet
  <2>3. ASSUME On # {} PROVE Cardinality(On) <= 1
    <3>1. PICK x \in On : On = {x}
      BY <2>1, <2>3
    <3>2. Cardinality({x}) = 1
      BY FS_Singleton
    <3>3. QED
      BY <3>1, <3>2
  <2>4. Cardinality(On) <= 1
    BY <2>2, <2>3
  <2>5. QED
    BY <2>4 DEF On
<1>2. QED
  BY <1>1, StartInvariance, PTL

\* The dispatch ledger never has a head that no session was started for and reviewed.
THEOREM LedgerIsTrue == ReviewStartSpec => []LedgerMeansReviewed
<1>1. StartInv => LedgerMeansReviewed
  BY DEF StartInv
<1>2. QED
  BY <1>1, StartInvariance, PTL

-----------------------------------------------------------------------------
(***************************************************************************)
(* Proofs about the resident app-server, for any number of callers,        *)
(* stoppers and children.                                                  *)
(*                                                                         *)
(* NoOrphan is inductive beside the type invariant and the ownership of    *)
(* children.  OneServer needs to know what a caller in the slow path may   *)
(* rely on: the start lock is its own and the cell holds no live child.    *)
(* StopEmpties needs to know that a stop which arrives while a caller      *)
(* installs is still waiting for the cell.                                 *)
(***************************************************************************)

\* The slow path is exclusive, and inner is held only by a caller replacing.
Exclusive ==
  /\ \A c \in Caller : at[c] \in Slow <=> startLock = c
  /\ \A c \in Caller : at[c] = "replace" <=> guard = c

\* A child has one owner: the cell, one caller or one stopper; and a child that
\* was never spawned has none.
OneOwner ==
  /\ \A c \in Caller : mine[c] # NoProc => mine[c] # cell
  /\ \A s \in Halter : victim[s] # NoProc => victim[s] # cell
  /\ \A c \in Caller, s \in Halter : mine[c] # NoProc => mine[c] # victim[s]
  /\ \A s, r \in Halter : victim[s] # NoProc /\ victim[s] = victim[r] => s = r
  /\ \A p \in Proc : child[p] = "unborn" =>
       /\ cell # p
       /\ \A c \in Caller : mine[c] # p
       /\ \A s \in Halter : victim[s] # p

\* What the slow path relies on: the child of a handshake is starting and no
\* other is, and the cell holds no live child until the caller's own is in it.
SlowPath ==
  /\ \A c \in Caller : at[c] = "handshake" => child[mine[c]] = "starting"
  /\ \A p \in Proc : child[p] = "starting" =>
       \E c \in Caller : at[c] = "handshake" /\ mine[c] = p
  /\ \A c \in Caller : at[c] \in {"handshake", "install", "replace"} => ~Connected

\* A stop that stored its flag while a caller installs has yet to take the cell.
StopPending ==
  stopped /\ ((\E c \in Caller : at[c] = "replace") \/ cell # NoProc)
    => \E s \in Halter : stopAt[s] = "take"

ManagerInv == ManagerTypeOK /\ Exclusive /\ OneOwner /\ SlowPath /\ NoOrphan /\ StopPending

-----------------------------------------------------------------------------
(* The invariant is inductive, part by part.                                *)

\* Every step keeps the types.
LEMMA ManagerTypeStep ==
  ASSUME ManagerTypeOK, [ManagerNext]_serverVars
  PROVE  ManagerTypeOK'
PROOF
<1> USE CallerAssumption, ProcAssumption
       DEF callers, stoppers, shared, Goto, Unlocked, Connected, ManagerTypeOK, Slow, Owning
<1>1. ASSUME NEW c \in Caller, Review(c) PROVE ManagerTypeOK'
  BY <1>1 DEF Review
<1>2. ASSUME NEW c \in Caller, Probe(c) PROVE ManagerTypeOK'
  BY <1>2 DEF Probe
<1>3. ASSUME NEW c \in Caller, Start(c) PROVE ManagerTypeOK'
  BY <1>3 DEF Start
<1>4. ASSUME NEW c \in Caller, Connection(c) PROVE ManagerTypeOK'
  BY <1>4 DEF Connection
<1>5. ASSUME NEW c \in Caller, FastPath(c) PROVE ManagerTypeOK'
  BY <1>5 DEF FastPath
<1>6. ASSUME NEW c \in Caller, Lock(c) PROVE ManagerTypeOK'
  BY <1>6 DEF Lock
<1>7. ASSUME NEW c \in Caller, Recheck(c) PROVE ManagerTypeOK'
  BY <1>7 DEF Recheck, Return, Spawn, Become
<1>8. ASSUME NEW c \in Caller, Handshake(c) PROVE ManagerTypeOK'
  BY <1>8 DEF Handshake, Return, Become
<1>9. ASSUME NEW c \in Caller, Install(c) PROVE ManagerTypeOK'
  BY <1>9 DEF Install
<1>10. ASSUME NEW c \in Caller, Discard(c) PROVE ManagerTypeOK'
  BY <1>10 DEF Discard, Return
<1>11. ASSUME NEW c \in Caller, Replace(c) PROVE ManagerTypeOK'
  BY <1>11 DEF Replace, Return
<1>12. ASSUME NEW c \in Caller, Reap(c) PROVE ManagerTypeOK'
  BY <1>12 DEF Reap, Return
<1>13. ASSUME NEW s \in Halter, Stop(s) PROVE ManagerTypeOK'
  BY <1>13 DEF Stop
<1>14. ASSUME NEW s \in Halter, Take(s) PROVE ManagerTypeOK'
  BY <1>14 DEF Take
<1>15. ASSUME NEW s \in Halter, Kill(s) PROVE ManagerTypeOK'
  BY <1>15 DEF Kill
<1>16. ASSUME NEW p \in Proc, Close(p) PROVE ManagerTypeOK'
  BY <1>16 DEF Close, Become
<1>17. CASE UNCHANGED serverVars
  BY <1>17 DEF serverVars
<1> QED
  BY <1>1, <1>2, <1>3, <1>4, <1>5, <1>6, <1>7, <1>8, <1>9, <1>10, <1>11, <1>12, <1>13,
     <1>14, <1>15, <1>16, <1>17
  DEF ManagerNext, CallStep, HaltStep

\* start_lock and inner are held by whom the program counters say.
LEMMA ExclusiveStep ==
  ASSUME ManagerTypeOK, Exclusive, [ManagerNext]_serverVars
  PROVE  Exclusive'
PROOF
<1> USE CallerAssumption, ProcAssumption
       DEF callers, stoppers, shared, Goto, Unlocked, Connected, ManagerTypeOK, Exclusive, Slow, Owning
<1>1. ASSUME NEW c \in Caller, Review(c) PROVE Exclusive'
  BY <1>1 DEF Review
<1>2. ASSUME NEW c \in Caller, Probe(c) PROVE Exclusive'
  BY <1>2 DEF Probe
<1>3. ASSUME NEW c \in Caller, Start(c) PROVE Exclusive'
  BY <1>3 DEF Start
<1>4. ASSUME NEW c \in Caller, Connection(c) PROVE Exclusive'
  BY <1>4 DEF Connection
<1>5. ASSUME NEW c \in Caller, FastPath(c) PROVE Exclusive'
  BY <1>5 DEF FastPath
<1>6. ASSUME NEW c \in Caller, Lock(c) PROVE Exclusive'
  BY <1>6 DEF Lock
<1>7. ASSUME NEW c \in Caller, Recheck(c) PROVE Exclusive'
  BY <1>7 DEF Recheck, Return, Spawn, Become
<1>8. ASSUME NEW c \in Caller, Handshake(c) PROVE Exclusive'
  BY <1>8 DEF Handshake, Return, Become
<1>9. ASSUME NEW c \in Caller, Install(c) PROVE Exclusive'
  BY <1>9 DEF Install
<1>10. ASSUME NEW c \in Caller, Discard(c) PROVE Exclusive'
  BY <1>10 DEF Discard, Return
<1>11. ASSUME NEW c \in Caller, Replace(c) PROVE Exclusive'
  BY <1>11 DEF Replace, Return
<1>12. ASSUME NEW c \in Caller, Reap(c) PROVE Exclusive'
  BY <1>12 DEF Reap, Return
<1>13. ASSUME NEW s \in Halter, Stop(s) PROVE Exclusive'
  BY <1>13 DEF Stop
<1>14. ASSUME NEW s \in Halter, Take(s) PROVE Exclusive'
  BY <1>14 DEF Take
<1>15. ASSUME NEW s \in Halter, Kill(s) PROVE Exclusive'
  BY <1>15 DEF Kill
<1>16. ASSUME NEW p \in Proc, Close(p) PROVE Exclusive'
  BY <1>16 DEF Close, Become
<1>17. CASE UNCHANGED serverVars
  BY <1>17 DEF serverVars
<1> QED
  BY <1>1, <1>2, <1>3, <1>4, <1>5, <1>6, <1>7, <1>8, <1>9, <1>10, <1>11, <1>12, <1>13,
     <1>14, <1>15, <1>16, <1>17
  DEF ManagerNext, CallStep, HaltStep

\* A CodexProcess value is moved, never copied.
LEMMA OwnerStep ==
  ASSUME ManagerTypeOK, Exclusive, OneOwner, SlowPath, [ManagerNext]_serverVars
  PROVE  OneOwner'
PROOF
<1> USE CallerAssumption, ProcAssumption
       DEF callers, stoppers, shared, Goto, Unlocked, Connected, ManagerTypeOK, Exclusive,
           OneOwner, SlowPath, Owning, Slow
<1>1. ASSUME NEW c \in Caller, Review(c) PROVE OneOwner'
  BY <1>1 DEF Review
<1>2. ASSUME NEW c \in Caller, Probe(c) PROVE OneOwner'
  BY <1>2 DEF Probe
<1>3. ASSUME NEW c \in Caller, Start(c) PROVE OneOwner'
  BY <1>3 DEF Start
<1>4. ASSUME NEW c \in Caller, Connection(c) PROVE OneOwner'
  BY <1>4 DEF Connection
<1>5. ASSUME NEW c \in Caller, FastPath(c) PROVE OneOwner'
  BY <1>5 DEF FastPath
<1>6. ASSUME NEW c \in Caller, Lock(c) PROVE OneOwner'
  BY <1>6 DEF Lock
<1>7. ASSUME NEW c \in Caller, Recheck(c) PROVE OneOwner'
  BY <1>7 DEF Recheck, Return, Spawn, Become
<1>8. ASSUME NEW c \in Caller, Handshake(c) PROVE OneOwner'
  BY <1>8 DEF Handshake, Return, Become
<1>9. ASSUME NEW c \in Caller, Install(c) PROVE OneOwner'
  BY <1>9 DEF Install
<1>10. ASSUME NEW c \in Caller, Discard(c) PROVE OneOwner'
  BY <1>10 DEF Discard, Return
<1>11. ASSUME NEW c \in Caller, Replace(c) PROVE OneOwner'
  BY <1>11 DEF Replace, Return
<1>12. ASSUME NEW c \in Caller, Reap(c) PROVE OneOwner'
  BY <1>12 DEF Reap, Return
<1>13. ASSUME NEW s \in Halter, Stop(s) PROVE OneOwner'
  BY <1>13 DEF Stop
<1>14. ASSUME NEW s \in Halter, Take(s) PROVE OneOwner'
  BY <1>14 DEF Take
<1>15. ASSUME NEW s \in Halter, Kill(s) PROVE OneOwner'
  BY <1>15 DEF Kill
<1>16. ASSUME NEW p \in Proc, Close(p) PROVE OneOwner'
  BY <1>16 DEF Close, Become
<1>17. CASE UNCHANGED serverVars
  BY <1>17 DEF serverVars
<1> QED
  BY <1>1, <1>2, <1>3, <1>4, <1>5, <1>6, <1>7, <1>8, <1>9, <1>10, <1>11, <1>12, <1>13,
     <1>14, <1>15, <1>16, <1>17
  DEF ManagerNext, CallStep, HaltStep

\* Nobody else brings a server up while one caller is in the slow path.
LEMMA SlowPathStep ==
  ASSUME ManagerTypeOK, Exclusive, OneOwner, SlowPath, [ManagerNext]_serverVars
  PROVE  SlowPath'
PROOF
<1> USE CallerAssumption, ProcAssumption
       DEF callers, stoppers, shared, Goto, Unlocked, Connected, ManagerTypeOK, Exclusive,
           OneOwner, SlowPath, Owning, Slow
<1>1. ASSUME NEW c \in Caller, Review(c) PROVE SlowPath'
  BY <1>1 DEF Review
<1>2. ASSUME NEW c \in Caller, Probe(c) PROVE SlowPath'
  BY <1>2 DEF Probe
<1>3. ASSUME NEW c \in Caller, Start(c) PROVE SlowPath'
  BY <1>3 DEF Start
<1>4. ASSUME NEW c \in Caller, Connection(c) PROVE SlowPath'
  BY <1>4 DEF Connection
<1>5. ASSUME NEW c \in Caller, FastPath(c) PROVE SlowPath'
  BY <1>5 DEF FastPath
<1>6. ASSUME NEW c \in Caller, Lock(c) PROVE SlowPath'
  BY <1>6 DEF Lock
<1>7. ASSUME NEW c \in Caller, Recheck(c) PROVE SlowPath'
  BY <1>7 DEF Recheck, Return, Spawn, Become
<1>8. ASSUME NEW c \in Caller, Handshake(c) PROVE SlowPath'
  BY <1>8 DEF Handshake, Return, Become
<1>9. ASSUME NEW c \in Caller, Install(c) PROVE SlowPath'
  BY <1>9 DEF Install
<1>10. ASSUME NEW c \in Caller, Discard(c) PROVE SlowPath'
  BY <1>10 DEF Discard, Return
<1>11. ASSUME NEW c \in Caller, Replace(c) PROVE SlowPath'
  BY <1>11 DEF Replace, Return
<1>12. ASSUME NEW c \in Caller, Reap(c) PROVE SlowPath'
  BY <1>12 DEF Reap, Return
<1>13. ASSUME NEW s \in Halter, Stop(s) PROVE SlowPath'
  BY <1>13 DEF Stop
<1>14. ASSUME NEW s \in Halter, Take(s) PROVE SlowPath'
  BY <1>14 DEF Take
<1>15. ASSUME NEW s \in Halter, Kill(s) PROVE SlowPath'
  BY <1>15 DEF Kill
<1>16. ASSUME NEW p \in Proc, Close(p) PROVE SlowPath'
  BY <1>16 DEF Close, Become
<1>17. CASE UNCHANGED serverVars
  BY <1>17 DEF serverVars
<1> QED
  BY <1>1, <1>2, <1>3, <1>4, <1>5, <1>6, <1>7, <1>8, <1>9, <1>10, <1>11, <1>12, <1>13,
     <1>14, <1>15, <1>16, <1>17
  DEF ManagerNext, CallStep, HaltStep

\* Whoever lets go of a child that is not dead hands it on.
LEMMA OrphanStep ==
  ASSUME ManagerTypeOK, NoOrphan, [ManagerNext]_serverVars
  PROVE  NoOrphan'
PROOF
<1> USE CallerAssumption, ProcAssumption
       DEF callers, stoppers, shared, Goto, Unlocked, Connected, ManagerTypeOK, NoOrphan, Owning, Slow
<1>1. ASSUME NEW c \in Caller, Review(c) PROVE NoOrphan'
  BY <1>1 DEF Review
<1>2. ASSUME NEW c \in Caller, Probe(c) PROVE NoOrphan'
  BY <1>2 DEF Probe
<1>3. ASSUME NEW c \in Caller, Start(c) PROVE NoOrphan'
  BY <1>3 DEF Start
<1>4. ASSUME NEW c \in Caller, Connection(c) PROVE NoOrphan'
  BY <1>4 DEF Connection
<1>5. ASSUME NEW c \in Caller, FastPath(c) PROVE NoOrphan'
  BY <1>5 DEF FastPath
<1>6. ASSUME NEW c \in Caller, Lock(c) PROVE NoOrphan'
  BY <1>6 DEF Lock
<1>7. ASSUME NEW c \in Caller, Recheck(c) PROVE NoOrphan'
  BY <1>7 DEF Recheck, Return, Spawn, Become
<1>8. ASSUME NEW c \in Caller, Handshake(c) PROVE NoOrphan'
  BY <1>8 DEF Handshake, Return, Become
<1>9. ASSUME NEW c \in Caller, Install(c) PROVE NoOrphan'
  BY <1>9 DEF Install
<1>10. ASSUME NEW c \in Caller, Discard(c) PROVE NoOrphan'
  BY <1>10 DEF Discard, Return
<1>11. ASSUME NEW c \in Caller, Replace(c) PROVE NoOrphan'
  BY <1>11 DEF Replace, Return
<1>12. ASSUME NEW c \in Caller, Reap(c) PROVE NoOrphan'
  BY <1>12 DEF Reap, Return
<1>13. ASSUME NEW s \in Halter, Stop(s) PROVE NoOrphan'
  BY <1>13 DEF Stop
<1>14. ASSUME NEW s \in Halter, Take(s) PROVE NoOrphan'
  BY <1>14 DEF Take
<1>15. ASSUME NEW s \in Halter, Kill(s) PROVE NoOrphan'
  BY <1>15 DEF Kill
<1>16. ASSUME NEW p \in Proc, Close(p) PROVE NoOrphan'
  BY <1>16 DEF Close, Become
<1>17. CASE UNCHANGED serverVars
  BY <1>17 DEF serverVars
<1> QED
  BY <1>1, <1>2, <1>3, <1>4, <1>5, <1>6, <1>7, <1>8, <1>9, <1>10, <1>11, <1>12, <1>13,
     <1>14, <1>15, <1>16, <1>17
  DEF ManagerNext, CallStep, HaltStep

\* The stop is stored before the cell is taken, and looked at under its lock.
LEMMA StopPendingStep ==
  ASSUME ManagerTypeOK, Exclusive, StopPending, [ManagerNext]_serverVars
  PROVE  StopPending'
PROOF
<1> USE CallerAssumption, ProcAssumption
       DEF callers, stoppers, shared, Goto, Unlocked, Connected, ManagerTypeOK, Exclusive,
           StopPending, Slow, Owning
<1>1. ASSUME NEW c \in Caller, Review(c) PROVE StopPending'
  BY <1>1 DEF Review
<1>2. ASSUME NEW c \in Caller, Probe(c) PROVE StopPending'
  BY <1>2 DEF Probe
<1>3. ASSUME NEW c \in Caller, Start(c) PROVE StopPending'
  BY <1>3 DEF Start
<1>4. ASSUME NEW c \in Caller, Connection(c) PROVE StopPending'
  BY <1>4 DEF Connection
<1>5. ASSUME NEW c \in Caller, FastPath(c) PROVE StopPending'
  BY <1>5 DEF FastPath
<1>6. ASSUME NEW c \in Caller, Lock(c) PROVE StopPending'
  BY <1>6 DEF Lock
<1>7. ASSUME NEW c \in Caller, Recheck(c) PROVE StopPending'
  BY <1>7 DEF Recheck, Return, Spawn, Become
<1>8. ASSUME NEW c \in Caller, Handshake(c) PROVE StopPending'
  BY <1>8 DEF Handshake, Return, Become
<1>9. ASSUME NEW c \in Caller, Install(c) PROVE StopPending'
  BY <1>9 DEF Install
<1>10. ASSUME NEW c \in Caller, Discard(c) PROVE StopPending'
  BY <1>10 DEF Discard, Return
<1>11. ASSUME NEW c \in Caller, Replace(c) PROVE StopPending'
  BY <1>11 DEF Replace, Return
<1>12. ASSUME NEW c \in Caller, Reap(c) PROVE StopPending'
  BY <1>12 DEF Reap, Return
<1>13. ASSUME NEW s \in Halter, Stop(s) PROVE StopPending'
  BY <1>13 DEF Stop
<1>14. ASSUME NEW s \in Halter, Take(s) PROVE StopPending'
  BY <1>14 DEF Take
<1>15. ASSUME NEW s \in Halter, Kill(s) PROVE StopPending'
  BY <1>15 DEF Kill
<1>16. ASSUME NEW p \in Proc, Close(p) PROVE StopPending'
  BY <1>16 DEF Close, Become
<1>17. CASE UNCHANGED serverVars
  BY <1>17 DEF serverVars
<1> QED
  BY <1>1, <1>2, <1>3, <1>4, <1>5, <1>6, <1>7, <1>8, <1>9, <1>10, <1>11, <1>12, <1>13,
     <1>14, <1>15, <1>16, <1>17
  DEF ManagerNext, CallStep, HaltStep

\* The invariant holds at first.
LEMMA ManagerInitInv == ManagerInit => ManagerInv
BY CallerAssumption, ProcAssumption
DEF ManagerInit, ManagerInv, ManagerTypeOK, Exclusive, OneOwner, SlowPath, NoOrphan,
    StopPending, Slow, Owning, Connected

\* The invariant holds in every reachable state.
LEMMA ManagerInvariance == ManagerSpec => []ManagerInv
PROOF
<1>1. ManagerInv /\ [ManagerNext]_serverVars => ManagerInv'
  BY ManagerTypeStep, ExclusiveStep, OwnerStep, SlowPathStep, OrphanStep, StopPendingStep DEF ManagerInv
<1> QED BY ManagerInitInv, <1>1, PTL DEF ManagerSpec

-----------------------------------------------------------------------------
(* The theorems.                                                            *)

\* Every variable keeps its type, and a caller or a stopper owns a child exactly
\* where the code has a CodexProcess value in hand.
THEOREM ManagerTypeCorrect == ManagerSpec => []ManagerTypeOK
PROOF
<1>1. ManagerInv => ManagerTypeOK BY DEF ManagerInv
<1> QED BY ManagerInvariance, <1>1, PTL

\* No child is ever left running without an owner that will kill it: not by a
\* discarded start, a replaced predecessor, a stop or a failed handshake.
THEOREM ChildrenAreOwned == ManagerSpec => []NoOrphan
PROOF
<1>1. ManagerInv => NoOrphan BY DEF ManagerInv
<1> QED BY ManagerInvariance, <1>1, PTL

\* A stop that has taken the cell has emptied it for as long as it stands, for
\* every interleaving with the cold starts that were under way.
THEOREM StoppedMeansEmpty == ManagerSpec => []StopEmpties
PROOF
<1>1. ManagerInv => StopEmpties BY DEF ManagerInv, StopPending, StopEmpties
<1> QED BY ManagerInvariance, <1>1, PTL

\* Two callers never have two app-servers up.
THEOREM AtMostOneServer == ManagerSpec => []OneServer
PROOF
<1>1. ASSUME ManagerInv, NEW p \in Proc, Serving(p)
      PROVE  \/ p = cell /\ Connected
             \/ \E c \in Caller : /\ mine[c] = p /\ startLock = c
                                  /\ at[c] \in {"handshake", "install", "replace"}
  <2>1. ASSUME NEW c \in Caller, mine[c] = p
        PROVE  startLock = c /\ at[c] \in {"handshake", "install", "replace"}
    BY <1>1, <2>1, ProcAssumption DEF ManagerInv, ManagerTypeOK, Exclusive, Serving, Slow, Owning
  <2>2. ASSUME child[p] = "starting" PROVE \E c \in Caller : mine[c] = p
    BY <1>1, <2>2 DEF ManagerInv, SlowPath
  <2>3. ASSUME child[p] = "live" PROVE p = cell \/ \E c \in Caller : mine[c] = p
    BY <1>1, <2>3 DEF ManagerInv, NoOrphan, Serving
  <2> QED BY <1>1, <2>1, <2>2, <2>3, ProcAssumption DEF Serving, Connected
<1>2. ASSUME ManagerInv, NEW p \in Proc, NEW q \in Proc, Serving(p), Serving(q)
      PROVE  p = q
  BY <1>1, <1>2 DEF ManagerInv, SlowPath
<1>3. ManagerInv => OneServer BY <1>2 DEF OneServer
<1> QED BY ManagerInvariance, <1>3, PTL

-----------------------------------------------------------------------------
(***************************************************************************)
(* Proofs about the JSON-RPC client, for any set of requests of ours and of*)
(* the server's.  NoneStranded speaks of a closed connection only; what    *)
(* makes it so is that every request that is still out is, at any time, in *)
(* the map that the reader's end drains, or has its answer.                *)
(***************************************************************************)

\* A closed map is empty and stays so.
ClosedIsDrained == rpcClosed => pendingIds = {}

\* A request that is out can still be answered, or is.
OutIsKnown ==
  \A q \in Request :
    requestAt[q] \in {"write", "writing", "await"} => q \in pendingIds \/ answer[q] # "none"

RpcInv == RpcTypeOK /\ ClosedIsDrained /\ OutIsKnown

LEMMA RpcInitInv == RpcInit => RpcInv
  BY DEF RpcInit, RpcInv, RpcTypeOK, ClosedIsDrained, OutIsKnown

LEMMA RpcStepInv == RpcInv /\ [RpcNext]_rpcVars => RpcInv'
<1> SUFFICES ASSUME RpcInv, [RpcNext]_rpcVars PROVE RpcInv'
  OBVIOUS
<1> USE RequestAssumption DEF RpcInv, RpcTypeOK, ClosedIsDrained, OutIsKnown, READER
<1>1. ASSUME NEW q \in Request, Register(q) PROVE RpcInv'
  BY <1>1 DEF Register, At
<1>2. ASSUME NEW q \in Request, LockWriter(q) PROVE RpcInv'
  BY <1>2 DEF LockWriter, At
<1>3. ASSUME NEW q \in Request, WriteRequest(q) PROVE RpcInv'
  BY <1>3 DEF WriteRequest, At
<1>4. ASSUME NEW q \in Request, WriteBroken(q) PROVE RpcInv'
  BY <1>4 DEF WriteBroken, At
<1>5. ASSUME NEW q \in Request, Answered(q) PROVE RpcInv'
  BY <1>5 DEF Answered
<1>6. ASSUME NEW q \in Request, RequestTimeout(q) PROVE RpcInv'
  BY <1>6 DEF RequestTimeout, At
<1>7. ASSUME NEW q \in Request, RouteAnswer(q) PROVE RpcInv'
  BY <1>7 DEF RouteAnswer
<1>8. ASSUME NEW q \in Request, ServerAnswers(q) PROVE RpcInv'
  BY <1>8 DEF ServerAnswers
<1>9. ASSUME NEW a \in ServerAsk, TakeServerAsk(a) PROVE RpcInv'
  BY <1>9 DEF TakeServerAsk
<1>10. ASSUME LockAutoAnswer PROVE RpcInv'
  BY <1>10 DEF LockAutoAnswer
<1>11. ASSUME AutoAnswer PROVE RpcInv'
  BY <1>11 DEF AutoAnswer
<1>12. ASSUME ReaderEnds PROVE RpcInv'
  BY <1>12 DEF ReaderEnds
<1>13. ASSUME BroadcastClosed PROVE RpcInv'
  BY <1>13 DEF BroadcastClosed
<1>14. ASSUME ServerDies PROVE RpcInv'
  BY <1>14 DEF ServerDies
<1>15. CASE UNCHANGED rpcVars
  BY <1>15 DEF rpcVars
<1>16. QED
  BY <1>1, <1>2, <1>3, <1>4, <1>5, <1>6, <1>7, <1>8, <1>9, <1>10, <1>11, <1>12, <1>13,
     <1>14, <1>15 DEF RpcNext

LEMMA RpcInvariance == RpcSpec => []RpcInv
  BY RpcInitInv, RpcStepInv, PTL DEF RpcSpec

\* No request is left to wait out its timeout on a connection that is closed, however
\* its registration, the write, the answer and the end of the reader interleave.
THEOREM NobodyIsStranded == RpcSpec => []NoneStranded
<1>1. RpcInv => NoneStranded
  BY DEF RpcInv, ClosedIsDrained, OutIsKnown, NoneStranded
<1>2. QED
  BY <1>1, RpcInvariance, PTL

-----------------------------------------------------------------------------
(***************************************************************************)
(* The Cursor engine, for any set of sessions and processes.  The hazard   *)
(* is the generation that a session is bound to: it is bound only after an *)
(* await, when the process may have been replaced.  What a command took    *)
(* together under the lock (TakenTogether) stays right because a process   *)
(* keeps the generation it was installed with and none is used twice.      *)
(***************************************************************************)

\* Whoever is in the slow path, and only he, holds its lock.
AcpExclusive ==
  \A s \in Acp : acpAt[s] \in {"ensure", "handshake", "take"} <=> acpLock = s

\* The process in the cell is the last that was installed.
CellIsLatest ==
  acpCell # 0 =>
    /\ process[acpCell].life # "none" /\ acpGen # 0
    /\ process[acpCell].gen = acpGen

\* Processes are numbered as they are spawned, and generations never overtake them.
Numbered ==
  \A p \in Process : process[p].life = "none" => process[p].gen = 0 /\ acpGen < p

\* The process of a handshake was not installed yet, and is the last one spawned.
Handshaking ==
  \A s \in Acp : acpAt[s] = "handshake" =>
    /\ client[s] \in Process /\ process[client[s]].life # "none"
    /\ process[client[s]].gen = 0 /\ acpGen < client[s]
    /\ \A p \in Process : process[p].life = "none" => client[s] < p

\* A command that has its client has the generation of that client with it.
TakenTogether ==
  \A s \in Acp : acpAt[s] \in {"new", "commit"} =>
    /\ client[s] \in Process
    /\ bound[s] # 0 /\ bound[s] = process[client[s]].gen

\* A session is in the registry from its commit on, and then knows its process.
Committed ==
  \A s \in Acp :
    /\ acpAt[s] \in {"idle", "wait", "ensure", "handshake", "take", "new", "commit"} =>
         acp[s].status = "none"
    /\ acpAt[s] \in {"generation", "client"} => acp[s].status # "none"
    /\ acp[s].status # "none" => acp[s].home \in Process

CursorInv ==
  /\ CursorTypeOK /\ AcpExclusive /\ CellIsLatest /\ Numbered /\ Handshaking
  /\ TakenTogether /\ Committed /\ BoundToItsProcess

-----------------------------------------------------------------------------
(* The invariant is inductive, part by part.                                *)

\* The write of a cancel ends: with the cancel in the agent's hands, or rolled back.
CancelEnds(s) == \E p \in acp[s].stops : CancelSent(s, p) \/ CancelFails(s, p)

\* What the end of a session, a stop, a watchdog or a follow-up may do to it: never
\* make one, unmake one or move it to another process.
LEMMA SessionKept ==
  ASSUME CursorTypeOK, Committed, NEW s \in Acp,
         \/ InterruptAcp(s) \/ CancelEnds(s) \/ Watchdog(s) \/ FollowAcp(s)
         \/ FailClosed(s) /\ acpAt[s] \in {"generation", "client"}
         \/ \E m \in acpPump[s] : PromptReturns(s, m) \/ PumpSeesDeath(s, m)
  PROVE  /\ acp' \in [Acp -> AcpSession]
         /\ \A u \in Acp : /\ acp'[u].home = acp[u].home
                           /\ acp'[u].status = "none" <=> acp[u].status = "none"
PROOF
<1> DEFINE Kept(n) == /\ n \in AcpSession /\ n.home = acp[s].home
                      /\ n.status = "none" <=> acp[s].status = "none"
<1>1. acp \in [Acp -> AcpSession] BY DEF CursorTypeOK
<1>2. acp[s] \in AcpSession BY <1>1
<1>3. SUFFICES \E n : Kept(n) /\ acp' = [acp EXCEPT ![s] = n]
  <2> SUFFICES ASSUME NEW n, Kept(n), acp' = [acp EXCEPT ![s] = n]
               PROVE  /\ acp' \in [Acp -> AcpSession]
                      /\ \A u \in Acp : /\ acp'[u].home = acp[u].home
                                        /\ acp'[u].status = "none" <=> acp[u].status = "none"
    BY <1>3
  <2> QED BY <1>1
<1>4. \A w \in {"done", "failed"} :
        Kept([acp[s] EXCEPT !.status = IF @ \in AcpInFlight THEN w ELSE @])
  BY <1>2 DEF AcpSession, AcpInFlight
<1>5. \A w \in {"done", "failed"} : EndAcp(s, w) => \E n : Kept(n) /\ acp' = [acp EXCEPT ![s] = n]
  BY <1>1, <1>4 DEF EndAcp
<1>6. CASE InterruptAcp(s)
  <2> DEFINE stops == acp[s].stops \cup {acpCell}
             n == [acp[s] EXCEPT !.status = "interrupting", !.stops = stops]
  <2>1. CASE EndAcp(s, "done") BY <1>5, <2>1
  <2>2. CASE acp' = [acp EXCEPT ![s].status = "interrupting", ![s].stops = @ \cup {acpCell}]
    <3>1. acp' = [acp EXCEPT ![s] = n] BY <1>1, <2>2 DEF AcpSession
    <3>2. acp[s].status = "running" BY <1>6 DEF InterruptAcp
    <3>3. acpCell \in 0..MaxProcess BY DEF CursorTypeOK, CellType
    <3>4. stops \subseteq 0..MaxProcess BY <1>2, <3>3 DEF AcpSession
    <3> HIDE DEF stops
    <3>5. Kept(n) BY <1>2, <3>2, <3>4 DEF AcpSession, AcpInFlight
    <3> QED BY <3>1, <3>5
  <2> QED BY <1>6, <2>1, <2>2 DEF InterruptAcp
<1>7. CASE Watchdog(s)
  <2> DEFINE w == IF acp[s].status \in AcpInFlight THEN "done" ELSE acp[s].status
             n == [acp[s] EXCEPT !.watchdog = FALSE, !.status = w]
  <2>1. acp' = [acp EXCEPT ![s] = n] BY <1>1, <1>7 DEF Watchdog, AcpSession
  <2>2. Kept(n) BY <1>2 DEF AcpSession, AcpInFlight
  <2> QED BY <2>1, <2>2
<1>8. CASE FollowAcp(s)
  <2> DEFINE n == [acp[s] EXCEPT !.status = "running", !.turns = acp[s].turns + 1]
  <2>1. acp' = [acp EXCEPT ![s] = n] BY <1>1, <1>8 DEF FollowAcp, AcpSession
  <2>2. acp[s].status # "none" BY <1>8 DEF FollowAcp
  <2>3. acp[s].turns + 1 \in Nat BY <1>2 DEF AcpSession
  <2>4. Kept(n) BY <1>2, <2>2, <2>3 DEF AcpSession, AcpInFlight
  <2> QED BY <2>1, <2>4
<1>9. CASE FailClosed(s) /\ acpAt[s] \in {"generation", "client"}
  <2> DEFINE n == [acp[s] EXCEPT !.status = "failed"]
  <2>1. acp' = [acp EXCEPT ![s] = n] BY <1>1, <1>9 DEF FailClosed
  <2>2. acp[s].status # "none" BY <1>9 DEF Committed
  <2>3. Kept(n) BY <1>2, <2>2 DEF AcpSession
  <2> QED BY <2>1, <2>3
<1>10. CASE \E m \in acpPump[s] : PromptReturns(s, m) \/ PumpSeesDeath(s, m)
  BY <1>5, <1>10 DEF PromptReturns, PumpSeesDeath
<1>11. CASE CancelEnds(s)
  <2>1. PICK p \in acp[s].stops : CancelSent(s, p) \/ CancelFails(s, p)
    BY <1>11 DEF CancelEnds
  <2> DEFINE stops == acp[s].stops \ {p}
             w == IF acp[s].status = "interrupting" THEN "running" ELSE acp[s].status
             sent == [acp[s] EXCEPT !.stops = stops, !.watchdog = TRUE]
             back == [acp[s] EXCEPT !.stops = stops, !.status = w]
  <2>2. /\ stops \subseteq 0..MaxProcess /\ w \in AcpInFlight \cup {"none", "done", "failed"}
        /\ w = "none" <=> acp[s].status = "none"
    BY <1>2 DEF AcpSession, AcpInFlight
  <2>3. CASE CancelSent(s, p)
    <3>1. acp' = [acp EXCEPT ![s] = sent] BY <1>1, <2>3 DEF CancelSent, AcpSession
    <3> HIDE DEF stops
    <3>2. Kept(sent) BY <1>2, <2>2 DEF AcpSession
    <3> QED BY <3>1, <3>2
  <2>4. CASE CancelFails(s, p)
    <3>1. acp' = [acp EXCEPT ![s] = back] BY <1>1, <2>4 DEF CancelFails, AcpSession
    <3> HIDE DEF stops, w
    <3>2. Kept(back) BY <1>2, <2>2 DEF AcpSession
    <3> QED BY <3>1, <3>2
  <2> QED BY <2>1, <2>3, <2>4
<1> QED BY <1>6, <1>7, <1>8, <1>9, <1>10, <1>11

\* A session is committed with the process its command has the client of.
LEMMA SessionMade ==
  ASSUME CursorTypeOK, NEW s \in Acp, CommitAcp(s)
  PROVE  /\ acp' \in [Acp -> AcpSession]
         /\ acp'[s].home = client[s] /\ acp'[s].status = "running"
         /\ \A u \in Acp : u # s => acp'[u] = acp[u]
PROOF
<1> DEFINE n == [acp[s] EXCEPT !.status = "running", !.turns = 1, !.home = client[s]]
<1>1. acp \in [Acp -> AcpSession] /\ client[s] \in 0..MaxProcess
  BY DEF CursorTypeOK, CommandsType
<1>2. acp' = [acp EXCEPT ![s] = n] BY <1>1 DEF CommitAcp
<1>3. n \in AcpSession /\ n.home = client[s] /\ n.status = "running"
  BY <1>1 DEF AcpSession, AcpInFlight
<1> HIDE DEF n
<1> QED BY <1>1, <1>2, <1>3

\* An installation gives the process of the handshake the next generation.
LEMMA Installed ==
  ASSUME CursorTypeOK, Numbered, Handshaking, NEW s \in Acp, InstallProcess(s), ~acpStopped
  PROVE  /\ acpGen' = acpGen + 1 /\ acpGen' \in 0..MaxProcess /\ acpCell' = client[s]
         /\ client[s] \in Process /\ process'[client[s]].gen = acpGen'
         /\ process' \in [Process -> AcpProcess]
         /\ \A p \in Process : process'[p].life = process[p].life
         /\ \A p \in Process : p # client[s] => process'[p] = process[p]
PROOF
<1>1. process \in [Process -> AcpProcess] /\ acpGen \in 0..MaxProcess
  BY DEF CursorTypeOK, CellType
<1>2. client[s] \in Process /\ acpGen < client[s]
  BY DEF InstallProcess, AcpStep, Handshaking
<1>3. acpGen + 1 \in 0..MaxProcess
  BY <1>1, <1>2, AcpBounds DEF Process
<1>4. /\ acpGen' = acpGen + 1 /\ acpCell' = client[s]
      /\ process' = [process EXCEPT ![client[s]].gen = acpGen + 1]
  BY DEF InstallProcess
<1> QED BY <1>1, <1>2, <1>3, <1>4 DEF AcpProcess

\* A process that is killed is one still.
LEMMA KillTyped ==
  ASSUME process \in [Process -> AcpProcess], NEW p, KillAcp(p)
  PROVE  process' \in [Process -> AcpProcess]
PROOF
<1>1. \A q \in Process : [process[q] EXCEPT !.life = "dead"] \in AcpProcess
  BY DEF AcpProcess
<1> QED BY <1>1 DEF KillAcp

\* Every other change of the processes leaves those that were spawned their number.
LEMMA ProcessKept ==
  ASSUME CursorTypeOK, NEW p \in Process,
         \/ StopManager \/ ProcessDies
         \/ \E s \in Acp : KillAcp(client[s])
         \/ \E s \in Acp : SpawnProcess(s) /\ process[p].life # "none"
  PROVE  process'[p].gen = process[p].gen /\ (process'[p].life = "none" => process[p].life = "none")
PROOF
<1>1. process \in [Process -> AcpProcess] BY DEF CursorTypeOK
<1>2. process[p] \in AcpProcess BY <1>1
<1>3. [process[p] EXCEPT !.life = "dead"].gen = process[p].gen
  BY <1>2 DEF AcpProcess
<1>4. [process[p] EXCEPT !.life = "dead"].life = "dead"
  BY <1>2 DEF AcpProcess
<1>5. CASE StopManager BY <1>3, <1>4, <1>5 DEF StopManager
<1>6. ASSUME NEW q, KillAcp(q)
      PROVE  process'[p] \in {process[p], [process[p] EXCEPT !.life = "dead"]}
  BY <1>1, <1>6 DEF KillAcp
<1>7. CASE ProcessDies BY <1>3, <1>4, <1>6, <1>7 DEF ProcessDies
<1>8. CASE \E s \in Acp : KillAcp(client[s]) BY <1>3, <1>4, <1>6, <1>8
<1>9. CASE \E s \in Acp : SpawnProcess(s) /\ process[p].life # "none"
  <2>1. PICK s \in Acp : SpawnProcess(s) /\ process[p].life # "none" BY <1>9
  <2>2. PICK r \in Process :
          /\ process[r].life = "none"
          /\ process' = [q \in Process |->
               IF q = r THEN [life |-> "live", model |-> ModelOf[s], gen |-> 0]
               ELSE IF q = acpCell THEN [process[q] EXCEPT !.life = "dead"] ELSE process[q]]
    BY <2>1 DEF SpawnProcess
  <2> QED BY <1>3, <1>4, <2>1, <2>2
<1> QED BY <1>5, <1>7, <1>8, <1>9

\* The cell, its lock and the counters keep their types.
LEMMA CellStep ==
  ASSUME CursorTypeOK, Numbered, Handshaking, [CursorNext]_cursorVars
  PROVE  CellType'
PROOF
<1> USE AcpAssumption, AcpBounds
       DEF CellType, CursorTypeOK, CommandsType, managerVars, commandVars, acpVars
<1>1. ASSUME NEW s \in Acp, LockStart(s) PROVE CellType'
  BY <1>1 DEF LockStart, AcpStep
<1>2. ASSUME NEW s \in Acp, RefuseModel(s) PROVE CellType'
  BY <1>2 DEF RefuseModel, AcpStep
<1>3. ASSUME NEW s \in Acp, SpawnProcess(s) PROVE CellType'
  BY <1>3 DEF SpawnProcess, AcpConnected
<1>4. ASSUME NEW s \in Acp, HandshakeFails(s) PROVE CellType'
  BY <1>4 DEF HandshakeFails, AcpStep, AcpEvent, KillAcp
<1>5. ASSUME NEW s \in Acp, InstallProcess(s) PROVE CellType'
  <2>1. CASE acpStopped
    BY <1>5, <2>1 DEF InstallProcess, AcpStep, KillAcp
  <2>2. CASE ~acpStopped
    BY <1>5, <2>2, Installed DEF InstallProcess, AcpStep
  <2> QED BY <2>1, <2>2
<1>6. ASSUME NEW s \in Acp, TakeClient(s) PROVE CellType'
  BY <1>6 DEF TakeClient, AcpStep
<1>7. ASSUME NEW s \in Acp, NewAcpFails(s) PROVE CellType'
  BY <1>7 DEF NewAcpFails, AcpEvent
<1>8. ASSUME NEW s \in Acp, FollowAcp(s) PROVE CellType'
  BY <1>8 DEF FollowAcp, AcpEvent
<1>9. ASSUME NEW s \in Acp, InterruptAcp(s) PROVE CellType'
  BY <1>9 DEF InterruptAcp, AcpEvent, EndAcp
<1>14. ASSUME NEW s \in Acp, CancelEnds(s) PROVE CellType'
  <2>1. PICK p \in acp[s].stops : CancelSent(s, p) \/ CancelFails(s, p)
    BY <1>14 DEF CancelEnds
  <2>2. UNCHANGED acpEvents \/ AcpEvent BY <2>1 DEF CancelSent, CancelFails
  <2>3. UNCHANGED <<acpStopped, acpCell, acpGen, acpLock>> BY <2>1 DEF CancelSent, CancelFails
  <2> QED BY <2>2, <2>3 DEF AcpEvent
<1>10. CASE StopManager
  BY <1>10 DEF StopManager, AcpEvent
<1>11. CASE ResumeManager
  <2>1. acpStopped' = FALSE /\ UNCHANGED <<acpCell, acpGen, acpLock, acpEvents>>
    BY <1>11 DEF ResumeManager
  <2> QED BY <2>1
<1>12. CASE ProcessDies
  BY <1>12 DEF ProcessDies, AcpEvent, KillAcp, AcpConnected
<1>13. CASE UNCHANGED <<acpStopped, acpCell, acpGen, acpLock, acpEvents>>
  BY <1>13
<1> HIDE DEF CellType, CursorTypeOK, CommandsType, managerVars, commandVars, acpVars
<1> QED
  <2>1. ASSUME NEW s \in Acp,
         LookBusy(s) \/ ReuseProcess(s) \/ NewAcpSession(s) \/ CommitAcp(s) \/
         GenerationGate(s) \/ ClientGate(s) \/ Watchdog(s)
       PROVE  UNCHANGED <<acpStopped, acpCell, acpGen, acpLock, acpEvents>>
    BY <2>1 DEF LookBusy, ReuseProcess, NewAcpSession, CommitAcp, GenerationGate,
       ClientGate, Watchdog, FailClosed, managerVars, commandVars, acpVars
  <2>2. ASSUME NEW s \in Acp, NEW m \in acpPump[s],
         Prompted(s, m) \/ PromptReturns(s, m) \/ PumpSeesDeath(s, m)
       PROVE  UNCHANGED <<acpStopped, acpCell, acpGen, acpLock, acpEvents>>
    BY <2>2 DEF Prompted, PromptReturns, PumpSeesDeath, managerVars, commandVars, acpVars
  <2>3. CASE UNCHANGED cursorVars
    BY <2>3, <1>13 DEF cursorVars, managerVars, commandVars, acpVars
  <2> QED BY <1>1, <1>2, <1>3, <1>4, <1>5, <1>6, <1>7, <1>8, <1>9, <1>10, <1>11, <1>12,
     <1>13, <1>14, <2>1, <2>2, <2>3
     DEF CancelEnds, CursorNext

\* The commands keep theirs.
LEMMA CommandsStep ==
  ASSUME CursorTypeOK, [CursorNext]_cursorVars
  PROVE  CommandsType'
PROOF
<1> USE AcpAssumption, AcpBounds
       DEF CellType, CursorTypeOK, CommandsType, Process, managerVars, commandVars, acpVars
<1>1. ASSUME NEW s \in Acp, LookBusy(s) PROVE CommandsType'
  BY <1>1 DEF LookBusy, AcpStep
<1>2. ASSUME NEW s \in Acp, LockStart(s) PROVE CommandsType'
  BY <1>2 DEF LockStart, AcpStep
<1>3. ASSUME NEW s \in Acp, ReuseProcess(s) PROVE CommandsType'
  BY <1>3 DEF ReuseProcess, AcpStep
<1>4. ASSUME NEW s \in Acp, RefuseModel(s) PROVE CommandsType'
  BY <1>4 DEF RefuseModel, AcpStep
<1>5. ASSUME NEW s \in Acp, SpawnProcess(s) PROVE CommandsType'
  BY <1>5 DEF SpawnProcess, AcpStep, AcpConnected
<1>6. ASSUME NEW s \in Acp, HandshakeFails(s) PROVE CommandsType'
  BY <1>6 DEF HandshakeFails, AcpStep, AcpEvent, KillAcp
<1>7. ASSUME NEW s \in Acp, InstallProcess(s) PROVE CommandsType'
  BY <1>7 DEF InstallProcess, AcpStep, KillAcp
<1>8. ASSUME NEW s \in Acp, TakeClient(s) PROVE CommandsType'
  <2>1. CASE AcpConnected
    <3>1. /\ acpAt' = [acpAt EXCEPT ![s] = "new"] /\ UNCHANGED acpBusy
          /\ client' = [client EXCEPT ![s] = acpCell] /\ bound' = [bound EXCEPT ![s] = acpGen]
      BY <1>8, <2>1 DEF TakeClient, AcpStep
    <3> QED BY <3>1
  <2>2. CASE ~AcpConnected BY <1>8, <2>2 DEF TakeClient, AcpStep
  <2> QED BY <2>1, <2>2
<1>9. ASSUME NEW s \in Acp, NewAcpSession(s) PROVE CommandsType'
  BY <1>9 DEF NewAcpSession, AcpStep
<1>10. ASSUME NEW s \in Acp, CommitAcp(s) PROVE CommandsType'
  BY <1>10 DEF CommitAcp, AcpStep, StartPump
<1>11. ASSUME NEW s \in Acp, NewAcpFails(s) PROVE CommandsType'
  BY <1>11 DEF NewAcpFails, AcpEvent
<1>12. ASSUME NEW s \in Acp, FollowAcp(s) PROVE CommandsType'
  BY <1>12 DEF FollowAcp, AcpEvent
<1>13. ASSUME NEW s \in Acp, GenerationGate(s) PROVE CommandsType'
  <2>1. CASE FailClosed(s) BY <2>1 DEF FailClosed
  <2>2. CASE ~FailClosed(s) BY <1>13, <2>2 DEF GenerationGate, AcpStep
  <2> QED BY <2>1, <2>2
<1>14. ASSUME NEW s \in Acp, ClientGate(s) PROVE CommandsType'
  <2>1. CASE FailClosed(s) BY <2>1 DEF FailClosed
  <2>2. CASE ~FailClosed(s)
    <3>1. /\ acpAt' = [acpAt EXCEPT ![s] = "over"] /\ UNCHANGED <<acpBusy, bound>>
          /\ client' = [client EXCEPT ![s] = acpCell]
      BY <1>14, <2>2 DEF ClientGate, AcpStep
    <3> QED BY <3>1
  <2> QED BY <2>1, <2>2
<1>15. CASE UNCHANGED <<acpAt, acpBusy, client, bound>>
  BY <1>15
<1> HIDE DEF CellType, CursorTypeOK, CommandsType, Process, managerVars, commandVars,
     acpVars
<1> QED
  <2>1. ASSUME NEW s \in Acp,
         InterruptAcp(s) \/ CancelEnds(s) \/ Watchdog(s)
       PROVE  UNCHANGED <<acpAt, acpBusy, client, bound>>
    BY <2>1 DEF InterruptAcp, CancelEnds, CancelSent, CancelFails, Watchdog, managerVars,
       commandVars, acpVars
  <2>2. ASSUME NEW s \in Acp, NEW m \in acpPump[s],
         Prompted(s, m) \/ PromptReturns(s, m) \/ PumpSeesDeath(s, m)
       PROVE  UNCHANGED <<acpAt, acpBusy, client, bound>>
    BY <2>2 DEF Prompted, PromptReturns, PumpSeesDeath, managerVars, commandVars, acpVars
  <2>3. ASSUME StopManager \/ ResumeManager \/ ProcessDies
       PROVE  UNCHANGED <<acpAt, acpBusy, client, bound>>
    BY <2>3 DEF StopManager, ResumeManager, ProcessDies, managerVars, commandVars, acpVars
  <2>4. CASE UNCHANGED cursorVars
    BY <2>4, <1>15 DEF cursorVars, managerVars, commandVars, acpVars
  <2> QED BY <1>1, <1>2, <1>3, <1>4, <1>5, <1>6, <1>7, <1>8, <1>9, <1>10, <1>11, <1>12,
     <1>13, <1>14, <1>15, <2>1, <2>2, <2>3, <2>4 DEF CancelEnds, CursorNext

\* The processes keep theirs.
LEMMA ProcessesStep ==
  ASSUME CursorTypeOK, Numbered, Handshaking, [CursorNext]_cursorVars
  PROVE  (process \in [Process -> AcpProcess])'
PROOF
<1> USE AcpAssumption, AcpBounds
       DEF CursorTypeOK, CellType, CommandsType, AcpProcess, managerVars, commandVars,
           acpVars
<1>1. ASSUME NEW s \in Acp, SpawnProcess(s) PROVE (process \in [Process -> AcpProcess])'
  <2>1. ModelOf[s] \in Model BY DEF Model
  <2> QED BY <1>1, <2>1 DEF SpawnProcess
<1>2. ASSUME NEW s \in Acp, HandshakeFails(s) PROVE (process \in [Process -> AcpProcess])'
  <2>1. KillAcp(client[s]) BY <1>2 DEF HandshakeFails
  <2> QED BY <2>1, KillTyped
<1>3. ASSUME NEW s \in Acp, InstallProcess(s) PROVE (process \in [Process -> AcpProcess])'
  <2>1. CASE acpStopped
    <3>1. KillAcp(client[s]) BY <1>3, <2>1 DEF InstallProcess
    <3> QED BY <3>1, KillTyped
  <2>2. CASE ~acpStopped
    BY <1>3, <2>2, Installed
  <2> QED BY <2>1, <2>2
<1>4. CASE StopManager
  BY <1>4 DEF StopManager, AcpEvent
<1>5. CASE ProcessDies
  <2>1. KillAcp(acpCell) BY <1>5 DEF ProcessDies
  <2> QED BY <2>1, KillTyped
<1>6. CASE UNCHANGED <<process>>
  BY <1>6
<1> HIDE DEF CursorTypeOK, CellType, CommandsType, AcpProcess, managerVars, commandVars,
     acpVars
<1> QED
  <2>1. ASSUME NEW s \in Acp,
         LookBusy(s) \/ LockStart(s) \/ ReuseProcess(s) \/ RefuseModel(s) \/
         TakeClient(s) \/ NewAcpSession(s) \/ CommitAcp(s) \/ NewAcpFails(s) \/
         FollowAcp(s) \/ GenerationGate(s) \/ ClientGate(s) \/ InterruptAcp(s) \/
         CancelEnds(s) \/ Watchdog(s)
       PROVE  UNCHANGED <<process>>
    BY <2>1 DEF LookBusy, LockStart, ReuseProcess, RefuseModel, TakeClient, NewAcpSession,
       CommitAcp, NewAcpFails, FollowAcp, GenerationGate, ClientGate, InterruptAcp,
       CancelEnds, CancelSent, CancelFails, Watchdog, FailClosed, managerVars, commandVars,
       acpVars
  <2>2. ASSUME NEW s \in Acp, NEW m \in acpPump[s],
         Prompted(s, m) \/ PromptReturns(s, m) \/ PumpSeesDeath(s, m)
       PROVE  UNCHANGED <<process>>
    BY <2>2 DEF Prompted, PromptReturns, PumpSeesDeath, managerVars, commandVars, acpVars
  <2>3. ASSUME ResumeManager
       PROVE  UNCHANGED <<process>>
    BY <2>3 DEF ResumeManager, managerVars, commandVars, acpVars
  <2>4. CASE UNCHANGED cursorVars
    BY <2>4, <1>6 DEF cursorVars, managerVars, commandVars, acpVars
  <2> QED BY <1>1, <1>2, <1>3, <1>4, <1>5, <1>6, <2>1, <2>2, <2>3, <2>4 DEF CancelEnds, CursorNext

\* The sessions keep theirs.
LEMMA SessionsStep ==
  ASSUME CursorTypeOK, Committed, [CursorNext]_cursorVars
  PROVE  (acp \in [Acp -> AcpSession])'
PROOF
<1> USE AcpAssumption, AcpBounds
       DEF CursorTypeOK, managerVars, commandVars, acpVars
<1>1. ASSUME NEW s \in Acp, CommitAcp(s) PROVE (acp \in [Acp -> AcpSession])'
  BY <1>1, SessionMade
<1>2. ASSUME NEW s \in Acp, FollowAcp(s) PROVE (acp \in [Acp -> AcpSession])'
  BY <1>2, SessionKept
<1>3. ASSUME NEW s \in Acp, GenerationGate(s) PROVE (acp \in [Acp -> AcpSession])'
  <2>1. FailClosed(s) => acp' \in [Acp -> AcpSession] BY <1>3, SessionKept DEF GenerationGate
  <2> QED BY <1>3, <2>1 DEF GenerationGate
<1>4. ASSUME NEW s \in Acp, ClientGate(s) PROVE (acp \in [Acp -> AcpSession])'
  <2>1. FailClosed(s) => acp' \in [Acp -> AcpSession] BY <1>4, SessionKept DEF ClientGate
  <2> QED BY <1>4, <2>1 DEF ClientGate
<1>5. ASSUME NEW s \in Acp, InterruptAcp(s) PROVE (acp \in [Acp -> AcpSession])'
  BY <1>5, SessionKept
<1>10. ASSUME NEW s \in Acp, CancelEnds(s) PROVE (acp \in [Acp -> AcpSession])'
  BY <1>10, SessionKept
<1>6. ASSUME NEW s \in Acp, Watchdog(s) PROVE (acp \in [Acp -> AcpSession])'
  BY <1>6, SessionKept
<1>7. ASSUME NEW s \in Acp, NEW m \in acpPump[s], PromptReturns(s, m)
      PROVE (acp \in [Acp -> AcpSession])'
  BY <1>7, SessionKept
<1>8. ASSUME NEW s \in Acp, NEW m \in acpPump[s], PumpSeesDeath(s, m)
      PROVE (acp \in [Acp -> AcpSession])'
  BY <1>8, SessionKept
<1>9. CASE UNCHANGED <<acp>>
  BY <1>9
<1> HIDE DEF CursorTypeOK, managerVars, commandVars, acpVars
<1> QED
  <2>1. ASSUME NEW s \in Acp,
         LookBusy(s) \/ LockStart(s) \/ ReuseProcess(s) \/ RefuseModel(s) \/
         SpawnProcess(s) \/ HandshakeFails(s) \/ InstallProcess(s) \/ TakeClient(s) \/
         NewAcpSession(s) \/ NewAcpFails(s)
       PROVE  UNCHANGED <<acp>>
    BY <2>1 DEF LookBusy, LockStart, ReuseProcess, RefuseModel, SpawnProcess,
       HandshakeFails, InstallProcess, TakeClient, NewAcpSession, NewAcpFails, managerVars,
       commandVars, acpVars
  <2>2. ASSUME NEW s \in Acp, NEW m \in acpPump[s],
         Prompted(s, m)
       PROVE  UNCHANGED <<acp>>
    BY <2>2 DEF Prompted, managerVars, commandVars, acpVars
  <2>3. ASSUME StopManager \/ ResumeManager \/ ProcessDies
       PROVE  UNCHANGED <<acp>>
    BY <2>3 DEF StopManager, ResumeManager, ProcessDies, managerVars, commandVars, acpVars
  <2>4. CASE UNCHANGED cursorVars
    BY <2>4, <1>9 DEF cursorVars, managerVars, commandVars, acpVars
  <2> QED BY <1>1, <1>2, <1>3, <1>4, <1>5, <1>6, <1>7, <1>8, <1>9, <1>10, <2>1, <2>2, <2>3, <2>4
     DEF CancelEnds, CursorNext

\* The pumps keep theirs.
LEMMA PumpsStep ==
  ASSUME CursorTypeOK, [CursorNext]_cursorVars
  PROVE  (acpPump \in [Acp -> SUBSET AcpPrompt])'
PROOF
<1> USE AcpAssumption, AcpBounds
       DEF CursorTypeOK, managerVars, commandVars, acpVars
<1>1. ASSUME NEW s \in Acp, CommitAcp(s) PROVE (acpPump \in [Acp -> SUBSET AcpPrompt])'
  <2>1. [turn |-> 1, of |-> client'[s], prompt |-> "new"] \in AcpPrompt
    BY <1>1 DEF CommitAcp, CommandsType, CellType, AcpPrompt
  <2> QED BY <1>1, <2>1 DEF CommitAcp, StartPump
<1>2. ASSUME NEW s \in Acp, ClientGate(s) PROVE (acpPump \in [Acp -> SUBSET AcpPrompt])'
  <2>1. CASE UNCHANGED acpPump BY <2>1
  <2>2. CASE client' = [client EXCEPT ![s] = acpCell] /\ StartPump(s, acp[s].turns)
    <3>1. [turn |-> acp[s].turns, of |-> client'[s], prompt |-> "new"] \in AcpPrompt
      BY <2>2 DEF CommandsType, CellType, AcpPrompt, AcpSession
    <3> QED BY <2>2, <3>1 DEF StartPump
  <2> QED BY <1>2, <2>1, <2>2 DEF ClientGate, FailClosed
<1>3. ASSUME NEW s \in Acp, CancelEnds(s) PROVE (acpPump \in [Acp -> SUBSET AcpPrompt])'
  <2>1. \A m \in acpPump[s] : [m EXCEPT !.prompt = "cancelled"] \in AcpPrompt
    BY DEF AcpPrompt
  <2>2. CASE UNCHANGED acpPump BY <2>2
  <2>3. ASSUME NEW p, CancelIn(s, p) PROVE (acpPump \in [Acp -> SUBSET AcpPrompt])'
    BY <2>1, <2>3 DEF CancelIn
  <2> QED BY <1>3, <2>2, <2>3 DEF CancelEnds, CancelSent, CancelFails
<1>4. ASSUME NEW s \in Acp, NEW m \in acpPump[s], Prompted(s, m)
      PROVE (acpPump \in [Acp -> SUBSET AcpPrompt])'
  <2>1. [m EXCEPT !.prompt = "running"] \in AcpPrompt BY DEF AcpPrompt
  <2> QED BY <1>4, <2>1 DEF Prompted
<1>5. ASSUME NEW s \in Acp, NEW m \in acpPump[s], PromptReturns(s, m)
      PROVE (acpPump \in [Acp -> SUBSET AcpPrompt])'
  BY <1>5 DEF PromptReturns, EndAcp
<1>6. ASSUME NEW s \in Acp, NEW m \in acpPump[s], PumpSeesDeath(s, m)
      PROVE (acpPump \in [Acp -> SUBSET AcpPrompt])'
  BY <1>6 DEF PumpSeesDeath, EndAcp
<1>7. CASE UNCHANGED <<acpPump>>
  BY <1>7
<1> HIDE DEF CursorTypeOK, managerVars, commandVars, acpVars
<1> QED
  <2>1. ASSUME NEW s \in Acp,
         LookBusy(s) \/ LockStart(s) \/ ReuseProcess(s) \/ RefuseModel(s) \/
         SpawnProcess(s) \/ HandshakeFails(s) \/ InstallProcess(s) \/ TakeClient(s) \/
         NewAcpSession(s) \/ NewAcpFails(s) \/ FollowAcp(s) \/ GenerationGate(s) \/
         InterruptAcp(s) \/ Watchdog(s)
       PROVE  UNCHANGED <<acpPump>>
    BY <2>1 DEF LookBusy, LockStart, ReuseProcess, RefuseModel, SpawnProcess,
       HandshakeFails, InstallProcess, TakeClient, NewAcpSession, NewAcpFails, FollowAcp,
       GenerationGate, InterruptAcp, EndAcp, Watchdog, FailClosed, managerVars, commandVars,
       acpVars
  <2>2. ASSUME StopManager \/ ResumeManager \/ ProcessDies
       PROVE  UNCHANGED <<acpPump>>
    BY <2>2 DEF StopManager, ResumeManager, ProcessDies, managerVars, commandVars, acpVars
  <2>3. CASE UNCHANGED cursorVars
    BY <2>3, <1>7 DEF cursorVars, managerVars, commandVars, acpVars
  <2> QED BY <1>1, <1>2, <1>3, <1>4, <1>5, <1>6, <1>7, <2>1, <2>2, <2>3 DEF CancelEnds, CursorNext

\* The lock of the slow path is passed on, never shared.
LEMMA AcpExclusiveStep ==
  ASSUME CursorTypeOK, AcpExclusive, [CursorNext]_cursorVars
  PROVE  AcpExclusive'
PROOF
<1> USE AcpAssumption
       DEF CursorTypeOK, CellType, CommandsType, AcpExclusive, managerVars, commandVars,
           acpVars
<1>1. ASSUME NEW s \in Acp, LookBusy(s) PROVE AcpExclusive'
  BY <1>1 DEF LookBusy, AcpStep
<1>2. ASSUME NEW s \in Acp, LockStart(s) PROVE AcpExclusive'
  BY <1>2 DEF LockStart, AcpStep
<1>3. ASSUME NEW s \in Acp, ReuseProcess(s) PROVE AcpExclusive'
  BY <1>3 DEF ReuseProcess, AcpStep
<1>4. ASSUME NEW s \in Acp, RefuseModel(s) PROVE AcpExclusive'
  BY <1>4 DEF RefuseModel, AcpStep
<1>5. ASSUME NEW s \in Acp, SpawnProcess(s) PROVE AcpExclusive'
  BY <1>5 DEF SpawnProcess, AcpStep, AcpConnected
<1>6. ASSUME NEW s \in Acp, HandshakeFails(s) PROVE AcpExclusive'
  BY <1>6 DEF HandshakeFails, AcpStep, AcpEvent, KillAcp
<1>7. ASSUME NEW s \in Acp, InstallProcess(s) PROVE AcpExclusive'
  BY <1>7 DEF InstallProcess, AcpStep, KillAcp
<1>8. ASSUME NEW s \in Acp, TakeClient(s) PROVE AcpExclusive'
  BY <1>8 DEF TakeClient, AcpStep
<1>9. ASSUME NEW s \in Acp, NewAcpSession(s) PROVE AcpExclusive'
  BY <1>9 DEF NewAcpSession, AcpStep
<1>10. ASSUME NEW s \in Acp, CommitAcp(s) PROVE AcpExclusive'
  BY <1>10 DEF CommitAcp, AcpStep, StartPump
<1>11. ASSUME NEW s \in Acp, NewAcpFails(s) PROVE AcpExclusive'
  BY <1>11 DEF NewAcpFails, AcpEvent
<1>12. ASSUME NEW s \in Acp, FollowAcp(s) PROVE AcpExclusive'
  BY <1>12 DEF FollowAcp, AcpEvent
<1>13. ASSUME NEW s \in Acp, GenerationGate(s) PROVE AcpExclusive'
  BY <1>13 DEF GenerationGate, AcpStep, FailClosed
<1>14. ASSUME NEW s \in Acp, ClientGate(s) PROVE AcpExclusive'
  BY <1>14 DEF ClientGate, AcpStep, FailClosed, StartPump
<1>15. CASE UNCHANGED <<acpAt, acpLock>>
  BY <1>15
<1> HIDE DEF CursorTypeOK, CellType, CommandsType, AcpExclusive, managerVars, commandVars,
     acpVars
<1> QED
  <2>1. ASSUME NEW s \in Acp,
         InterruptAcp(s) \/ CancelEnds(s) \/ Watchdog(s)
       PROVE  UNCHANGED <<acpAt, acpLock>>
    BY <2>1 DEF InterruptAcp, CancelEnds, CancelSent, CancelFails, Watchdog, managerVars,
       commandVars, acpVars
  <2>2. ASSUME NEW s \in Acp, NEW m \in acpPump[s],
         Prompted(s, m) \/ PromptReturns(s, m) \/ PumpSeesDeath(s, m)
       PROVE  UNCHANGED <<acpAt, acpLock>>
    BY <2>2 DEF Prompted, PromptReturns, PumpSeesDeath, managerVars, commandVars, acpVars
  <2>3. ASSUME StopManager \/ ResumeManager \/ ProcessDies
       PROVE  UNCHANGED <<acpAt, acpLock>>
    BY <2>3 DEF StopManager, ResumeManager, ProcessDies, managerVars, commandVars, acpVars
  <2>4. CASE UNCHANGED cursorVars
    BY <2>4, <1>15 DEF cursorVars, managerVars, commandVars, acpVars
  <2> QED BY <1>1, <1>2, <1>3, <1>4, <1>5, <1>6, <1>7, <1>8, <1>9, <1>10, <1>11, <1>12,
     <1>13, <1>14, <1>15, <2>1, <2>2, <2>3, <2>4 DEF CancelEnds, CursorNext

\* The cell and the generation change together.
LEMMA CellIsLatestStep ==
  ASSUME CursorTypeOK, CellIsLatest, Numbered, Handshaking, [CursorNext]_cursorVars
  PROVE  CellIsLatest'
PROOF
<1> USE AcpAssumption, AcpBounds
       DEF CursorTypeOK, CellType, CommandsType, Process, CellIsLatest, Numbered,
           Handshaking, managerVars, commandVars, acpVars
<1>1. ASSUME NEW s \in Acp, SpawnProcess(s) PROVE CellIsLatest'
  BY <1>1 DEF SpawnProcess, AcpStep, AcpConnected
<1>2. ASSUME NEW s \in Acp, HandshakeFails(s) PROVE CellIsLatest'
  <2>1. KillAcp(client[s]) /\ acpCell' = acpCell /\ acpGen' = acpGen BY <1>2 DEF HandshakeFails
  <2>2. \A p \in Process :
          /\ process'[p].gen = process[p].gen
          /\ process'[p].life = "none" => process[p].life = "none"
    BY <2>1, ProcessKept
  <2>3. acpCell # 0 => acpCell \in Process OBVIOUS
  <2> QED BY <2>1, <2>2, <2>3
<1>3. ASSUME NEW s \in Acp, InstallProcess(s) PROVE CellIsLatest'
  <2>1. CASE acpStopped
    <3>1. KillAcp(client[s]) /\ UNCHANGED <<acpCell, acpGen, client, bound, acp>>
      BY <1>3, <2>1 DEF InstallProcess
    <3>2. acpAt' = [acpAt EXCEPT ![s] = "over"]
      BY <1>3, <2>1 DEF InstallProcess, AcpStep
    <3>3. \A p \in Process :
            /\ process'[p].gen = process[p].gen
            /\ process'[p].life = "none" => process[p].life = "none"
      BY <3>1, ProcessKept
    <3> QED BY <3>1, <3>2, <3>3
  <2>2. CASE ~acpStopped
    <3>1. acpAt[s] = "handshake" /\ acpAt' = [acpAt EXCEPT ![s] = "take"]
      BY <1>3, <2>2 DEF InstallProcess, AcpStep
    <3>2. UNCHANGED <<client, bound, acp>>
      BY <1>3 DEF InstallProcess
    <3>3. /\ acpGen' = acpGen + 1 /\ acpGen' \in 0..MaxProcess /\ acpCell' = client[s]
          /\ client[s] \in Process /\ process'[client[s]].gen = acpGen'
          /\ \A p \in Process : process'[p].life = process[p].life
          /\ \A p \in Process : p # client[s] => process'[p] = process[p]
      BY <1>3, <2>2, Installed
    <3>4. process[client[s]].life # "none" /\ process[client[s]].gen = 0
      BY <3>1 DEF Handshaking
    <3> QED BY <3>1, <3>2, <3>3, <3>4
  <2> QED BY <2>1, <2>2
<1>4. CASE StopManager
  BY <1>4, ProcessKept DEF StopManager
<1>5. CASE ProcessDies
  BY <1>5, ProcessKept DEF ProcessDies
<1>6. CASE UNCHANGED <<acpCell, acpGen, process>>
  BY <1>6
<1> HIDE DEF CursorTypeOK, CellType, CommandsType, Process, CellIsLatest, Numbered,
     Handshaking, managerVars, commandVars, acpVars
<1> QED
  <2>1. ASSUME NEW s \in Acp,
         LookBusy(s) \/ LockStart(s) \/ ReuseProcess(s) \/ RefuseModel(s) \/
         TakeClient(s) \/ NewAcpSession(s) \/ CommitAcp(s) \/ NewAcpFails(s) \/
         FollowAcp(s) \/ GenerationGate(s) \/ ClientGate(s) \/ InterruptAcp(s) \/
         CancelEnds(s) \/ Watchdog(s)
       PROVE  UNCHANGED <<acpCell, acpGen, process>>
    BY <2>1 DEF LookBusy, LockStart, ReuseProcess, RefuseModel, TakeClient, NewAcpSession,
       CommitAcp, NewAcpFails, FollowAcp, GenerationGate, ClientGate, InterruptAcp,
       CancelEnds, CancelSent, CancelFails, Watchdog, FailClosed, managerVars, commandVars,
       acpVars
  <2>2. ASSUME NEW s \in Acp, NEW m \in acpPump[s],
         Prompted(s, m) \/ PromptReturns(s, m) \/ PumpSeesDeath(s, m)
       PROVE  UNCHANGED <<acpCell, acpGen, process>>
    BY <2>2 DEF Prompted, PromptReturns, PumpSeesDeath, managerVars, commandVars, acpVars
  <2>3. ASSUME ResumeManager
       PROVE  UNCHANGED <<acpCell, acpGen, process>>
    BY <2>3 DEF ResumeManager, managerVars, commandVars, acpVars
  <2>4. CASE UNCHANGED cursorVars
    BY <2>4, <1>6 DEF cursorVars, managerVars, commandVars, acpVars
  <2> QED BY <1>1, <1>2, <1>3, <1>4, <1>5, <1>6, <2>1, <2>2, <2>3, <2>4 DEF CancelEnds, CursorNext

\* Processes are spawned in order, one at a time.
LEMMA NumberedStep ==
  ASSUME CursorTypeOK, Numbered, Handshaking, [CursorNext]_cursorVars
  PROVE  Numbered'
PROOF
<1> USE AcpAssumption, AcpBounds
       DEF CursorTypeOK, CellType, CommandsType, Process, Numbered, Handshaking,
           managerVars, commandVars, acpVars
<1>1. ASSUME NEW s \in Acp, SpawnProcess(s) PROVE Numbered'
  BY <1>1 DEF SpawnProcess, AcpStep, AcpConnected
<1>2. ASSUME NEW s \in Acp, HandshakeFails(s) PROVE Numbered'
  BY <1>2, ProcessKept DEF HandshakeFails
<1>3. ASSUME NEW s \in Acp, InstallProcess(s) PROVE Numbered'
  <2>1. CASE acpStopped
    <3>1. KillAcp(client[s]) /\ UNCHANGED <<acpCell, acpGen, client, bound, acp>>
      BY <1>3, <2>1 DEF InstallProcess
    <3>2. acpAt' = [acpAt EXCEPT ![s] = "over"]
      BY <1>3, <2>1 DEF InstallProcess, AcpStep
    <3>3. \A p \in Process :
            /\ process'[p].gen = process[p].gen
            /\ process'[p].life = "none" => process[p].life = "none"
      BY <3>1, ProcessKept
    <3> QED BY <3>1, <3>2, <3>3
  <2>2. CASE ~acpStopped
    <3>1. acpAt[s] = "handshake" /\ acpAt' = [acpAt EXCEPT ![s] = "take"]
      BY <1>3, <2>2 DEF InstallProcess, AcpStep
    <3>2. UNCHANGED <<client, bound, acp>>
      BY <1>3 DEF InstallProcess
    <3>3. /\ acpGen' = acpGen + 1 /\ acpGen' \in 0..MaxProcess /\ acpCell' = client[s]
          /\ client[s] \in Process /\ process'[client[s]].gen = acpGen'
          /\ \A p \in Process : process'[p].life = process[p].life
          /\ \A p \in Process : p # client[s] => process'[p] = process[p]
      BY <1>3, <2>2, Installed
    <3>4. process[client[s]].life # "none" /\ process[client[s]].gen = 0
      BY <3>1 DEF Handshaking
    <3>5. acpGen < client[s] /\ \A p \in Process : process[p].life = "none" => client[s] < p
      BY <3>1 DEF Handshaking
    <3>6. ASSUME NEW p \in Process, process'[p].life = "none"
          PROVE  process'[p].gen = 0 /\ acpGen' < p
      <4>1. process[p].life = "none" /\ p # client[s] BY <3>3, <3>4, <3>6
      <4>2. process[p].gen = 0 /\ process'[p] = process[p] BY <3>3, <4>1 DEF Numbered
      <4>3. client[s] < p BY <3>5, <4>1
      <4>4. acpGen' < p BY <3>3, <3>5, <4>3
      <4> QED BY <4>2, <4>4
    <3> QED BY <3>6
  <2> QED BY <2>1, <2>2
<1>4. CASE StopManager
  BY <1>4, ProcessKept DEF StopManager
<1>5. CASE ProcessDies
  BY <1>5, ProcessKept DEF ProcessDies
<1>6. CASE UNCHANGED <<acpGen, process>>
  BY <1>6
<1> HIDE DEF CursorTypeOK, CellType, CommandsType, Process, Numbered, Handshaking,
     managerVars, commandVars, acpVars
<1> QED
  <2>1. ASSUME NEW s \in Acp,
         LookBusy(s) \/ LockStart(s) \/ ReuseProcess(s) \/ RefuseModel(s) \/
         TakeClient(s) \/ NewAcpSession(s) \/ CommitAcp(s) \/ NewAcpFails(s) \/
         FollowAcp(s) \/ GenerationGate(s) \/ ClientGate(s) \/ InterruptAcp(s) \/
         CancelEnds(s) \/ Watchdog(s)
       PROVE  UNCHANGED <<acpGen, process>>
    BY <2>1 DEF LookBusy, LockStart, ReuseProcess, RefuseModel, TakeClient, NewAcpSession,
       CommitAcp, NewAcpFails, FollowAcp, GenerationGate, ClientGate, InterruptAcp,
       CancelEnds, CancelSent, CancelFails, Watchdog, FailClosed, managerVars, commandVars,
       acpVars
  <2>2. ASSUME NEW s \in Acp, NEW m \in acpPump[s],
         Prompted(s, m) \/ PromptReturns(s, m) \/ PumpSeesDeath(s, m)
       PROVE  UNCHANGED <<acpGen, process>>
    BY <2>2 DEF Prompted, PromptReturns, PumpSeesDeath, managerVars, commandVars, acpVars
  <2>3. ASSUME ResumeManager
       PROVE  UNCHANGED <<acpGen, process>>
    BY <2>3 DEF ResumeManager, managerVars, commandVars, acpVars
  <2>4. CASE UNCHANGED cursorVars
    BY <2>4, <1>6 DEF cursorVars, managerVars, commandVars, acpVars
  <2> QED BY <1>1, <1>2, <1>3, <1>4, <1>5, <1>6, <2>1, <2>2, <2>3, <2>4 DEF CancelEnds, CursorNext

\* Nobody else spawns or installs during a handshake.
LEMMA HandshakingStep ==
  ASSUME CursorTypeOK, AcpExclusive, Numbered, Handshaking, [CursorNext]_cursorVars
  PROVE  Handshaking'
PROOF
<1> USE AcpAssumption, AcpBounds
       DEF CursorTypeOK, CellType, CommandsType, Process, AcpExclusive, Numbered,
           Handshaking, managerVars, commandVars, acpVars
<1>1. ASSUME NEW s \in Acp, LookBusy(s) PROVE Handshaking'
  BY <1>1 DEF LookBusy, AcpStep
<1>2. ASSUME NEW s \in Acp, LockStart(s) PROVE Handshaking'
  BY <1>2 DEF LockStart, AcpStep
<1>3. ASSUME NEW s \in Acp, ReuseProcess(s) PROVE Handshaking'
  BY <1>3 DEF ReuseProcess, AcpStep
<1>4. ASSUME NEW s \in Acp, RefuseModel(s) PROVE Handshaking'
  BY <1>4 DEF RefuseModel, AcpStep
<1>5. ASSUME NEW s \in Acp, SpawnProcess(s) PROVE Handshaking'
  BY <1>5 DEF SpawnProcess, AcpStep, AcpConnected
<1>6. ASSUME NEW s \in Acp, HandshakeFails(s) PROVE Handshaking'
  BY <1>6 DEF HandshakeFails, AcpStep, AcpEvent, KillAcp
<1>7. ASSUME NEW s \in Acp, InstallProcess(s) PROVE Handshaking'
  BY <1>7 DEF InstallProcess, AcpStep, KillAcp
<1>8. ASSUME NEW s \in Acp, TakeClient(s) PROVE Handshaking'
  BY <1>8 DEF TakeClient, AcpStep
<1>9. ASSUME NEW s \in Acp, NewAcpSession(s) PROVE Handshaking'
  BY <1>9 DEF NewAcpSession, AcpStep
<1>10. ASSUME NEW s \in Acp, CommitAcp(s) PROVE Handshaking'
  BY <1>10 DEF CommitAcp, AcpStep, StartPump
<1>11. ASSUME NEW s \in Acp, NewAcpFails(s) PROVE Handshaking'
  BY <1>11 DEF NewAcpFails, AcpEvent
<1>12. ASSUME NEW s \in Acp, FollowAcp(s) PROVE Handshaking'
  BY <1>12 DEF FollowAcp, AcpEvent
<1>13. ASSUME NEW s \in Acp, GenerationGate(s) PROVE Handshaking'
  BY <1>13 DEF GenerationGate, AcpStep, FailClosed
<1>14. ASSUME NEW s \in Acp, ClientGate(s) PROVE Handshaking'
  BY <1>14 DEF ClientGate, AcpStep, FailClosed, StartPump
<1>15. CASE StopManager
  BY <1>15 DEF StopManager, AcpEvent
<1>16. CASE ProcessDies
  BY <1>16 DEF ProcessDies, AcpEvent, KillAcp, AcpConnected
<1>17. CASE UNCHANGED <<acpGen, process, acpAt, client>>
  BY <1>17
<1> HIDE DEF CursorTypeOK, CellType, CommandsType, Process, AcpExclusive, Numbered,
     Handshaking, managerVars, commandVars, acpVars
<1> QED
  <2>1. ASSUME NEW s \in Acp,
         InterruptAcp(s) \/ CancelEnds(s) \/ Watchdog(s)
       PROVE  UNCHANGED <<acpGen, process, acpAt, client>>
    BY <2>1 DEF InterruptAcp, CancelEnds, CancelSent, CancelFails, Watchdog, managerVars,
       commandVars, acpVars
  <2>2. ASSUME NEW s \in Acp, NEW m \in acpPump[s],
         Prompted(s, m) \/ PromptReturns(s, m) \/ PumpSeesDeath(s, m)
       PROVE  UNCHANGED <<acpGen, process, acpAt, client>>
    BY <2>2 DEF Prompted, PromptReturns, PumpSeesDeath, managerVars, commandVars, acpVars
  <2>3. ASSUME ResumeManager
       PROVE  UNCHANGED <<acpGen, process, acpAt, client>>
    BY <2>3 DEF ResumeManager, managerVars, commandVars, acpVars
  <2>4. CASE UNCHANGED cursorVars
    BY <2>4, <1>17 DEF cursorVars, managerVars, commandVars, acpVars
  <2> QED BY <1>1, <1>2, <1>3, <1>4, <1>5, <1>6, <1>7, <1>8, <1>9, <1>10, <1>11, <1>12,
     <1>13, <1>14, <1>15, <1>16, <1>17, <2>1, <2>2, <2>3, <2>4 DEF CancelEnds, CursorNext

\* Client and generation are read while the cell cannot change between them.
LEMMA TakenTogetherStep ==
  ASSUME CursorTypeOK, CellIsLatest, Numbered, Handshaking, TakenTogether,
         [CursorNext]_cursorVars
  PROVE  TakenTogether'
PROOF
<1> USE AcpAssumption, AcpBounds
       DEF CursorTypeOK, CellType, CommandsType, Process, CellIsLatest, Numbered,
           Handshaking, TakenTogether, managerVars, commandVars, acpVars
<1>1. ASSUME NEW s \in Acp, LookBusy(s) PROVE TakenTogether'
  BY <1>1 DEF LookBusy, AcpStep
<1>2. ASSUME NEW s \in Acp, LockStart(s) PROVE TakenTogether'
  BY <1>2 DEF LockStart, AcpStep
<1>3. ASSUME NEW s \in Acp, ReuseProcess(s) PROVE TakenTogether'
  BY <1>3 DEF ReuseProcess, AcpStep
<1>4. ASSUME NEW s \in Acp, RefuseModel(s) PROVE TakenTogether'
  BY <1>4 DEF RefuseModel, AcpStep
<1>5. ASSUME NEW s \in Acp, SpawnProcess(s) PROVE TakenTogether'
  BY <1>5 DEF SpawnProcess, AcpStep, AcpConnected
<1>6. ASSUME NEW s \in Acp, HandshakeFails(s) PROVE TakenTogether'
  BY <1>6 DEF HandshakeFails, AcpStep, AcpEvent, KillAcp
<1>7. ASSUME NEW s \in Acp, InstallProcess(s) PROVE TakenTogether'
  <2>1. CASE acpStopped
    <3>1. KillAcp(client[s]) /\ UNCHANGED <<acpCell, acpGen, client, bound, acp>>
      BY <1>7, <2>1 DEF InstallProcess
    <3>2. acpAt' = [acpAt EXCEPT ![s] = "over"]
      BY <1>7, <2>1 DEF InstallProcess, AcpStep
    <3>3. \A p \in Process :
            /\ process'[p].gen = process[p].gen
            /\ process'[p].life = "none" => process[p].life = "none"
      BY <3>1, ProcessKept
    <3> QED BY <3>1, <3>2, <3>3
  <2>2. CASE ~acpStopped
    <3>1. acpAt[s] = "handshake" /\ acpAt' = [acpAt EXCEPT ![s] = "take"]
      BY <1>7, <2>2 DEF InstallProcess, AcpStep
    <3>2. UNCHANGED <<client, bound, acp>>
      BY <1>7 DEF InstallProcess
    <3>3. /\ acpGen' = acpGen + 1 /\ acpGen' \in 0..MaxProcess /\ acpCell' = client[s]
          /\ client[s] \in Process /\ process'[client[s]].gen = acpGen'
          /\ \A p \in Process : process'[p].life = process[p].life
          /\ \A p \in Process : p # client[s] => process'[p] = process[p]
      BY <1>7, <2>2, Installed
    <3>4. process[client[s]].life # "none" /\ process[client[s]].gen = 0
      BY <3>1 DEF Handshaking
    <3>5. ASSUME NEW u \in Acp, acpAt'[u] \in {"new", "commit"}
          PROVE  /\ client'[u] \in Process
                 /\ bound'[u] # 0 /\ bound'[u] = process'[client'[u]].gen
      <4>1. acpAt[u] \in {"new", "commit"}
        BY <3>1, <3>5
      <4>2. /\ client[u] \in Process
            /\ bound[u] # 0 /\ bound[u] = process[client[u]].gen
        BY <4>1
      <4>3. client[u] # client[s]
        BY <4>2, <3>4
      <4> QED BY <4>2, <4>3, <3>2, <3>3
    <3> QED BY <3>5
  <2> QED BY <2>1, <2>2
<1>8. ASSUME NEW s \in Acp, TakeClient(s) PROVE TakenTogether'
  <2>1. CASE AcpConnected
    <3>1. /\ acpAt' = [acpAt EXCEPT ![s] = "new"] /\ UNCHANGED process
          /\ client' = [client EXCEPT ![s] = acpCell] /\ bound' = [bound EXCEPT ![s] = acpGen]
      BY <1>8, <2>1 DEF TakeClient, AcpStep
    <3>2. acpCell \in Process /\ acpGen # 0 /\ process[acpCell].gen = acpGen
      BY <2>1 DEF AcpConnected
    <3> QED BY <3>1, <3>2
  <2>2. CASE ~AcpConnected
    <3>1. acpAt' = [acpAt EXCEPT ![s] = "over"] /\ UNCHANGED <<process, client, bound>>
      BY <1>8, <2>2 DEF TakeClient, AcpStep
    <3> QED BY <3>1
  <2> QED BY <2>1, <2>2
<1>9. ASSUME NEW s \in Acp, NewAcpSession(s) PROVE TakenTogether'
  BY <1>9 DEF NewAcpSession, AcpStep
<1>10. ASSUME NEW s \in Acp, CommitAcp(s) PROVE TakenTogether'
  BY <1>10 DEF CommitAcp, AcpStep, StartPump
<1>11. ASSUME NEW s \in Acp, NewAcpFails(s) PROVE TakenTogether'
  BY <1>11 DEF NewAcpFails, AcpEvent
<1>12. ASSUME NEW s \in Acp, FollowAcp(s) PROVE TakenTogether'
  BY <1>12 DEF FollowAcp, AcpEvent
<1>13. ASSUME NEW s \in Acp, GenerationGate(s) PROVE TakenTogether'
  BY <1>13 DEF GenerationGate, AcpStep, FailClosed
<1>14. ASSUME NEW s \in Acp, ClientGate(s) PROVE TakenTogether'
  BY <1>14 DEF ClientGate, AcpStep, FailClosed, StartPump
<1>15. CASE StopManager
  BY <1>15 DEF StopManager, AcpEvent
<1>16. CASE ProcessDies
  BY <1>16 DEF ProcessDies, AcpEvent, KillAcp, AcpConnected
<1>17. CASE UNCHANGED <<process, acpAt, client, bound>>
  BY <1>17
<1> HIDE DEF CursorTypeOK, CellType, CommandsType, Process, CellIsLatest, Numbered,
     Handshaking, TakenTogether, managerVars, commandVars, acpVars
<1> QED
  <2>1. ASSUME NEW s \in Acp,
         InterruptAcp(s) \/ CancelEnds(s) \/ Watchdog(s)
       PROVE  UNCHANGED <<process, acpAt, client, bound>>
    BY <2>1 DEF InterruptAcp, CancelEnds, CancelSent, CancelFails, Watchdog, managerVars,
       commandVars, acpVars
  <2>2. ASSUME NEW s \in Acp, NEW m \in acpPump[s],
         Prompted(s, m) \/ PromptReturns(s, m) \/ PumpSeesDeath(s, m)
       PROVE  UNCHANGED <<process, acpAt, client, bound>>
    BY <2>2 DEF Prompted, PromptReturns, PumpSeesDeath, managerVars, commandVars, acpVars
  <2>3. ASSUME ResumeManager
       PROVE  UNCHANGED <<process, acpAt, client, bound>>
    BY <2>3 DEF ResumeManager, managerVars, commandVars, acpVars
  <2>4. CASE UNCHANGED cursorVars
    BY <2>4, <1>17 DEF cursorVars, managerVars, commandVars, acpVars
  <2> QED BY <1>1, <1>2, <1>3, <1>4, <1>5, <1>6, <1>7, <1>8, <1>9, <1>10, <1>11, <1>12,
     <1>13, <1>14, <1>15, <1>16, <1>17, <2>1, <2>2, <2>3, <2>4 DEF CancelEnds, CursorNext

\* A session is committed once, with the process it was made in.
LEMMA CommittedStep ==
  ASSUME CursorTypeOK, TakenTogether, Committed, [CursorNext]_cursorVars
  PROVE  Committed'
PROOF
<1> USE AcpAssumption, AcpBounds
       DEF CursorTypeOK, CommandsType, TakenTogether, Committed, managerVars, commandVars,
           acpVars
<1>1. ASSUME NEW s \in Acp, LookBusy(s) PROVE Committed'
  BY <1>1 DEF LookBusy, AcpStep
<1>2. ASSUME NEW s \in Acp, LockStart(s) PROVE Committed'
  BY <1>2 DEF LockStart, AcpStep
<1>3. ASSUME NEW s \in Acp, ReuseProcess(s) PROVE Committed'
  BY <1>3 DEF ReuseProcess, AcpStep
<1>4. ASSUME NEW s \in Acp, RefuseModel(s) PROVE Committed'
  BY <1>4 DEF RefuseModel, AcpStep
<1>5. ASSUME NEW s \in Acp, SpawnProcess(s) PROVE Committed'
  BY <1>5 DEF SpawnProcess, AcpStep, AcpConnected
<1>6. ASSUME NEW s \in Acp, HandshakeFails(s) PROVE Committed'
  BY <1>6 DEF HandshakeFails, AcpStep, AcpEvent, KillAcp
<1>7. ASSUME NEW s \in Acp, InstallProcess(s) PROVE Committed'
  BY <1>7 DEF InstallProcess, AcpStep, KillAcp
<1>8. ASSUME NEW s \in Acp, TakeClient(s) PROVE Committed'
  BY <1>8 DEF TakeClient, AcpStep
<1>9. ASSUME NEW s \in Acp, NewAcpSession(s) PROVE Committed'
  BY <1>9 DEF NewAcpSession, AcpStep
<1>10. ASSUME NEW s \in Acp, CommitAcp(s) PROVE Committed'
  <2>1. acpAt[s] = "commit" /\ acpAt' = [acpAt EXCEPT ![s] = "over"]
    BY <1>10 DEF CommitAcp, AcpStep
  <2>2. /\ acp'[s].home = client[s] /\ acp'[s].status = "running"
        /\ \A u \in Acp : u # s => acp'[u] = acp[u]
    BY <1>10, SessionMade
  <2> QED BY <2>1, <2>2
<1>11. ASSUME NEW s \in Acp, NewAcpFails(s) PROVE Committed'
  BY <1>11 DEF NewAcpFails, AcpEvent
<1>12. ASSUME NEW s \in Acp, FollowAcp(s) PROVE Committed'
  <2>1. acpAt[s] = "over" /\ acpAt' = [acpAt EXCEPT ![s] = "generation"]
        /\ acp[s].status # "none"
    BY <1>12 DEF FollowAcp
  <2>2. \A u \in Acp :
          /\ acp'[u].home = acp[u].home
          /\ acp'[u].status = "none" <=> acp[u].status = "none"
    BY <1>12, SessionKept
  <2> QED BY <2>1, <2>2
<1>13. ASSUME NEW s \in Acp, GenerationGate(s) PROVE Committed'
  <2>1. CASE FailClosed(s)
    BY <1>13, <2>1, SessionKept DEF GenerationGate, FailClosed
  <2>2. CASE AcpStep(s, "generation", "client") /\ UNCHANGED acp
    BY <2>2 DEF AcpStep
  <2> QED BY <1>13, <2>1, <2>2 DEF GenerationGate
<1>14. ASSUME NEW s \in Acp, ClientGate(s) PROVE Committed'
  <2>1. CASE FailClosed(s)
    BY <1>14, <2>1, SessionKept DEF ClientGate, FailClosed
  <2>2. CASE AcpStep(s, "client", "over") /\ UNCHANGED acp
    BY <2>2 DEF AcpStep
  <2> QED BY <1>14, <2>1, <2>2 DEF ClientGate
<1>15. ASSUME NEW s \in Acp, InterruptAcp(s) PROVE Committed'
  <2>1. UNCHANGED acpAt
    BY <1>15 DEF InterruptAcp, commandVars
  <2>2. \A u \in Acp :
          /\ acp'[u].home = acp[u].home
          /\ acp'[u].status = "none" <=> acp[u].status = "none"
    BY <1>15, SessionKept
  <2> QED BY <2>1, <2>2
<1>20. ASSUME NEW s \in Acp, CancelEnds(s) PROVE Committed'
  <2>1. UNCHANGED acpAt
    BY <1>20 DEF CancelEnds, CancelSent, CancelFails, commandVars
  <2>2. \A u \in Acp :
          /\ acp'[u].home = acp[u].home
          /\ acp'[u].status = "none" <=> acp[u].status = "none"
    BY <1>20, SessionKept
  <2> QED BY <2>1, <2>2
<1>16. ASSUME NEW s \in Acp, Watchdog(s) PROVE Committed'
  <2>1. UNCHANGED acpAt
    BY <1>16 DEF Watchdog, commandVars
  <2>2. \A u \in Acp :
          /\ acp'[u].home = acp[u].home
          /\ acp'[u].status = "none" <=> acp[u].status = "none"
    BY <1>16, SessionKept
  <2> QED BY <2>1, <2>2
<1>17. ASSUME NEW s \in Acp, NEW m \in acpPump[s], PromptReturns(s, m) PROVE Committed'
  <2>1. UNCHANGED acpAt
    BY <1>17 DEF PromptReturns, commandVars
  <2>2. \A u \in Acp :
          /\ acp'[u].home = acp[u].home
          /\ acp'[u].status = "none" <=> acp[u].status = "none"
    BY <1>17, SessionKept
  <2> QED BY <2>1, <2>2
<1>18. ASSUME NEW s \in Acp, NEW m \in acpPump[s], PumpSeesDeath(s, m) PROVE Committed'
  <2>1. UNCHANGED acpAt
    BY <1>18 DEF PumpSeesDeath, commandVars
  <2>2. \A u \in Acp :
          /\ acp'[u].home = acp[u].home
          /\ acp'[u].status = "none" <=> acp[u].status = "none"
    BY <1>18, SessionKept
  <2> QED BY <2>1, <2>2
<1>19. CASE UNCHANGED <<acpAt, acp>>
  BY <1>19
<1> HIDE DEF CursorTypeOK, CommandsType, TakenTogether, Committed, managerVars, commandVars,
     acpVars
<1> QED
  <2>1. ASSUME NEW s \in Acp, NEW m \in acpPump[s],
         Prompted(s, m)
       PROVE  UNCHANGED <<acpAt, acp>>
    BY <2>1 DEF Prompted, managerVars, commandVars, acpVars
  <2>2. ASSUME StopManager \/ ResumeManager \/ ProcessDies
       PROVE  UNCHANGED <<acpAt, acp>>
    BY <2>2 DEF StopManager, ResumeManager, ProcessDies, managerVars, commandVars, acpVars
  <2>3. CASE UNCHANGED cursorVars
    BY <2>3, <1>19 DEF cursorVars, managerVars, commandVars, acpVars
  <2> QED BY <1>1, <1>2, <1>3, <1>4, <1>5, <1>6, <1>7, <1>8, <1>9, <1>10, <1>11, <1>12,
     <1>13, <1>14, <1>15, <1>16, <1>17, <1>18, <1>19, <1>20, <2>1, <2>2, <2>3
     DEF CancelEnds, CursorNext

\* An installed process keeps its generation, and a session its process.
LEMMA BoundStep ==
  ASSUME CursorTypeOK, Numbered, Handshaking, TakenTogether, Committed, BoundToItsProcess,
         [CursorNext]_cursorVars
  PROVE  BoundToItsProcess'
PROOF
<1> USE AcpAssumption, AcpBounds
       DEF CursorTypeOK, CommandsType, Numbered, Handshaking, TakenTogether, Committed,
           BoundToItsProcess, managerVars, commandVars, acpVars
<1>1. ASSUME NEW s \in Acp, SpawnProcess(s) PROVE BoundToItsProcess'
  <2>1. \A p \in Process : process[p].life # "none" => process'[p].gen = process[p].gen
    BY <1>1, ProcessKept
  <2>2. \A p \in Process : process[p].life = "none" => process[p].gen = 0
    BY DEF Numbered
  <2> QED BY <1>1, <2>1, <2>2 DEF SpawnProcess
<1>2. ASSUME NEW s \in Acp, HandshakeFails(s) PROVE BoundToItsProcess'
  BY <1>2, ProcessKept DEF HandshakeFails
<1>3. ASSUME NEW s \in Acp, InstallProcess(s) PROVE BoundToItsProcess'
  <2>1. CASE acpStopped
    <3>1. KillAcp(client[s]) /\ UNCHANGED <<acpCell, acpGen, client, bound, acp>>
      BY <1>3, <2>1 DEF InstallProcess
    <3>2. acpAt' = [acpAt EXCEPT ![s] = "over"]
      BY <1>3, <2>1 DEF InstallProcess, AcpStep
    <3>3. \A p \in Process :
            /\ process'[p].gen = process[p].gen
            /\ process'[p].life = "none" => process[p].life = "none"
      BY <3>1, ProcessKept
    <3> QED BY <3>1, <3>2, <3>3
  <2>2. CASE ~acpStopped
    <3>1. acpAt[s] = "handshake" /\ acpAt' = [acpAt EXCEPT ![s] = "take"]
      BY <1>3, <2>2 DEF InstallProcess, AcpStep
    <3>2. UNCHANGED <<client, bound, acp>>
      BY <1>3 DEF InstallProcess
    <3>3. /\ acpGen' = acpGen + 1 /\ acpGen' \in 0..MaxProcess /\ acpCell' = client[s]
          /\ client[s] \in Process /\ process'[client[s]].gen = acpGen'
          /\ \A p \in Process : process'[p].life = process[p].life
          /\ \A p \in Process : p # client[s] => process'[p] = process[p]
      BY <1>3, <2>2, Installed
    <3>4. process[client[s]].life # "none" /\ process[client[s]].gen = 0
      BY <3>1 DEF Handshaking
    <3> QED BY <3>1, <3>2, <3>3, <3>4
  <2> QED BY <2>1, <2>2
<1>4. ASSUME NEW s \in Acp, TakeClient(s) PROVE BoundToItsProcess'
  BY <1>4 DEF TakeClient, AcpStep
<1>5. ASSUME NEW s \in Acp, CommitAcp(s) PROVE BoundToItsProcess'
  <2>1. acpAt[s] = "commit" /\ UNCHANGED <<bound, process>>
    BY <1>5 DEF CommitAcp, AcpStep
  <2>2. /\ acp'[s].home = client[s] /\ acp'[s].status = "running"
        /\ \A u \in Acp : u # s => acp'[u] = acp[u]
    BY <1>5, SessionMade
  <2> QED BY <2>1, <2>2
<1>6. ASSUME NEW s \in Acp, NewAcpFails(s) PROVE BoundToItsProcess'
  BY <1>6 DEF NewAcpFails, AcpEvent
<1>7. ASSUME NEW s \in Acp, FollowAcp(s) PROVE BoundToItsProcess'
  <2>1. UNCHANGED <<bound, process>>
    BY <1>7 DEF FollowAcp, commandVars, managerVars
  <2>2. \A u \in Acp :
          /\ acp'[u].home = acp[u].home
          /\ acp'[u].status = "none" <=> acp[u].status = "none"
    BY <1>7, SessionKept
  <2> QED BY <2>1, <2>2
<1>8. ASSUME NEW s \in Acp, GenerationGate(s) PROVE BoundToItsProcess'
  <2>1. CASE FailClosed(s)
    BY <1>8, <2>1, SessionKept DEF GenerationGate, FailClosed
  <2>2. CASE UNCHANGED <<acp, bound, process>>
    BY <2>2
  <2> QED BY <1>8, <2>1, <2>2 DEF GenerationGate
<1>9. ASSUME NEW s \in Acp, ClientGate(s) PROVE BoundToItsProcess'
  <2>1. CASE FailClosed(s)
    BY <1>9, <2>1, SessionKept DEF ClientGate, FailClosed
  <2>2. CASE UNCHANGED <<acp, bound, process>>
    BY <2>2
  <2> QED BY <1>9, <2>1, <2>2 DEF ClientGate
<1>10. ASSUME NEW s \in Acp, InterruptAcp(s) PROVE BoundToItsProcess'
  <2>1. UNCHANGED <<bound, process>>
    BY <1>10 DEF InterruptAcp, commandVars, managerVars
  <2>2. \A u \in Acp :
          /\ acp'[u].home = acp[u].home
          /\ acp'[u].status = "none" <=> acp[u].status = "none"
    BY <1>10, SessionKept
  <2> QED BY <2>1, <2>2
<1>17. ASSUME NEW s \in Acp, CancelEnds(s) PROVE BoundToItsProcess'
  <2>1. UNCHANGED <<bound, process>>
    BY <1>17 DEF CancelEnds, CancelSent, CancelFails, commandVars, managerVars
  <2>2. \A u \in Acp :
          /\ acp'[u].home = acp[u].home
          /\ acp'[u].status = "none" <=> acp[u].status = "none"
    BY <1>17, SessionKept
  <2> QED BY <2>1, <2>2
<1>11. ASSUME NEW s \in Acp, Watchdog(s) PROVE BoundToItsProcess'
  <2>1. UNCHANGED <<bound, process>>
    BY <1>11 DEF Watchdog, commandVars, managerVars
  <2>2. \A u \in Acp :
          /\ acp'[u].home = acp[u].home
          /\ acp'[u].status = "none" <=> acp[u].status = "none"
    BY <1>11, SessionKept
  <2> QED BY <2>1, <2>2
<1>12. ASSUME NEW s \in Acp, NEW m \in acpPump[s], PromptReturns(s, m)
      PROVE BoundToItsProcess'
  <2>1. UNCHANGED <<bound, process>>
    BY <1>12 DEF PromptReturns, commandVars, managerVars
  <2>2. \A u \in Acp :
          /\ acp'[u].home = acp[u].home
          /\ acp'[u].status = "none" <=> acp[u].status = "none"
    BY <1>12, SessionKept
  <2> QED BY <2>1, <2>2
<1>13. ASSUME NEW s \in Acp, NEW m \in acpPump[s], PumpSeesDeath(s, m)
      PROVE BoundToItsProcess'
  <2>1. UNCHANGED <<bound, process>>
    BY <1>13 DEF PumpSeesDeath, commandVars, managerVars
  <2>2. \A u \in Acp :
          /\ acp'[u].home = acp[u].home
          /\ acp'[u].status = "none" <=> acp[u].status = "none"
    BY <1>13, SessionKept
  <2> QED BY <2>1, <2>2
<1>14. CASE StopManager
  BY <1>14, ProcessKept DEF StopManager
<1>15. CASE ProcessDies
  BY <1>15, ProcessKept DEF ProcessDies
<1>16. CASE UNCHANGED <<bound, acp, process>>
  BY <1>16
<1> HIDE DEF CursorTypeOK, CommandsType, Numbered, Handshaking, TakenTogether, Committed,
     BoundToItsProcess, managerVars, commandVars, acpVars
<1> QED
  <2>1. ASSUME NEW s \in Acp,
         LookBusy(s) \/ LockStart(s) \/ ReuseProcess(s) \/ RefuseModel(s) \/
         NewAcpSession(s)
       PROVE  UNCHANGED <<bound, acp, process>>
    BY <2>1 DEF LookBusy, LockStart, ReuseProcess, RefuseModel, NewAcpSession, managerVars,
       commandVars, acpVars
  <2>2. ASSUME NEW s \in Acp, NEW m \in acpPump[s],
         Prompted(s, m)
       PROVE  UNCHANGED <<bound, acp, process>>
    BY <2>2 DEF Prompted, managerVars, commandVars, acpVars
  <2>3. ASSUME ResumeManager
       PROVE  UNCHANGED <<bound, acp, process>>
    BY <2>3 DEF ResumeManager, managerVars, commandVars, acpVars
  <2>4. CASE UNCHANGED cursorVars
    BY <2>4, <1>16 DEF cursorVars, managerVars, commandVars, acpVars
  <2> QED BY <1>1, <1>2, <1>3, <1>4, <1>5, <1>6, <1>7, <1>8, <1>9, <1>10, <1>11, <1>12,
     <1>13, <1>14, <1>15, <1>16, <1>17, <2>1, <2>2, <2>3, <2>4
     DEF CancelEnds, CursorNext

LEMMA CursorInitInv == CursorInit => CursorInv
PROOF
<1> SUFFICES ASSUME CursorInit PROVE CursorInv OBVIOUS
<1> USE AcpAssumption, AcpBounds DEF CursorInit, Process, NewAcp, AcpInFlight
<1>1. CursorTypeOK
  <2>0. 0 \in 0..MaxProcess OBVIOUS
  <2>1. CellType /\ CommandsType
    <3>1. CellType BY <2>0 DEF CellType
    <3>2. CommandsType BY <2>0 DEF CommandsType
    <3> QED BY <3>1, <3>2
  <2>2. process \in [Process -> AcpProcess] BY DEF AcpProcess
  <2>3. acp \in [Acp -> AcpSession] /\ acpPump \in [Acp -> SUBSET AcpPrompt]
    BY DEF AcpSession
  <2> QED BY <2>1, <2>2, <2>3 DEF CursorTypeOK
<1>2. AcpExclusive /\ CellIsLatest /\ Numbered BY DEF AcpExclusive, CellIsLatest, Numbered
<1>3. Handshaking /\ TakenTogether /\ Committed /\ BoundToItsProcess
  BY DEF Handshaking, TakenTogether, Committed, BoundToItsProcess
<1> QED BY <1>1, <1>2, <1>3 DEF CursorInv

LEMMA CursorInvariance == CursorSpec => []CursorInv
PROOF
<1>1. CursorInv /\ [CursorNext]_cursorVars => CursorInv'
  BY CellStep, CommandsStep, ProcessesStep, SessionsStep, PumpsStep,
     AcpExclusiveStep, CellIsLatestStep, NumberedStep,
     HandshakingStep, TakenTogetherStep, CommittedStep, BoundStep
  DEF CursorInv, CursorTypeOK
<1> QED BY CursorInitInv, <1>1, PTL DEF CursorSpec

\* Whatever starts, stops, deaths and replacements of the process go on around its
\* start, a session is bound to the generation of the process it was made in.
THEOREM SessionsKnowTheirProcess == CursorSpec => []BoundToItsProcess
PROOF
<1>1. CursorInv => BoundToItsProcess BY DEF CursorInv
<1> QED BY CursorInvariance, <1>1, PTL
=============================================================================
