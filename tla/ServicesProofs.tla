--------------------------- MODULE ServicesProofs ---------------------------
(***************************************************************************)
(* Proofs about the upgrade of the database and the Claude engine, and     *)
(* about the services together: they share no state, so every step of one  *)
(* leaves the invariants of the others as they are.                        *)
(***************************************************************************)
EXTENDS MCServices, EngineProofs, EdgeProofs, SequenceTheorems, TLAPS

-----------------------------------------------------------------------------
(***************************************************************************)
(* The upgrade of the database, from any version and with any number of    *)
(* deaths.  What a statement does to a table or column depends on nothing  *)
(* else, so what becomes of one is settled by the last statement still to  *)
(* run that speaks of it (Fate).  A statement that runs leaves the fate of *)
(* everything as it was, both for this run (from its next place) and for   *)
(* one that starts again (from the first place after the stamped version). *)
(***************************************************************************)

\* Whether x is there when everything from place p on has been run on xs.
Fate(x, p, xs) ==
  \/ \E q \in Places : /\ ~Earlier(q, p) /\ x \in Adds(Now(q))
                       /\ \A r \in Places : Earlier(q, r) => ~Removes(Now(r), x)
  \/ x \in xs /\ \A r \in Places : ~Earlier(r, p) => ~Removes(Now(r), x)

Becomes(p, xs) == \A x : Fate(x, p, xs) <=> x \in SchemaOf[SchemaVersion]

\* The statements outside the two rebuilds, and what they name.
Copies == {"outbox_review_claim_new", "human_input_request_v17"}
Tables ==
  {"meta", "config_blob", "tracked_pr", "dispatch_key", "dispatch_event", "review_session",
   "review_history_item", "inbox_event", "action_outbox", "outbox_review_claim",
   "terminal_audit", "rule_match", "rule_match_action", "remote_access_audit",
   "messaging_event", "workflow_instance", "human_input_request"}
Columns ==
  {"comment_url", "engine_kind", "candidate_json", "dedupe_key", "reply_outbox_id", "reply_kind",
   "reply_summary", "terminal_outcome", "runSkill"}
Plain ==
  [do : {"tableIfMissing", "table", "column", "renameKind", "envelope", "deleteKey", "insertKey",
         "outboxKind"},
   of : Tables, to : Tables \cup Columns]

LEMMA PlainStatements ==
  ASSUME NEW t \in Tables, NEW c \in Tables \cup Columns
  PROVE  /\ IfMissing(t) \in Plain /\ Table(t) \in Plain /\ Column(t, c) \in Plain
         /\ Statement("envelope", t, c) \in Plain
         /\ Statement("deleteKey", t, c) \in Plain /\ Statement("insertKey", t, c) \in Plain
         /\ Statement("outboxKind", t, c) \in Plain /\ Statement("renameKind", t, c) \in Plain
BY DEF IfMissing, Table, Column, Statement, Plain

LEMMA Tuples ==
  ASSUME NEW S, NEW a \in S, NEW b \in S, NEW c \in S, NEW d \in S, NEW e \in S, NEW f \in S,
         NEW g \in S
  PROVE  /\ <<a>> \in Seq(S) /\ Len(<<a>>) > 0
         /\ <<a, b>> \in Seq(S) /\ Len(<<a, b>>) > 0
         /\ <<a, b, c>> \in Seq(S) /\ Len(<<a, b, c>>) > 0
         /\ <<a, b, c, d>> \in Seq(S) /\ Len(<<a, b, c, d>>) > 0
         /\ <<a, b, c, d, e, f, g>> \in Seq(S) /\ Len(<<a, b, c, d, e, f, g>>) > 0
OBVIOUS

LEMMA StepsOK ==
  /\ \A v \in 1..SchemaVersion : v \notin {7, 17} =>
       /\ SchemaStep[v] \in Seq(Plain) /\ Len(SchemaStep[v]) > 0
  /\ SchemaStep[7] = Rebuild("outbox_review_claim", "outbox_review_claim_new")
  /\ SchemaStep[17] = Rebuild("human_input_request", "human_input_request_v17")
PROOF
<1>a. /\ \A t \in Tables, c \in Tables \cup Columns :
         /\ IfMissing(t) \in Plain /\ Table(t) \in Plain /\ Column(t, c) \in Plain
         /\ Statement("envelope", t, c) \in Plain
         /\ Statement("deleteKey", t, c) \in Plain /\ Statement("insertKey", t, c) \in Plain
         /\ Statement("outboxKind", t, c) \in Plain /\ Statement("renameKind", t, c) \in Plain
  BY PlainStatements
<1>1. KeyRenames \in Seq(Plain) /\ Len(KeyRenames) > 0
  BY <1>a, Tuples DEF Tables, Columns, KeyRenames, RenamesColumn
<1>2. DispatchKeys \in Seq(Plain) /\ Len(DispatchKeys) > 0
  BY <1>a, Tuples DEF Tables, Columns, DispatchKeys
<1>3. OutboxPayloads \in Seq(Plain) /\ Len(OutboxPayloads) > 0
  BY <1>a, Tuples DEF Tables, Columns, OutboxPayloads
<1>4. SkillKeys \in Seq(Plain) /\ Len(SkillKeys) > 0
  <2>1. (KeyRenames \o DispatchKeys) \in Seq(Plain) /\ Len(KeyRenames \o DispatchKeys) > 0
    BY <1>1, <1>2, ConcatProperties, LenProperties
  <2> DEFINE a == KeyRenames \o DispatchKeys
  <2> HIDE DEF a
  <2>2. (a \o OutboxPayloads) \in Seq(Plain) /\ Len(a \o OutboxPayloads) > 0
    BY <1>3, <2>1, ConcatProperties, LenProperties DEF a
  <2> QED BY <2>2 DEF SkillKeys, a
<1>5. Foundation \in Seq(Plain) /\ Len(Foundation) > 0
  BY <1>a, Tuples DEF Tables, Columns, Foundation
<1>6. CommentUrl \in Seq(Plain) /\ Len(CommentUrl) > 0
  BY <1>a, Tuples DEF Tables, Columns, CommentUrl
<1>7. EngineKind \in Seq(Plain) /\ Len(EngineKind) > 0
  BY <1>a, Tuples DEF Tables, Columns, EngineKind
<1>8. /\ InboxTable \in Seq(Plain) /\ Len(InboxTable) > 0
      /\ OutboxTable \in Seq(Plain) /\ Len(OutboxTable) > 0
      /\ ClaimTable \in Seq(Plain) /\ Len(ClaimTable) > 0
  BY <1>a, Tuples DEF Tables, Columns, InboxTable, OutboxTable, ClaimTable
<1>9. /\ TerminalAudit \in Seq(Plain) /\ Len(TerminalAudit) > 0
      /\ CandidateColumns \in Seq(Plain) /\ Len(CandidateColumns) > 0
      /\ RuleTables \in Seq(Plain) /\ Len(RuleTables) > 0
  BY <1>a, Tuples DEF Tables, Columns, TerminalAudit, CandidateColumns, RuleTables
<1>10. /\ GateAudit \in Seq(Plain) /\ Len(GateAudit) > 0
       /\ MessagingTable \in Seq(Plain) /\ Len(MessagingTable) > 0
       /\ ReplyColumns \in Seq(Plain) /\ Len(ReplyColumns) > 0
  BY <1>a, Tuples DEF Tables, Columns, GateAudit, MessagingTable, ReplyColumns
<1>11. /\ WorkflowTable \in Seq(Plain) /\ Len(WorkflowTable) > 0
       /\ TypedEnvelope \in Seq(Plain) /\ Len(TypedEnvelope) > 0
       /\ HumanInputTable \in Seq(Plain) /\ Len(HumanInputTable) > 0
  BY <1>a, Tuples DEF Tables, Columns, WorkflowTable, TypedEnvelope, HumanInputTable
<1>12. /\ SchemaStep[1] = Foundation /\ SchemaStep[2] = CommentUrl /\ SchemaStep[3] = EngineKind
       /\ SchemaStep[4] = InboxTable /\ SchemaStep[5] = OutboxTable /\ SchemaStep[6] = ClaimTable
       /\ SchemaStep[7] = ClaimCascade /\ SchemaStep[8] = TerminalAudit
       /\ SchemaStep[9] = CandidateColumns /\ SchemaStep[10] = RuleTables
       /\ SchemaStep[11] = GateAudit /\ SchemaStep[12] = MessagingTable
       /\ SchemaStep[13] = ReplyColumns /\ SchemaStep[14] = WorkflowTable
       /\ SchemaStep[15] = TypedEnvelope /\ SchemaStep[16] = HumanInputTable
       /\ SchemaStep[17] = AnswerSource /\ SchemaStep[18] = SkillKeys
  BY DEF SchemaStep
<1>13. \A v \in 1..SchemaVersion : v \in {1, 2, 3, 4, 5, 6, 7, 8, 9, 10, 11, 12, 13, 14, 15, 16, 17, 18}
  BY DEF SchemaVersion
<1>14. ASSUME NEW v \in 1..SchemaVersion, v \notin {7, 17}
       PROVE  SchemaStep[v] \in Seq(Plain) /\ Len(SchemaStep[v]) > 0
  <2>1. v \in {1, 2, 3, 4, 5, 6} \/ v \in {8, 9, 10, 11, 12} \/ v \in {13, 14, 15, 16, 18}
    BY <1>13, <1>14
  <2>2. CASE v \in {1, 2, 3, 4, 5, 6} BY <1>5, <1>6, <1>7, <1>8, <1>12, <2>2
  <2>3. CASE v \in {8, 9, 10, 11, 12} BY <1>9, <1>10, <1>12, <2>3
  <2>4. CASE v \in {13, 14, 15, 16, 18} BY <1>4, <1>10, <1>11, <1>12, <2>4
  <2> QED BY <2>1, <2>2, <2>3, <2>4
<1> QED BY <1>12, <1>14 DEF ClaimCascade, AnswerSource

\* Every step is a sequence of at least one statement.
LEMMA StepShape ==
  ASSUME NEW v \in 1..SchemaVersion
  PROVE  Len(SchemaStep[v]) \in Nat \ {0} /\ DOMAIN SchemaStep[v] = 1..Len(SchemaStep[v])
PROOF
<1>1. CASE v \notin {7, 17} BY <1>1, StepsOK
<1>2. CASE v \in {7, 17}
  <2>1. PICK t, n : SchemaStep[v] = Rebuild(t, n) BY <1>2, StepsOK
  <2>2. Len(Rebuild(t, n)) = 4 /\ DOMAIN Rebuild(t, n) = 1..4 BY DEF Rebuild
  <2> QED BY <2>1, <2>2
<1> QED BY <1>1, <1>2

LEMMA PlaceShape ==
  ASSUME NEW p \in Places
  PROVE  /\ p \in [step : 1..18, line : Nat \ {0}]
         /\ p.line <= Len(SchemaStep[p.step]) /\ Len(SchemaStep[p.step]) \in Nat
PROOF
<1>1. PICK v \in 1..SchemaVersion : \E n \in DOMAIN SchemaStep[v] : p = [step |-> v, line |-> n]
  BY DEF Places
<1>2. PICK n \in DOMAIN SchemaStep[v] : p = [step |-> v, line |-> n] BY <1>1
<1>3. Len(SchemaStep[v]) \in Nat /\ DOMAIN SchemaStep[v] = 1..Len(SchemaStep[v]) BY StepShape
<1>4. p.step = v /\ p.line = n BY <1>2
<1>5. v \in 1..18 BY DEF SchemaVersion
<1>6. n \in Nat /\ n > 0 /\ n <= Len(SchemaStep[v]) BY <1>3
<1> QED BY <1>2, <1>3, <1>4, <1>5, <1>6

LEMMA PlaceThere ==
  ASSUME NEW v \in 1..18, NEW n \in Nat, n > 0, n <= Len(SchemaStep[v])
  PROVE  [step |-> v, line |-> n] \in Places
PROOF
<1>1. v \in 1..SchemaVersion BY DEF SchemaVersion
<1>2. Len(SchemaStep[v]) \in Nat BY <1>1, StepShape
<1>3. DOMAIN SchemaStep[v] = 1..Len(SchemaStep[v]) BY <1>1, StepShape
<1>4. n \in DOMAIN SchemaStep[v] BY <1>2, <1>3
<1> QED BY <1>1, <1>4 DEF Places

\* The places in their order.
LEMMA PlaceOrder ==
  /\ \A v \in 0..SchemaVersion :
       /\ Begin(v) \in Places \cup {Through}
       /\ \A q \in Places : ~Earlier(q, Begin(v)) <=> q.step > v
  /\ \A p \in Places :
       /\ After(p) \in Places \cup {Through} /\ ~Earlier(p, p) /\ Earlier(p, After(p))
       /\ \A q \in Places : ~Earlier(q, After(p)) <=> Earlier(p, q)
       /\ \A q \in Places : ~Earlier(q, p) <=> q = p \/ Earlier(p, q)
  /\ \A q \in Places : Earlier(q, Through)
  /\ Through \notin Places
PROOF
<1>0. Through = [step |-> 19, line |-> 1] BY DEF Through, Begin, SchemaVersion
<1>1. ASSUME NEW v \in 0..SchemaVersion
      PROVE  /\ Begin(v) \in Places \cup {Through}
             /\ \A q \in Places : ~Earlier(q, Begin(v)) <=> q.step > v
  <2>1. Begin(v) = [step |-> v + 1, line |-> 1] /\ v \in 0..18 BY DEF Begin, SchemaVersion
  <2>2. ASSUME NEW q \in Places PROVE ~Earlier(q, Begin(v)) <=> q.step > v
    <3>1. q \in [step : 1..18, line : Nat \ {0}] BY PlaceShape
    <3> QED BY <2>1, <3>1 DEF Earlier
  <2>3. CASE v = 18 BY <1>0, <2>1, <2>2, <2>3
  <2>4. CASE v # 18
    <3>1. v + 1 \in 1..SchemaVersion /\ v + 1 \in 1..18 BY <2>1, <2>4 DEF SchemaVersion
    <3>2. Len(SchemaStep[v + 1]) \in Nat \ {0} BY <3>1, StepShape
    <3>3. 1 \in Nat /\ 1 > 0 /\ 1 <= Len(SchemaStep[v + 1]) BY <3>2
    <3>4. [step |-> v + 1, line |-> 1] \in Places BY <3>1, <3>3, PlaceThere
    <3>5. Begin(v) \in Places BY <2>1, <3>4
    <3> QED BY <2>2, <3>5
  <2> QED BY <2>3, <2>4
<1>2. ASSUME NEW p \in Places
      PROVE  /\ After(p) \in Places \cup {Through} /\ ~Earlier(p, p) /\ Earlier(p, After(p))
             /\ \A q \in Places : ~Earlier(q, After(p)) <=> Earlier(p, q)
             /\ \A q \in Places : ~Earlier(q, p) <=> q = p \/ Earlier(p, q)
  <2>1. /\ p \in [step : 1..18, line : Nat \ {0}]
        /\ p.line <= Len(SchemaStep[p.step]) /\ Len(SchemaStep[p.step]) \in Nat
    BY PlaceShape
  <2>2. \A q \in Places : /\ q \in [step : 1..18, line : Nat \ {0}]
                          /\ q.step = p.step => q.line <= Len(SchemaStep[p.step])
    BY PlaceShape
  <2>0. p.step \in Nat /\ p.line \in Nat BY <2>1
  <2>3. ASSUME NEW q \in Places PROVE ~Earlier(q, p) <=> q = p \/ Earlier(p, q)
    <3>1. q \in [step : 1..18, line : Nat \ {0}] BY <2>2
    <3>2. q.step = p.step /\ q.line = p.line => q = p BY <2>1, <3>1
    <3>3. q.step \in Nat /\ q.line \in Nat BY <3>1
    <3> QED BY <2>0, <3>2, <3>3 DEF Earlier
  <2>4. CASE p.line < Len(SchemaStep[p.step])
    <3>1. p = [step |-> p.step, line |-> p.line] BY <2>1
    <3>2. After(p) = [step |-> p.step, line |-> p.line + 1] BY <2>4, <3>1 DEF After
    <3>3. p.line + 1 \in Nat /\ p.line + 1 > 0 /\ p.line + 1 <= Len(SchemaStep[p.step])
      BY <2>1, <2>4
    <3>4. After(p) \in Places BY <2>1, <3>2, <3>3, PlaceThere
    <3>5. After(p).step = p.step /\ After(p).line = p.line + 1 BY <3>2
    <3>6. ASSUME NEW q \in Places PROVE ~Earlier(q, After(p)) <=> Earlier(p, q)
      <4>1. q \in [step : 1..18, line : Nat \ {0}] BY <2>2
      <4>2. q.step \in Nat /\ q.line \in Nat BY <4>1
      <4> QED BY <2>0, <3>5, <4>2 DEF Earlier
    <3>7. ~Earlier(p, p) /\ Earlier(p, After(p)) BY <2>0, <3>5 DEF Earlier
    <3> QED BY <2>3, <3>4, <3>6, <3>7
  <2>5. CASE ~(p.line < Len(SchemaStep[p.step]))
    <3>1. After(p) = Begin(p.step) /\ Begin(p.step) = [step |-> p.step + 1, line |-> 1]
      BY <2>5 DEF After, Begin
    <3>2. After(p) \in Places \cup {Through} BY <1>1, <2>1, <3>1 DEF SchemaVersion
    <3>3. After(p).step = p.step + 1 /\ After(p).line = 1 BY <3>1
    <3>4. ASSUME NEW q \in Places PROVE ~Earlier(q, After(p)) <=> Earlier(p, q)
      <4>1. /\ q \in [step : 1..18, line : Nat \ {0}]
            /\ q.step = p.step => q.line <= Len(SchemaStep[p.step])
        BY <2>2
      <4>0. q.step \in 1..18 /\ q.line \in Nat \ {0} BY <4>1
      <4>2. q.step \in Nat /\ q.line \in Nat /\ q.line > 0 BY <4>0
      <4>3. q.step = p.step => q.line <= p.line BY <2>1, <2>5, <4>1, <4>2
      <4> QED BY <2>0, <3>3, <4>2, <4>3 DEF Earlier
    <3>5. ~Earlier(p, p) /\ Earlier(p, After(p)) BY <2>0, <3>3 DEF Earlier
    <3> QED BY <2>3, <3>2, <3>4, <3>5
  <2> QED BY <2>4, <2>5
<1>3. ASSUME NEW q \in Places PROVE Earlier(q, Through)
  <2>1. q \in [step : 1..18, line : Nat \ {0}] BY PlaceShape
  <2> QED BY <1>0, <2>1 DEF Earlier
<1>4. Through \notin Places
  <2>1. \A q \in Places : q.step # 19
    <3> SUFFICES ASSUME NEW q \in Places PROVE q.step # 19 OBVIOUS
    <3>1. q \in [step : 1..18, line : Nat \ {0}] BY PlaceShape
    <3> QED BY <3>1
  <2> QED BY <1>0, <2>1
<1> QED BY <1>1, <1>2, <1>3, <1>4

LEMMA InSchema ==
  ASSUME NEW v \in 0..SchemaVersion, NEW x
  PROVE  x \in SchemaOf[v] <=>
           \E p \in Places :
             /\ p.step <= v /\ x \in Adds(Now(p))
             /\ \A q \in Places : q.step <= v /\ Earlier(p, q) => ~Removes(Now(q), x)
BY DEF SchemaOf

\* A database of version v comes to be what the newest program makes of a new one.
LEMMA FateOfVersion ==
  ASSUME NEW v \in 0..SchemaVersion
  PROVE  Becomes(Begin(v), SchemaOf[v])
PROOF
<1> SUFFICES ASSUME NEW x
             PROVE  Fate(x, Begin(v), SchemaOf[v]) <=> x \in SchemaOf[SchemaVersion]
  BY DEF Becomes
<1>1. \A q \in Places : ~Earlier(q, Begin(v)) <=> q.step > v BY PlaceOrder
<1>2. \A p \in Places : p.step \in 1..18 BY PlaceShape DEF SchemaVersion
<1>3. \A p, q \in Places : p.step <= v /\ q.step > v => Earlier(p, q) BY <1>2 DEF Earlier, SchemaVersion
<1>4. \A p, q \in Places : p.step > v /\ q.step <= v => ~Earlier(p, q) BY <1>2 DEF Earlier, SchemaVersion
<1>5. x \in SchemaOf[SchemaVersion] <=>
        \E p \in Places : /\ x \in Adds(Now(p))
                          /\ \A q \in Places : Earlier(p, q) => ~Removes(Now(q), x)
  BY <1>2, InSchema DEF SchemaVersion
<1>6. \A p \in Places : p.step <= v \/ p.step > v BY <1>2 DEF SchemaVersion
<1> QED BY <1>1, <1>3, <1>4, <1>5, <1>6, InSchema DEF Fate

\* A statement that runs changes no fate: neither from the next place,
LEMMA FateGoesOn ==
  ASSUME NEW p \in Places, NEW xs, Becomes(p, xs)
  PROVE  Becomes(After(p), Effect(Now(p), xs))
PROOF
<1> SUFFICES ASSUME NEW x
             PROVE  Fate(x, After(p), Effect(Now(p), xs)) <=> Fate(x, p, xs)
  BY DEF Becomes
<1>1. \A q \in Places : /\ ~Earlier(q, After(p)) <=> Earlier(p, q)
                        /\ ~Earlier(q, p) <=> q = p \/ Earlier(p, q)
  BY PlaceOrder
<1>2. x \in Effect(Now(p), xs) <=> x \in Adds(Now(p)) \/ (x \in xs /\ ~Removes(Now(p), x))
  BY DEF Effect
<1> QED BY <1>1, <1>2 DEF Fate

\* nor from any place that it will be run from again.
LEMMA FateStarts ==
  ASSUME NEW p \in Places, NEW v \in 0..SchemaVersion, p.step > v,
         NEW xs, Becomes(Begin(v), xs)
  PROVE  Becomes(Begin(v), Effect(Now(p), xs))
PROOF
<1> SUFFICES ASSUME NEW x
             PROVE  Fate(x, Begin(v), Effect(Now(p), xs)) <=> Fate(x, Begin(v), xs)
  BY DEF Becomes
<1>1. x \in Effect(Now(p), xs) <=> x \in Adds(Now(p)) \/ (x \in xs /\ ~Removes(Now(p), x))
  BY DEF Effect
<1>2. \A q \in Places : ~Earlier(q, Begin(v)) <=> q.step > v BY PlaceOrder
<1>3. ASSUME NEW q \in Places, Earlier(p, q) PROVE q.step > v
  <2>1. v \in 0..18 BY DEF SchemaVersion
  <2>2. p \in [step : 1..18, line : Nat \ {0}] /\ q \in [step : 1..18, line : Nat \ {0}]
    BY PlaceShape
  <2> QED BY <1>3, <2>1, <2>2 DEF Earlier
<1> QED BY <1>1, <1>2, <1>3 DEF Fate

LEMMA FateEnds ==
  ASSUME NEW xs, Becomes(Through, xs)
  PROVE  \A x : x \in xs <=> x \in SchemaOf[SchemaVersion]
BY PlaceOrder DEF Becomes, Fate

\* The tables that are rebuilt, and the step that does it.
Rebuilt == {"outbox_review_claim", "human_input_request"}
RebuildAt(t) == IF t = "outbox_review_claim" THEN 7 ELSE 17

LEMMA CopyFacts ==
  /\ \A t \in Rebuilt : /\ CopyOf(t) \in Copies /\ t \notin Copies /\ t # CopyOf(t)
                        /\ RebuildAt(t) \in {7, 17}
                        /\ SchemaStep[RebuildAt(t)] = Rebuild(t, CopyOf(t))
  /\ \A v \in {7, 17} : \E t \in Rebuilt : v = RebuildAt(t)
  /\ \A t, u \in Rebuilt : RebuildAt(t) = RebuildAt(u) => t = u
  /\ \A u : CopyOf(u) = u \/ CopyOf(u) \in Copies
  /\ \A u, t : u \notin Copies /\ t \in Rebuilt /\ CopyOf(u) = CopyOf(t) => u = t
BY StepsOK DEF Rebuilt, RebuildAt, CopyOf, Copies

LEMMA PlainAdds ==
  ASSUME NEW s \in Plain
  PROVE  /\ s.do \notin {"copy", "drop", "rename"}
         /\ \A x : ~Removes(s, x)
         /\ \A x \in Adds(s) : x[1] \notin Copies /\ x = Named(x[1], x[2])
PROOF
<1>1. s.do \notin {"copy", "drop", "rename"} BY DEF Plain
<1>2. s.of \notin Copies
  <2>1. s.of \in Tables BY DEF Plain
  <2> QED BY <2>1 DEF Tables, Copies
<1>3. \A x : ~Removes(s, x) BY <1>1 DEF Removes
<1>4. ASSUME NEW x \in Adds(s)
      PROVE  \/ \E c : x = <<s.of, c>>
             \/ x = <<"review_receipt_workflow", "review_receipt_workflow">>
  <2>1. s.do \in {"tableIfMissing", "table", "column", "renameKind", "envelope", "deleteKey",
                  "insertKey", "outboxKind"}
    BY DEF Plain
  <2> QED BY <2>1 DEF Adds, Named
<1>5. "review_receipt_workflow" \notin Copies BY DEF Copies
<1> QED BY <1>1, <1>2, <1>3, <1>4, <1>5 DEF Named

\* A statement is plain, or it is one of the four of a rebuild.
LEMMA NowPlain ==
  ASSUME NEW p \in Places, p.step \notin {7, 17}
  PROVE  Now(p) \in Plain
PROOF
<1>1. /\ p \in [step : 1..18, line : Nat \ {0}]
      /\ p.line <= Len(SchemaStep[p.step]) /\ Len(SchemaStep[p.step]) \in Nat
  BY PlaceShape
<1>2. p.step \in 1..SchemaVersion BY <1>1 DEF SchemaVersion
<1>3. SchemaStep[p.step] \in Seq(Plain) BY <1>2, StepsOK
<1>4. p.line \in Nat \ {0} BY <1>1
<1>5. p.line \in 1..Len(SchemaStep[p.step]) BY <1>1, <1>4
<1> QED BY <1>3, <1>5 DEF Now

LEMMA NowRebuild ==
  ASSUME NEW p \in Places, NEW t \in Rebuilt, p.step = RebuildAt(t)
  PROVE  \/ p.line = 1 /\ Now(p) = Statement("table", CopyOf(t), CopyOf(t))
         \/ p.line = 2 /\ Now(p) = Statement("copy", t, CopyOf(t))
         \/ p.line = 3 /\ Now(p) = Statement("drop", t, t)
         \/ p.line = 4 /\ Now(p) = Statement("rename", CopyOf(t), t)
PROOF
<1>1. SchemaStep[p.step] = Rebuild(t, CopyOf(t)) BY CopyFacts
<1>2. /\ p \in [step : 1..18, line : Nat \ {0}]
      /\ p.line <= Len(SchemaStep[p.step]) /\ Len(SchemaStep[p.step]) \in Nat
  BY PlaceShape
<1>3. Len(SchemaStep[p.step]) = 4 BY <1>1 DEF Rebuild
<1>4. p.line \in Nat \ {0} BY <1>2
<1>5. p.line <= 4 BY <1>2, <1>3
<1>6. p.line \in {1, 2, 3, 4} BY <1>4, <1>5
<1>7. Now(p) = Rebuild(t, CopyOf(t))[p.line] BY <1>1 DEF Now
<1> QED BY <1>6, <1>7 DEF Rebuild, Table

LEMMA AfterShape ==
  ASSUME NEW p \in Places
  PROVE  \/ After(p).step = p.step /\ After(p).line = p.line + 1
         \/ After(p).line = 1
PROOF
<1>1. p \in [step : 1..18, line : Nat \ {0}] BY PlaceShape
<1> QED BY <1>1 DEF After, Begin

\* Nothing that a version has is a copy, and everything it has is named by a pair.
LEMMA NothingCopied ==
  ASSUME NEW v \in 0..SchemaVersion, NEW x \in SchemaOf[v]
  PROVE  x[1] \notin Copies /\ x = Named(x[1], x[2])
PROOF
<1>1. PICK p \in Places :
        /\ p.step <= v /\ x \in Adds(Now(p))
        /\ \A q \in Places : q.step <= v /\ Earlier(p, q) => ~Removes(Now(q), x)
  BY InSchema
<1>2. CASE p.step \notin {7, 17} BY <1>1, <1>2, NowPlain, PlainAdds
<1>3. CASE p.step \in {7, 17}
  <2>1. PICK t \in Rebuilt : p.step = RebuildAt(t) BY <1>3, CopyFacts
  <2>2. \/ p.line = 1 /\ Now(p) = Statement("table", CopyOf(t), CopyOf(t))
        \/ p.line = 4 /\ Now(p) = Statement("rename", CopyOf(t), t)
    <3>1. /\ Adds(Statement("copy", t, CopyOf(t))) = {}
          /\ Adds(Statement("drop", t, t)) = {}
      BY DEF Adds, Statement
    <3> QED BY <1>1, <2>1, <3>1, NowRebuild
  <2>3. CASE p.line = 1 /\ Now(p) = Statement("table", CopyOf(t), CopyOf(t))
    <3> DEFINE q == [step |-> p.step, line |-> 4]
    <3>1. SchemaStep[p.step] = Rebuild(t, CopyOf(t)) BY <2>1, CopyFacts
    <3>2. Len(SchemaStep[p.step]) = 4 BY <3>1 DEF Rebuild
    <3>3. p.step \in 1..18 BY <1>3
    <3>a. 4 \in Nat /\ 4 > 0 /\ 4 <= Len(SchemaStep[p.step]) BY <3>2
    <3>4. q \in Places BY <3>a, <3>3, PlaceThere
    <3>5. q.step = p.step /\ q.line = 4 OBVIOUS
    <3> HIDE DEF q
    <3>6. Now(q) = Statement("rename", CopyOf(t), t) BY <2>1, <3>4, <3>5, NowRebuild
    <3>7. Earlier(p, q) BY <2>3, <3>5 DEF Earlier
    <3>8. ~Removes(Now(q), x) BY <1>1, <3>4, <3>5, <3>7
    <3>9. x[1] # CopyOf(t) BY <3>6, <3>8 DEF Removes, Statement
    <3>10. x = Named(CopyOf(t), CopyOf(t)) BY <1>1, <2>3 DEF Adds, Statement
    <3> QED BY <3>9, <3>10 DEF Named
  <2>4. CASE p.line = 4 /\ Now(p) = Statement("rename", CopyOf(t), t)
    <3>1. x = Named(t, t) BY <1>1, <2>4 DEF Adds, Statement
    <3> QED BY <3>1, CopyFacts DEF Named
  <2> QED BY <2>2, <2>3, <2>4
<1> QED BY <1>2, <1>3

-----------------------------------------------------------------------------
(* The invariant.                                                          *)

\* The rows of a table are in it or in its copy.
Held(t) == t \in full \/ CopyOf(t) \in full
Stages == {"closed", "migrating", "stamped", "serving", "refused"}

UpgradeTypes ==
  /\ upgrade \in Stages /\ place \in Places \cup {Through}
  /\ userVersion \in Nat /\ origin \in Origin /\ cuts \in 0..MaxCut
  /\ \A x \in schema : x = Named(x[1], x[2])
  /\ ledgerKey \in {"none", "old", "moving", "gone", "new"}
  /\ imported \in BOOLEAN /\ edited \in BOOLEAN /\ settings \in {"none", "legacy", "saved"}

\* Where an upgrade stands.
Versions ==
  /\ origin > SchemaVersion => upgrade \in {"closed", "refused"} /\ userVersion = origin
  /\ origin <= SchemaVersion => userVersion \in 0..SchemaVersion
  /\ upgrade = "migrating" => \A q \in Places : ~Earlier(q, place) => q.step > userVersion
  /\ upgrade \in {"stamped", "serving"} => userVersion = SchemaVersion

\* What the schema will be: after this run, and after one that starts again.
Fates ==
  origin <= SchemaVersion =>
    /\ Becomes(Begin(userVersion), schema)
    /\ upgrade = "migrating" => Becomes(place, schema)

\* A rebuild that has come to its second line has its copy, at its third the rows are
\* in it.
Rebuilding ==
  \A t \in Rebuilt :
    upgrade = "migrating" /\ place \in Places /\ place.step = RebuildAt(t) =>
      /\ place.line = 2 => Named(CopyOf(t), CopyOf(t)) \in schema
      /\ place.line = 3 /\ Held(t) => CopyOf(t) \in full

RowsHeld ==
  /\ full \subseteq {x[1] : x \in schema}
  /\ \A x \in SchemaKnown(origin) : Held(x[1])

Configured ==
  /\ edited => imported /\ settings = "saved"
  /\ upgrade = "serving" => imported

UpgradeInv ==
  UpgradeTypes /\ Versions /\ Fates /\ Rebuilding /\ RowsHeld /\ Configured

LEMMA UpgradeStarts == UpgradeInit => UpgradeInv
PROOF
<1> SUFFICES ASSUME UpgradeInit PROVE UpgradeInv OBVIOUS
<1>0. /\ upgrade = "closed" /\ userVersion = origin /\ schema = SchemaKnown(origin)
      /\ full = {x[1] : x \in schema}
  BY DEF UpgradeInit
<1>1. origin \in Nat /\ MaxCut \in Nat BY MigrationAssumption DEF UpgradeInit
<1>2. PICK v \in 0..SchemaVersion :
        /\ schema = SchemaOf[v] /\ SchemaKnown(origin) = SchemaOf[v]
        /\ origin <= SchemaVersion => v = origin
  BY <1>0, <1>1 DEF SchemaKnown, SchemaVersion
<1>3. UpgradeTypes
  <2> USE DEF UpgradeInit
  <2>1. upgrade \in Stages BY DEF Stages
  <2>2. cuts \in 0..MaxCut BY <1>1
  <2>3. ledgerKey \in {"none", "old", "moving", "gone", "new"} OBVIOUS
  <2>4. imported \in BOOLEAN /\ edited \in BOOLEAN OBVIOUS
  <2>5. settings \in {"none", "legacy", "saved"} OBVIOUS
  <2>6. ASSUME NEW x \in schema PROVE x = Named(x[1], x[2])
    <3>1. x \in SchemaOf[v] BY <1>2
    <3> HIDE DEF UpgradeInit
    <3> QED BY <3>1, NothingCopied
  <2> QED BY <1>1, <2>1, <2>2, <2>3, <2>4, <2>5, <2>6 DEF UpgradeTypes
<1>4. Versions BY <1>0, <1>1 DEF Versions, SchemaVersion
<1>5. Fates BY <1>0, <1>2, FateOfVersion DEF Fates
<1>6. Rebuilding BY <1>0 DEF Rebuilding
<1>7. RowsHeld
  <2>1. \A x \in schema : x[1] \in full BY <1>0
  <2>2. full \subseteq {x[1] : x \in schema} BY <1>0
  <2>3. \A x \in SchemaKnown(origin) : Held(x[1]) BY <1>0, <2>1 DEF Held
  <2> QED BY <2>2, <2>3 DEF RowsHeld
<1>8. Configured
  <2>1. CASE origin = 0
    <3>1. ~(origin > 0) BY <2>1
    <3>2. edited = (origin > 0) BY DEF UpgradeInit
    <3>3. ~edited BY <3>1, <3>2, Zenon
    <3> QED BY <1>0, <3>3 DEF Configured
  <2>2. CASE origin # 0
    <3>1. origin > 0 BY <1>1, <2>2
    <3>2. imported = (origin > 0) BY DEF UpgradeInit
    <3>3. imported BY <3>1, <3>2, Zenon
    <3>4. settings = "saved" BY <2>2 DEF UpgradeInit
    <3> QED BY <3>3, <3>4 DEF Configured
  <2> QED BY <2>1, <2>2
<1> QED BY <1>3, <1>4, <1>5, <1>6, <1>7, <1>8 DEF UpgradeInv

\* The stages around the statements: they touch neither schema nor rows.
LEMMA StageSteps ==
  ASSUME UpgradeInv, Open \/ Refuse \/ Stamp \/ Import \/ SaveSettings \/ Cut
  PROVE  UpgradeInv'
PROOF
<1> USE DEF UpgradeInv
<1>0. origin \in Nat /\ MaxCut \in Nat BY MigrationAssumption DEF UpgradeTypes
<1>1. /\ UNCHANGED <<schema, full, origin>> /\ (upgrade' = "migrating" => Open)
      /\ (UNCHANGED userVersion \/ Stamp)
  BY DEF Open, Refuse, Stamp, Import, SaveSettings, Cut
<1>2. Open /\ upgrade' = "migrating" =>
        origin <= SchemaVersion /\ userVersion \in 0..SchemaVersion /\ place' = Begin(userVersion)
  BY <1>0 DEF Open, Versions, UpgradeTypes, SchemaVersion
<1>3. UpgradeTypes'
  <2> USE DEF UpgradeTypes
  <2>1. upgrade' \in Stages BY DEF Stages, Open, Refuse, Stamp, Import, SaveSettings, Cut
  <2>2. place' \in Places \cup {Through}
    <3>1. CASE upgrade' = "migrating" BY <1>1, <1>2, <3>1, PlaceOrder
    <3>2. CASE upgrade' # "migrating" BY <3>2 DEF Open, Refuse, Stamp, Import, SaveSettings, Cut
    <3> QED BY <3>1, <3>2
  <2>3. userVersion' \in Nat BY <1>1 DEF Stamp, SchemaVersion
  <2>4. cuts' \in 0..MaxCut BY <1>0 DEF Open, Refuse, Stamp, Import, SaveSettings, Cut
  <2>5. ledgerKey' \in {"none", "old", "moving", "gone", "new"}
    BY DEF Open, Refuse, Stamp, Import, SaveSettings, Cut
  <2>6. imported' \in BOOLEAN BY DEF Open, Refuse, Stamp, Import, SaveSettings, Cut
  <2>7. edited' \in BOOLEAN BY DEF Open, Refuse, Stamp, Import, SaveSettings, Cut
  <2>8. settings' \in {"none", "legacy", "saved"}
    BY DEF Open, Refuse, Stamp, Import, SaveSettings, Cut
  <2> QED BY <1>1, <2>1, <2>2, <2>3, <2>4, <2>5, <2>6, <2>7, <2>8
<1>4. Versions'
  <2>1. (origin > SchemaVersion => upgrade \in {"closed", "refused"} /\ userVersion = origin)'
    <3> SUFFICES ASSUME origin > SchemaVersion
                 PROVE  upgrade' \in {"closed", "refused"} /\ userVersion' = origin
      BY <1>1
    <3>1. upgrade \in {"closed", "refused"} /\ userVersion = origin BY DEF Versions
    <3> QED BY <3>1 DEF Open, Refuse, Stamp, Import, SaveSettings, Cut
  <2>2. (origin <= SchemaVersion => userVersion \in 0..SchemaVersion)'
    BY <1>1 DEF Versions, Stamp, SchemaVersion
  <2>3. (upgrade = "migrating" => \A q \in Places : ~Earlier(q, place) => q.step > userVersion)'
    <3> SUFFICES ASSUME upgrade' = "migrating", NEW q \in Places, ~Earlier(q, place')
                 PROVE  q.step > userVersion'
      OBVIOUS
    <3>1. userVersion \in 0..SchemaVersion /\ place' = Begin(userVersion) BY <1>1, <1>2
    <3>2. userVersion' = userVersion BY <1>1 DEF Open
    <3> QED BY <3>1, <3>2, PlaceOrder
  <2>4. (upgrade \in {"stamped", "serving"} => userVersion = SchemaVersion)'
    BY DEF Versions, Open, Refuse, Stamp, Import, SaveSettings, Cut
  <2> QED BY <2>1, <2>2, <2>3, <2>4 DEF Versions
<1>5. Fates'
  <2> SUFFICES ASSUME origin <= SchemaVersion
               PROVE  /\ Becomes(Begin(userVersion'), schema')
                      /\ upgrade' = "migrating" => Becomes(place', schema')
    BY <1>1 DEF Fates
  <2>1. Becomes(Begin(userVersion), schema) BY DEF Fates
  <2>2. CASE Stamp
    <3>1. Becomes(Through, schema) BY <2>2 DEF Fates, Stamp
    <3>2. Begin(userVersion') = Through /\ schema' = schema BY <2>2 DEF Stamp, Through
    <3>3. upgrade' # "migrating" BY <2>2 DEF Stamp
    <3> QED BY <3>1, <3>2, <3>3
  <2>3. CASE ~Stamp BY <1>1, <1>2, <2>1, <2>3
  <2> QED BY <2>2, <2>3
<1>6. Rebuilding'
  <2> SUFFICES ASSUME Open, upgrade' = "migrating", NEW t \in Rebuilt
               PROVE  place'.line # 2 /\ place'.line # 3
    BY <1>1 DEF Rebuilding
  <2> QED BY <1>2 DEF Begin
<1>7. RowsHeld' BY <1>1 DEF RowsHeld, Held, SchemaKnown
<1>8. Configured' BY DEF Configured, Open, Refuse, Stamp, Import, SaveSettings, Cut
<1> QED BY <1>3, <1>4, <1>5, <1>6, <1>7, <1>8

\* A plain statement: nothing is rebuilt, and no row moves.
LEMMA PlainRows ==
  ASSUME UpgradeInv, RunStatement, place.step \notin {7, 17}
  PROVE  Rebuilding' /\ RowsHeld' /\ (\A x \in schema' : x = Named(x[1], x[2]))
PROOF
<1> DEFINE s == Now(place)
<1>1. place \in Places /\ s \in Plain BY NowPlain DEF UpgradeInv, UpgradeTypes, RunStatement
<1>2. full' = full BY <1>1, PlainAdds DEF RunStatement
<1>3. schema' = schema \cup Adds(s) BY <1>1, PlainAdds DEF RunStatement, Effect
<1>4. Rebuilding'
  <2>1. place' = After(place) BY DEF RunStatement
  <2>2. ASSUME NEW t \in Rebuilt, place'.step = RebuildAt(t) PROVE place'.line = 1
    <3>1. place'.step \in {7, 17} BY <2>2, CopyFacts
    <3> QED BY <1>1, <2>1, <3>1, AfterShape
  <2> QED BY <2>2 DEF Rebuilding
<1>5. RowsHeld'
  <2>1. origin' = origin BY DEF RunStatement
  <2>2. full \subseteq {x[1] : x \in schema'} BY <1>3 DEF UpgradeInv, RowsHeld
  <2>3. \A x \in SchemaKnown(origin) : Held(x[1]) BY DEF UpgradeInv, RowsHeld
  <2> QED BY <1>2, <2>1, <2>2, <2>3 DEF RowsHeld, Held, SchemaKnown
<1>6. ASSUME NEW x \in schema' PROVE x = Named(x[1], x[2])
  <2>1. CASE x \in schema BY <2>1 DEF UpgradeInv, UpgradeTypes
  <2>2. CASE x \in Adds(s) BY <1>1, <2>2, PlainAdds
  <2> QED BY <1>3, <2>1, <2>2
<1> QED BY <1>4, <1>5, <1>6

\* A rebuild: the rows are in the table, in both, in the copy, and in the table again.
LEMMA RebuildRows ==
  ASSUME UpgradeInv, RunStatement, place.step \in {7, 17}
  PROVE  Rebuilding' /\ RowsHeld' /\ (\A x \in schema' : x = Named(x[1], x[2]))
PROOF
<1>1. place \in Places /\ place' = After(place) /\ origin' = origin /\ upgrade = "migrating"
  BY DEF UpgradeInv, UpgradeTypes, RunStatement
<1>2. PICK t \in Rebuilt : place.step = RebuildAt(t) BY CopyFacts
<1>3. PICK n : n = CopyOf(t) OBVIOUS
<1>4. n \in Copies /\ t \notin Copies /\ t # n BY <1>3, CopyFacts
<1>5. /\ full \subseteq {x[1] : x \in schema}
      /\ \A x \in SchemaKnown(origin) : Held(x[1])
      /\ \A x \in schema : x = Named(x[1], x[2])
  BY DEF UpgradeInv, RowsHeld, UpgradeTypes
<1>6. ASSUME NEW x \in SchemaKnown(origin) PROVE x[1] \notin Copies
  <2>1. origin \in Nat BY MigrationAssumption DEF UpgradeInv, UpgradeTypes
  <2>2. PICK v \in 0..SchemaVersion : x \in SchemaOf[v] BY <2>1 DEF SchemaKnown, SchemaVersion
  <2> QED BY <2>2, NothingCopied
<1>7. ASSUME NEW u \in Rebuilt, place'.step = RebuildAt(u), place'.line # 1
      PROVE  u = t /\ place'.line = place.line + 1
  <2>1. place'.step = place.step /\ place'.line = place.line + 1 BY <1>1, <1>7, AfterShape
  <2> QED BY <1>2, <1>7, <2>1, CopyFacts
<1>8. CASE place.line = 1 /\ Now(place) = Statement("table", n, n)
  <2>1. full' = full BY <1>8 DEF RunStatement, Statement
  <2>2. schema' = schema \cup {Named(n, n)}
    BY <1>8 DEF RunStatement, Statement, Effect, Adds, Removes
  <2>3. Rebuilding' BY <1>3, <1>7, <1>8, <2>2 DEF Rebuilding
  <2>4. RowsHeld' BY <1>1, <1>5, <2>1, <2>2 DEF RowsHeld, Held, SchemaKnown
  <2> QED BY <1>5, <2>2, <2>3, <2>4 DEF Named
<1>9. CASE place.line = 2 /\ Now(place) = Statement("copy", t, n)
  <2>1. full' = IF t \in full THEN full \cup {n} ELSE full BY <1>9 DEF RunStatement, Statement
  <2>2. schema' = schema BY <1>9 DEF RunStatement, Statement, Effect, Adds, Removes
  <2>3. Rebuilding' BY <1>3, <1>7, <1>9, <2>1 DEF Rebuilding, Held
  <2>4. Named(n, n) \in schema BY <1>1, <1>2, <1>3, <1>9 DEF UpgradeInv, Rebuilding
  <2>5. n \in {x[1] : x \in schema} BY <2>4 DEF Named
  <2>6. RowsHeld' BY <1>1, <1>5, <2>1, <2>2, <2>5 DEF RowsHeld, Held, SchemaKnown
  <2> QED BY <1>5, <2>2, <2>3, <2>6
<1>10. CASE place.line = 3 /\ Now(place) = Statement("drop", t, t)
  <2>1. full' = full \ {t} BY <1>10 DEF RunStatement, Statement
  <2>2. schema' = {x \in schema : x[1] # t}
    BY <1>10 DEF RunStatement, Statement, Effect, Adds, Removes
  <2>3. Rebuilding' BY <1>7, <1>10 DEF Rebuilding
  <2>4. Held(t) => n \in full BY <1>1, <1>2, <1>3, <1>10 DEF UpgradeInv, Rebuilding
  <2>5. full' \subseteq {x[1] : x \in schema'} BY <1>5, <2>1, <2>2
  <2>6. ASSUME NEW x \in SchemaKnown(origin) PROVE x[1] \in full' \/ CopyOf(x[1]) \in full'
    <3>1. Held(x[1]) /\ x[1] \notin Copies BY <1>5, <1>6
    <3>2. CASE x[1] = t BY <1>3, <1>4, <2>1, <2>4, <3>1, <3>2
    <3>3. CASE x[1] # t
      <4>1. CopyOf(x[1]) # t BY <1>4, <3>3, CopyFacts
      <4> QED BY <2>1, <3>1, <3>3, <4>1 DEF Held
    <3> QED BY <3>2, <3>3
  <2>7. RowsHeld' BY <1>1, <2>5, <2>6 DEF RowsHeld, Held, SchemaKnown
  <2> QED BY <1>5, <2>2, <2>3, <2>7
<1>11. CASE place.line = 4 /\ Now(place) = Statement("rename", n, t)
  <2>1. full' = IF n \in full THEN (full \ {n}) \cup {t} ELSE full
    BY <1>11 DEF RunStatement, Statement
  <2>2. schema' = {x \in schema : x[1] # n} \cup {Named(t, t)}
    BY <1>11 DEF RunStatement, Statement, Effect, Adds, Removes
  <2>a. ASSUME NEW u \in Rebuilt, place'.step = RebuildAt(u)
        PROVE  place'.line # 2 /\ place'.line # 3
    BY <1>7, <1>11, <2>a
  <2>3. Rebuilding' BY <2>a DEF Rebuilding
  <2>c. Named(t, t) \in schema' /\ Named(t, t)[1] = t BY <2>2 DEF Named
  <2>4. t \in {x[1] : x \in schema'} BY <2>c
  <2>5. full' \subseteq {x[1] : x \in schema'} BY <1>5, <2>1, <2>2, <2>4
  <2>6. ASSUME NEW x \in SchemaKnown(origin) PROVE x[1] \in full' \/ CopyOf(x[1]) \in full'
    <3>1. Held(x[1]) /\ x[1] \notin Copies BY <1>5, <1>6
    <3>2. CASE x[1] = t BY <1>3, <2>1, <3>1, <3>2 DEF Held
    <3>3. CASE x[1] # t
      <4>1. CopyOf(x[1]) # n /\ x[1] # n BY <1>3, <1>4, <3>1, <3>3, CopyFacts
      <4> QED BY <2>1, <3>1, <4>1 DEF Held
    <3> QED BY <3>2, <3>3
  <2>7. RowsHeld' BY <1>1, <2>5, <2>6 DEF RowsHeld, Held, SchemaKnown
  <2> QED BY <1>5, <2>2, <2>3, <2>7 DEF Named
<1> QED BY <1>1, <1>2, <1>3, <1>8, <1>9, <1>10, <1>11, NowRebuild

LEMMA StatementSteps ==
  ASSUME UpgradeInv, RunStatement
  PROVE  UpgradeInv'
PROOF
<1> USE DEF UpgradeInv
<1>1. /\ upgrade = "migrating" /\ place \in Places /\ place' = After(place)
      /\ schema' = Effect(Now(place), schema)
      /\ UNCHANGED <<upgrade, userVersion, imported, settings, edited, origin, cuts>>
  BY DEF UpgradeTypes, RunStatement
<1>2. Rebuilding' /\ RowsHeld' /\ (\A x \in schema' : x = Named(x[1], x[2]))
  BY PlainRows, RebuildRows
<1>3. origin <= SchemaVersion /\ userVersion \in 0..SchemaVersion
  <2>1. origin \in Nat BY MigrationAssumption DEF UpgradeTypes
  <2> QED BY <1>1, <2>1 DEF Versions, SchemaVersion
<1>4. UpgradeTypes'
  <2>1. place' \in Places \cup {Through} BY <1>1, PlaceOrder
  <2>2. ledgerKey' \in {"none", "old", "moving", "gone", "new"} BY DEF UpgradeTypes, RunStatement
  <2> QED BY <1>1, <1>2, <2>1, <2>2 DEF UpgradeTypes
<1>5. Versions'
  <2>1. ASSUME NEW q \in Places, ~Earlier(q, After(place)) PROVE q.step > userVersion
    <3>1. ~Earlier(q, place) BY <1>1, <2>1, PlaceOrder
    <3> QED BY <1>1, <3>1 DEF Versions
  <2> QED BY <1>1, <2>1 DEF Versions
<1>6. Fates'
  <2>1. place.step > userVersion BY <1>1, PlaceOrder DEF Versions
  <2>2. Becomes(After(place), schema') BY <1>1, <1>3, FateGoesOn DEF Fates
  <2>3. Becomes(Begin(userVersion), schema') BY <1>1, <1>3, <2>1, FateStarts DEF Fates
  <2> QED BY <1>1, <2>2, <2>3 DEF Fates
<1>7. Configured' BY <1>1 DEF Configured
<1> QED BY <1>2, <1>4, <1>5, <1>6, <1>7

LEMMA UpgradeInvariance == UpgradeSpec => []UpgradeInv
PROOF
<1>1. UpgradeInv /\ [UpgradeNext]_upgradeVars => UpgradeInv'
  <2>1. UpgradeInv /\ UpgradeNext => UpgradeInv' BY StageSteps, StatementSteps DEF UpgradeNext
  <2>2. UpgradeInv /\ UNCHANGED upgradeVars => UpgradeInv'
    BY DEF upgradeVars, UpgradeInv, UpgradeTypes, Versions, Fates, Rebuilding, RowsHeld,
           Configured, Held, SchemaKnown
  <2> QED BY <2>1, <2>2
<1> QED BY UpgradeStarts, <1>1, PTL DEF UpgradeSpec

\* The upgrade keeps its types, from every version and wherever it is cut.
THEOREM UpgradeTypeCorrect == UpgradeSpec => []UpgradeTypeOK
PROOF
<1>1. UpgradeInv => UpgradeTypeOK
  BY DEF UpgradeInv, UpgradeTypes, RowsHeld, UpgradeTypeOK, Stages
<1> QED BY UpgradeInvariance, <1>1, PTL

\* Wherever the upgrade of a database of any version is cut, and however often: it ends
\* with the schema of an upgrade nobody interrupted, no row of a table it rebuilds is
\* ever out of both the table and its copy, a configuration the user saved is not
\* imported over, and a newer program's database is left alone (run_migrations,
\* import_legacy_into_db).
THEOREM UpgradesAreSound == UpgradeSpec => []UpgradeIsSound
PROOF
<1> SUFFICES UpgradeInv => UpgradeIsSound BY UpgradeInvariance, PTL
<1> SUFFICES ASSUME UpgradeInv PROVE UpgradeIsSound OBVIOUS
<1>1. ASSUME userVersion = SchemaVersion PROVE schema = SchemaOf[SchemaVersion]
  <2>1. origin \in Nat BY MigrationAssumption DEF UpgradeInv, UpgradeTypes
  <2>2. origin <= SchemaVersion BY <1>1, <2>1 DEF UpgradeInv, Versions, SchemaVersion
  <2>3. Becomes(Through, schema) BY <1>1, <2>2 DEF UpgradeInv, Fates, Through
  <2> QED BY <2>3, FateEnds
<1>2. \A x \in SchemaKnown(origin) : x[1] \in full \/ CopyOf(x[1]) \in full
  BY DEF UpgradeInv, RowsHeld, Held
<1>3. edited => settings = "saved" BY DEF UpgradeInv, Configured
<1>4. origin > SchemaVersion => upgrade \in {"closed", "refused"} /\ userVersion = origin
  BY DEF UpgradeInv, Versions
<1> QED BY <1>1, <1>2, <1>3, <1>4 DEF UpgradeIsSound

-----------------------------------------------------------------------------
(***************************************************************************)
(* The types of the Claude engine.                                         *)
(***************************************************************************)

LEMMA FirstTurn == 0 \in 0..MaxClaudeTurn /\ 1 \in ClaudeTurn /\ ClaudeTurn \subseteq 0..MaxClaudeTurn
BY ClaudeAssumption DEF ClaudeTurn

LEMMA DroppedTyped ==
  ASSUME ClaudeTypeOK, NEW new \in 0..MaxClaudeTurn, Dropped(new)
  PROVE  cSender' \in 0..MaxClaudeTurn /\ cancel' \in [ClaudeTurn -> {"quiet", "sent", "dropped"}]
BY DEF ClaudeTypeOK, Dropped

\* The status, the outcomes and where the turns are.
LEMMA TurnsTyped ==
  ASSUME ClaudeTypeOK, [ClaudeNext]_claudeVars
  PROVE  /\ cStatus' \in {"none", "running", "done", "failed"}
         /\ cTurn' \in [ClaudeTurn -> {"none", "first", "started", "resumed", "spawn", "init",
                                       "pump", "settle", "deregister", "ended"}]
         /\ cChild' \in [ClaudeTurn -> {"none", "runs", "result", "gone"}]
         /\ cOutcome' \in [ClaudeTurn -> Outcome \cup {"none"}]
PROOF
<1> DEFINE Typed ==
      /\ cStatus' \in {"none", "running", "done", "failed"}
      /\ cTurn' \in [ClaudeTurn -> {"none", "first", "started", "resumed", "spawn", "init",
                                    "pump", "settle", "deregister", "ended"}]
      /\ cChild' \in [ClaudeTurn -> {"none", "runs", "result", "gone"}]
      /\ cOutcome' \in [ClaudeTurn -> Outcome \cup {"none"}]
<1> USE DEF ClaudeTypeOK, Step, Child
<1>1. SpawnReview => Typed BY DEF SpawnReview
<1>2. ReviewFails => Typed BY DEF ReviewFails
<1>3. ReviewStarts => Typed BY DEF ReviewStarts
<1>4. RegisterReview => Typed BY DEF RegisterReview
<1>5. StopClaude => Typed BY DEF StopClaude
<1>6. ASSUME NEW t \in ClaudeTurn, NEW o \in Outcome, Finish(t, o)
      PROVE  /\ cStatus' \in {"none", "running", "done", "failed"}
             /\ cTurn' \in [ClaudeTurn -> {"none", "first", "started", "resumed", "spawn", "init",
                                           "pump", "settle", "deregister", "ended"}]
             /\ cOutcome' \in [ClaudeTurn -> Outcome \cup {"none"}]
  BY <1>6 DEF Finish
<1>7. ASSUME NEW t \in ClaudeTurn,
             TurnStep(t) \/ ResumeClaude(t) \/ InitLine(t) \/ ChildDone(t) \/ ChildEnds(t)
      PROVE  Typed
  <2>1. CASE RegisterFollowUp(t) BY <2>1 DEF RegisterFollowUp
  <2>2. CASE SpawnFollowUp(t) BY <2>2 DEF SpawnFollowUp
  <2>3. CASE FollowUpFails(t) BY <2>3 DEF FollowUpFails
  <2>4. CASE Settle(t) BY <2>4 DEF Settle
  <2>5. CASE Deregister(t) BY <2>5 DEF Deregister
  <2>6. CASE Cancelled(t) BY <1>6, <2>6 DEF Cancelled, Outcome
  <2>7. CASE ResumeClaude(t) BY <2>7 DEF ResumeClaude
  <2>8. CASE InitLine(t) BY <2>8 DEF InitLine
  <2>9. CASE ChildDone(t)
    <3>1. PICK o \in Outcome : Finish(t, o) BY <2>9 DEF ChildDone, Outcome
    <3> QED BY <1>6, <2>9, <3>1 DEF ChildDone
  <2>10. CASE ChildEnds(t) BY <2>10 DEF ChildEnds
  <2> QED BY <1>7, <2>1, <2>2, <2>3, <2>4, <2>5, <2>6, <2>7, <2>8, <2>9, <2>10 DEF TurnStep
<1>8. CASE UNCHANGED claudeVars BY <1>8 DEF claudeVars
<1> QED BY <1>1, <1>2, <1>3, <1>4, <1>5, <1>7, <1>8 DEF ClaudeNext

\* The manager's sender, what the receivers have seen, and the stops.
LEMMA SendersTyped ==
  ASSUME ClaudeTypeOK, [ClaudeNext]_claudeVars
  PROVE  /\ cSender' \in 0..MaxClaudeTurn
         /\ cancel' \in [ClaudeTurn -> {"quiet", "sent", "dropped"}]
         /\ cAsked' \subseteq ClaudeTurn /\ cStops' \in 0..MaxStop
PROOF
<1>0. 0 \in 0..MaxClaudeTurn /\ 1 \in 0..MaxClaudeTurn /\ ClaudeTurn \subseteq 0..MaxClaudeTurn
  BY FirstTurn
<1>1. CASE UNCHANGED <<cSender, cancel, cAsked, cStops>> BY <1>1 DEF ClaudeTypeOK
<1>2. ASSUME UNCHANGED <<cAsked, cStops>>, NEW new \in 0..MaxClaudeTurn, Dropped(new)
      PROVE  /\ cSender' \in 0..MaxClaudeTurn
             /\ cancel' \in [ClaudeTurn -> {"quiet", "sent", "dropped"}]
             /\ cAsked' \subseteq ClaudeTurn /\ cStops' \in 0..MaxStop
  BY <1>2, DroppedTyped DEF ClaudeTypeOK
<1>3. CASE StopClaude
  <2>1. cSender \in ClaudeTurn
    BY <1>3, ClaudeAssumption DEF StopClaude, ClaudeTypeOK, ClaudeTurn
  <2>2. cStops' \in 0..MaxStop BY <1>3, ClaudeAssumption DEF StopClaude, ClaudeTypeOK
  <2> QED BY <1>0, <1>3, <2>1, <2>2 DEF StopClaude, ClaudeTypeOK
<1>4. CASE RegisterReview BY <1>0, <1>2, <1>4 DEF RegisterReview
<1>5. ASSUME NEW t \in ClaudeTurn, RegisterFollowUp(t) \/ FollowUpFails(t) \/ Deregister(t)
      PROVE  UNCHANGED <<cAsked, cStops>> /\ \E new \in 0..MaxClaudeTurn : Dropped(new)
  BY <1>0, <1>5 DEF RegisterFollowUp, FollowUpFails, Deregister
<1>6. ASSUME NEW t \in ClaudeTurn,
             \/ SpawnFollowUp(t) \/ Settle(t) \/ Cancelled(t) \/ ResumeClaude(t)
             \/ InitLine(t) \/ ChildDone(t) \/ ChildEnds(t)
      PROVE  UNCHANGED <<cSender, cancel, cAsked, cStops>>
  BY <1>6 DEF SpawnFollowUp, Settle, Cancelled, ResumeClaude, InitLine, ChildDone, ChildEnds
<1>7. SpawnReview \/ ReviewFails \/ ReviewStarts \/ UNCHANGED claudeVars =>
        UNCHANGED <<cSender, cancel, cAsked, cStops>>
  BY DEF SpawnReview, ReviewFails, ReviewStarts, claudeVars
<1> QED BY <1>1, <1>2, <1>3, <1>4, <1>5, <1>6, <1>7 DEF ClaudeNext, TurnStep

LEMMA ClaudeInvariance ==
  /\ ClaudeInit => ClaudeTypeOK
  /\ ClaudeTypeOK /\ [ClaudeNext]_claudeVars => ClaudeTypeOK'
PROOF
<1>1. ClaudeInit => ClaudeTypeOK BY ClaudeAssumption DEF ClaudeInit, ClaudeTypeOK, ClaudeTurn
<1>2. ClaudeTypeOK /\ [ClaudeNext]_claudeVars => ClaudeTypeOK'
  <2> SUFFICES ASSUME ClaudeTypeOK, [ClaudeNext]_claudeVars PROVE ClaudeTypeOK' OBVIOUS
  <2> QED BY TurnsTyped, SendersTyped DEF ClaudeTypeOK
<1> QED BY <1>1, <1>2

-----------------------------------------------------------------------------
(***************************************************************************)
(* The services together.                                                  *)
(***************************************************************************)

\* What the services are when they start, and what a step is to each of them.
LEMMA ServicesStart ==
  ServicesInit => /\ ReviewStartInit /\ RpcInit /\ ClaudeInit /\ CursorInit /\ HumanInit
                  /\ ConnectionInit /\ PtyInit /\ ReceiverInit /\ RemoteInit /\ UpgradeInit
                  /\ ManagerInit
BY DEF ServicesInit

LEMMA ServicesStep ==
  [ServicesNext]_servicesVars =>
    /\ [ReviewStartNext]_startVars /\ [RpcNext]_rpcVars /\ [ClaudeNext]_claudeVars
    /\ [CursorNext]_cursorVars /\ [HumanNext]_humanVars /\ [ConnectionNext]_connectionVars
    /\ [PtyNext]_ptyVars /\ [ReceiverNext]_receiverVars /\ [RemoteNext]_remoteVars
    /\ [UpgradeNext]_upgradeVars /\ [ManagerNext]_serverVars
PROOF
<1> SUFFICES ASSUME [ServicesNext]_servicesVars
             PROVE  /\ [ReviewStartNext]_startVars /\ [RpcNext]_rpcVars /\ [ClaudeNext]_claudeVars
                    /\ [CursorNext]_cursorVars /\ [HumanNext]_humanVars
                    /\ [ConnectionNext]_connectionVars /\ [PtyNext]_ptyVars
                    /\ [ReceiverNext]_receiverVars /\ [RemoteNext]_remoteVars
                    /\ [UpgradeNext]_upgradeVars /\ [ManagerNext]_serverVars
  OBVIOUS
<1>1. CASE ServicesNext BY <1>1 DEF ServicesNext, OthersThan
<1>2. CASE UNCHANGED servicesVars BY <1>2 DEF servicesVars
<1> QED BY <1>1, <1>2

\* Side by side the services keep their types: whichever of them takes a step, it is a
\* step of its own and leaves the state of the others alone.
THEOREM ServicesTypeCorrect == ServicesSpec => []ServicesTypeOK
PROOF
<1>1. ServicesSpec => []ReviewStartTypeOK
  <2>1. StartInv => ReviewStartTypeOK BY DEF StartInv
  <2> QED BY <2>1, ServicesStart, ServicesStep, StartInvariance, PTL
          DEF ServicesSpec, ReviewStartSpec
<1>2. ServicesSpec => []RpcTypeOK
  <2>1. RpcInv => RpcTypeOK BY DEF RpcInv
  <2> QED BY <2>1, ServicesStart, ServicesStep, RpcInvariance, PTL DEF ServicesSpec, RpcSpec
<1>3. ServicesSpec => []ClaudeTypeOK
  BY ServicesStart, ServicesStep, ClaudeInvariance, PTL DEF ServicesSpec
<1>4. ServicesSpec => []CursorTypeOK
  <2>1. CursorInv => CursorTypeOK BY DEF CursorInv
  <2> QED BY <2>1, ServicesStart, ServicesStep, CursorInvariance, PTL
          DEF ServicesSpec, CursorSpec
<1>5. ServicesSpec => []HumanTypeOK
  <2>1. HumanInv => HumanTypeOK BY DEF HumanInv
  <2> QED BY <2>1, ServicesStart, ServicesStep, HumanInvariance, PTL DEF ServicesSpec, HumanSpec
<1>6. ServicesSpec => []ConnectionTypeOK
  <2>1. ConnectionInv => ConnectionTypeOK BY DEF ConnectionInv
  <2> QED BY <2>1, ServicesStart, ServicesStep, ConnectionInitInv, ConnectionStepInv, PTL
          DEF ServicesSpec
<1>7. ServicesSpec => []PtyTypeOK
  BY ServicesStart, ServicesStep, PtyTypeCorrect, PTL DEF ServicesSpec, PtySpec
<1>8. ServicesSpec => []ReceiverTypeOK
  <2>1. ReceiverInv => ReceiverTypeOK BY DEF ReceiverInv, RuntimeInv
  <2> QED BY <2>1, ServicesStart, ServicesStep, ReceiverInitInv, ReceiverStepInv, PTL
          DEF ServicesSpec
<1>9. ServicesSpec => []RemoteTypeOK
  BY ServicesStart, ServicesStep, RemoteTypeCorrect, PTL DEF ServicesSpec, RemoteSpec
<1>10. ServicesSpec => []UpgradeTypeOK
  BY ServicesStart, ServicesStep, UpgradeTypeCorrect, PTL DEF ServicesSpec, UpgradeSpec
<1>11. ReviewStartTypeOK /\ RpcTypeOK /\ ClaudeTypeOK /\ CursorTypeOK /\ HumanTypeOK
       /\ ConnectionTypeOK /\ PtyTypeOK /\ ReceiverTypeOK /\ RemoteTypeOK /\ UpgradeTypeOK
       => ServicesTypeOK
  BY DEF ServicesTypeOK
<1> QED BY <1>1, <1>2, <1>3, <1>4, <1>5, <1>6, <1>7, <1>8, <1>9, <1>10, <1>11, PTL
=============================================================================
