---------------------------- MODULE InboxProofs ----------------------------
(***************************************************************************)
(* The event inbox, for any rules, events and bounds.  The inductive       *)
(* invariant has four parts: the types; of the outbox, that every row was  *)
(* made by a rule or by a workflow, with the keys that go with it, and     *)
(* that a notice or message key occurs once (BoxOK); of the page, that its *)
(* rows are distinct, still received, and there when one is committed      *)
(* (PageReceived: without it a commit could meet a row already planned);   *)
(* and that planning is all or nothing (PlansWhole).                       *)
(*                                                                         *)
(* A commit plans by recursion over rules and their actions.  AddsUp and   *)
(* its companions say what the recursive functions satisfy step by step;   *)
(* that they hold for every n is shown of the least n at which they would  *)
(* not.                                                                    *)
(***************************************************************************)
EXTENDS Inbox, WellFoundedInduction, TLAPS

Kind == {"runSkill", "notify", "external", "workflow"}
OutboxRow(K) ==
  [producer : K, dedupe : K, kind : Kind, status : {"pending", "blocked", "done", "dead"},
   session : {"none", "running", "done", "failed"}, label : {"none", "done", "failed"}]

\* What an outbox row was written for: an action of a rule put to an inbox row, or
\* the notice of a workflow.
MadeFor(row, r, rule, a) ==
  /\ row.producer = ProducerKey(r, rule, a) /\ row.dedupe = DedupeKey(r, rule, a)
  /\ row.kind = a.kind
ByRule(row) ==
  \E r \in DOMAIN inbox : \E rule \in Range(RulesFor(r)) : \E a \in Range(rule.actions) :
    MadeFor(row, r, rule, a)
ByWorkflow(row) ==
  /\ row.kind = "workflow" /\ row.producer = <<"dedupe", row.dedupe>>
  /\ \E r \in DOMAIN inbox : row.dedupe = <<"workflow", r>>

BoxOK(box) ==
  /\ \E K : box \in Seq(OutboxRow(K))
  /\ \A i \in DOMAIN box : ByRule(box[i]) \/ ByWorkflow(box[i])
  /\ \A i, j \in DOMAIN box : ~IsReview(box[i]) /\ box[i].dedupe = box[j].dedupe => i = j

\* The table grows by rows that rules asked for, and only grows.
Grows(old, new) ==
  /\ DOMAIN old \subseteq DOMAIN new /\ \A i \in DOMAIN old : new[i] = old[i]
  /\ \A i \in DOMAIN new : i \notin DOMAIN old => ByRule(new[i])

InboxRows == inbox \in Seq([event : Event, status : RowStatus])

\* A set of numbers that is not empty has a least one.
LEMMA Least ==
  ASSUME NEW S, S \subseteq Nat, S # {}
  PROVE  \E x \in S : \A y \in S : ~(y < x)
PROOF
<1> DEFINE R == {ss \in Nat \X Nat : ss[1] < ss[2]}
<1>1. IsWellFoundedOn(R, Nat) BY NatLessThanWellFounded DEF OpToRel
<1>2. \A x, y \in S : y < x => <<y, x>> \in R OBVIOUS
<1> HIDE DEF R
<1>3. \E x \in S : \A y \in S : ~(<<y, x>> \in R)
  BY <1>1, WFMin
<1> QED BY <1>2, <1>3

\* The rules an inbox row is put to: what their actions are, and that an id names one.
LEMMA RulesShape ==
  ASSUME InboxRows, NEW r \in DOMAIN inbox
  PROVE  /\ Len(RulesFor(r)) \in Nat /\ DOMAIN RulesFor(r) = 1..Len(RulesFor(r))
         /\ \A k \in DOMAIN RulesFor(r) :
              LET rule == RulesFor(r)[k] IN
              /\ Len(rule.actions) \in Nat /\ DOMAIN rule.actions = 1..Len(rule.actions)
              /\ \A l \in DOMAIN rule.actions :
                   rule.actions[l].kind \in {"runSkill", "notify", "external"}
              /\ \A i, j \in DOMAIN rule.actions :
                   rule.actions[i].id = rule.actions[j].id => i = j
         /\ \A j, k \in DOMAIN RulesFor(r) : RulesFor(r)[j].id = RulesFor(r)[k].id => j = k
PROOF
<1>1. CASE IsExternal(r)
  <2>1. RulesFor(r) = ExternalPlan BY <1>1 DEF RulesFor
  <2> QED BY <2>1 DEF ExternalPlan
<1>2. CASE ~IsExternal(r)
  <2>1. RulesFor(r) = RuleSeq BY <1>2 DEF RulesFor
  <2>2. Len(RuleSeq) \in Nat /\ DOMAIN RuleSeq = 1..Len(RuleSeq) BY RuleAssumption
  <2>3. ASSUME NEW k \in DOMAIN RuleSeq
        PROVE  /\ Len(RuleSeq[k].actions) \in Nat
               /\ DOMAIN RuleSeq[k].actions = 1..Len(RuleSeq[k].actions)
               /\ \A l \in DOMAIN RuleSeq[k].actions :
                    RuleSeq[k].actions[l].kind \in {"runSkill", "notify"}
    <3>1. RuleSeq[k] \in RuleConfig BY RuleAssumption
    <3> DEFINE actions == RuleSeq[k].actions
    <3>2. actions \in Seq(ActionConfig) BY <3>1 DEF RuleConfig
    <3> HIDE DEF actions
    <3>3. /\ Len(actions) \in Nat /\ DOMAIN actions = 1..Len(actions)
          /\ \A l \in DOMAIN actions : actions[l] \in ActionConfig
      BY <3>2
    <3>4. \A l \in DOMAIN actions : actions[l].kind \in {"runSkill", "notify"}
      BY <3>3 DEF ActionConfig
    <3> QED BY <3>3, <3>4 DEF actions
  <2> QED BY <2>1, <2>2, <2>3, RuleAssumption
<1> QED BY <1>1, <1>2

\* The first component of a key tells reviews, notices and workflow notices apart.
LEMMA KeyHeads ==
  ASSUME InboxRows, NEW r \in DOMAIN inbox, NEW rule \in Range(RulesFor(r)),
         NEW a \in Range(rule.actions)
  PROVE  /\ a.kind \in {"runSkill", "notify", "external"}
         /\ IsReview(a) => DedupeKey(r, rule, a)[1] \in {"external", "review"}
         /\ ~IsReview(a) => DedupeKey(r, rule, a)[1] = "notify"
PROOF
<1>1. a.kind \in {"runSkill", "notify", "external"} BY RulesShape DEF Range
<1>2. CASE a.kind = "external" BY <1>2 DEF DedupeKey, IsReview
<1>3. CASE a.kind = "runSkill" BY <1>3 DEF DedupeKey, IsReview
<1>4. CASE a.kind = "notify" BY <1>4 DEF DedupeKey, IsReview
<1> QED BY <1>1, <1>2, <1>3, <1>4

\* A producer key names one dedupe key.
LEMMA ProducerFixesKey ==
  ASSUME InboxRows,
         NEW r \in DOMAIN inbox, NEW rule \in Range(RulesFor(r)), NEW a \in Range(rule.actions),
         NEW q \in DOMAIN inbox, NEW law \in Range(RulesFor(q)), NEW b \in Range(law.actions),
         ProducerKey(r, rule, a) = ProducerKey(q, law, b)
  PROVE  DedupeKey(r, rule, a) = DedupeKey(q, law, b)
PROOF
<1>1. CASE IsReview(a) /\ IsReview(b)
  <2>1. <<"rule", r, rule.id, a.id>> = <<"rule", q, law.id, b.id>> BY <1>1 DEF ProducerKey
  <2>2. r = q /\ rule.id = law.id /\ a.id = b.id BY <2>1
  <2>3. rule = law BY <2>2, RulesShape DEF Range
  <2>4. a = b BY <2>2, <2>3, RulesShape DEF Range
  <2> QED BY <2>2, <2>3, <2>4
<1>2. CASE ~IsReview(a) /\ ~IsReview(b)
  <2>1. <<"dedupe", DedupeKey(r, rule, a)>> = <<"dedupe", DedupeKey(q, law, b)>>
    BY <1>2 DEF ProducerKey
  <2> QED BY <2>1
<1>3. CASE IsReview(a) /\ ~IsReview(b)
  <2>1. <<"rule", r, rule.id, a.id>> = <<"dedupe", DedupeKey(q, law, b)>>
    BY <1>3 DEF ProducerKey
  <2> QED BY <2>1
<1>4. CASE ~IsReview(a) /\ IsReview(b)
  <2>1. <<"rule", q, law.id, b.id>> = <<"dedupe", DedupeKey(r, rule, a)>>
    BY <1>4 DEF ProducerKey
  <2> QED BY <2>1
<1> QED BY <1>1, <1>2, <1>3, <1>4

LEMMA LargerSeq ==
  ASSUME NEW S, NEW T, S \subseteq T, NEW s \in Seq(S)
  PROVE  s \in Seq(T)
PROOF
<1>1. Len(s) \in Nat /\ DOMAIN s = 1..Len(s) /\ \A i \in 1..Len(s) : s[i] \in T OBVIOUS
<1>2. s = [i \in 1..Len(s) |-> s[i]] OBVIOUS
<1> QED BY <1>1, <1>2

\* A row that is appended under a key no notice has keeps the table in order.
LEMMA AppendRow ==
  ASSUME NEW box, BoxOK(box), NEW L, NEW row \in OutboxRow(L), ByRule(row) \/ ByWorkflow(row),
         \A i \in DOMAIN box : box[i].dedupe = row.dedupe => IsReview(row) /\ IsReview(box[i])
  PROVE  /\ BoxOK(Append(box, row)) /\ (ByRule(row) => Grows(box, Append(box, row)))
         /\ \A i \in DOMAIN box : Append(box, row)[i] = box[i]
         /\ Len(box) \in Nat /\ Len(box) + 1 \in DOMAIN Append(box, row)
         /\ DOMAIN Append(box, row) = DOMAIN box \cup {Len(box) + 1}
         /\ Append(box, row)[Len(box) + 1] = row
PROOF
<1>1. PICK K : box \in Seq(OutboxRow(K)) BY DEF BoxOK
<1> DEFINE U == K \cup L
<1>2. OutboxRow(K) \subseteq OutboxRow(U) /\ row \in OutboxRow(U) BY DEF OutboxRow
<1>3. box \in Seq(OutboxRow(U)) BY <1>1, <1>2, LargerSeq
<1> HIDE DEF U
<1>4. Append(box, row) \in Seq(OutboxRow(U)) BY <1>2, <1>3
<1>5. /\ Len(box) \in Nat /\ DOMAIN box = 1..Len(box)
      /\ DOMAIN Append(box, row) = DOMAIN box \cup {Len(box) + 1}
      /\ Append(box, row)[Len(box) + 1] = row
      /\ \A i \in DOMAIN box : Append(box, row)[i] = box[i]
  BY <1>2, <1>3
<1>6. \A i \in DOMAIN Append(box, row) : ByRule(Append(box, row)[i]) \/ ByWorkflow(Append(box, row)[i])
  BY <1>5 DEF BoxOK
<1>7. ASSUME NEW i \in DOMAIN Append(box, row), NEW j \in DOMAIN Append(box, row),
             ~IsReview(Append(box, row)[i]),
             Append(box, row)[i].dedupe = Append(box, row)[j].dedupe
      PROVE  i = j
  BY <1>5, <1>7 DEF BoxOK
<1> QED BY <1>4, <1>5, <1>6, <1>7 DEF BoxOK, Grows

\* A row's key tells what it is.
LEMMA RowHeads ==
  ASSUME InboxRows, NEW row, ByRule(row) \/ ByWorkflow(row)
  PROVE  /\ IsReview(row) => row.dedupe[1] \in {"external", "review"}
         /\ ~IsReview(row) => row.dedupe[1] \in {"notify", "workflow"}
         /\ ByRule(row) => row.dedupe[1] # "workflow"
PROOF
<1>1. CASE ByRule(row)
  <2>3. PICK r \in DOMAIN inbox :
          \E rule \in Range(RulesFor(r)) : \E a \in Range(rule.actions) : MadeFor(row, r, rule, a)
    BY <1>1 DEF ByRule
  <2>4. PICK rule \in Range(RulesFor(r)) : \E a \in Range(rule.actions) : MadeFor(row, r, rule, a)
    BY <2>3
  <2>1. PICK a \in Range(rule.actions) : MadeFor(row, r, rule, a)
    BY <2>4
  <2>2. row.kind = a.kind /\ row.dedupe = DedupeKey(r, rule, a) BY <2>1 DEF MadeFor
  <2>5. IsReview(row) <=> IsReview(a) BY <2>2 DEF IsReview
  <2> QED BY <2>2, <2>5, KeyHeads
<1>2. CASE ~ByRule(row)
  BY <1>2 DEF ByWorkflow, IsReview
<1> QED BY <1>1, <1>2

\* What the producer of an action finds is what the action asks for.
LEMMA FoundByProducer ==
  ASSUME InboxRows, NEW row, ByRule(row) \/ ByWorkflow(row),
         NEW r \in DOMAIN inbox, NEW rule \in Range(RulesFor(r)), NEW a \in Range(rule.actions),
         row.producer = ProducerKey(r, rule, a)
  PROVE  row.dedupe = DedupeKey(r, rule, a)
PROOF
<1>1. CASE ByRule(row)
  <2>2. PICK q \in DOMAIN inbox :
          \E law \in Range(RulesFor(q)) : \E b \in Range(law.actions) : MadeFor(row, q, law, b)
    BY <1>1 DEF ByRule
  <2>3. PICK law \in Range(RulesFor(q)) : \E b \in Range(law.actions) : MadeFor(row, q, law, b)
    BY <2>2
  <2>1. PICK b \in Range(law.actions) : MadeFor(row, q, law, b)
    BY <2>3
  <2> QED BY <2>1, ProducerFixesKey DEF MadeFor
<1>2. CASE ByWorkflow(row)
  <2>1. row.producer = <<"dedupe", row.dedupe>> BY <1>2 DEF ByWorkflow
  <2>2. CASE IsReview(a)
    <3>1. <<"rule", r, rule.id, a.id>> = <<"dedupe", row.dedupe>> BY <2>1, <2>2 DEF ProducerKey
    <3> QED BY <3>1
  <2>3. CASE ~IsReview(a)
    <3>1. <<"dedupe", DedupeKey(r, rule, a)>> = <<"dedupe", row.dedupe>>
      BY <2>1, <2>3 DEF ProducerKey
    <3> QED BY <3>1
  <2> QED BY <2>2, <2>3
<1> QED BY <1>1, <1>2

LEMMA EnqueueInnerOK ==
  ASSUME InboxRows, NEW box, BoxOK(box),
         NEW r \in DOMAIN inbox, NEW rule \in Range(RulesFor(r)), NEW a \in Range(rule.actions),
         ~IsReview(a) => \A i \in DOMAIN box : box[i].dedupe # DedupeKey(r, rule, a),
         NEW e, e = EnqueueInner(box, ProducerKey(r, rule, a), DedupeKey(r, rule, a), a.kind)
  PROVE  /\ BoxOK(e.box) /\ Grows(box, e.box)
         /\ e.id \in DOMAIN e.box /\ e.box[e.id].dedupe = DedupeKey(r, rule, a)
PROOF
<1> DEFINE p == ProducerKey(r, rule, a)
           d == DedupeKey(r, rule, a)
           byProducer == {i \in DOMAIN box : box[i].producer = p}
           byDedupe == {i \in DOMAIN box : box[i].dedupe = d /\ box[i].status \in Live}
           row == [producer |-> p, dedupe |-> d, kind |-> a.kind, status |-> "pending",
                   session |-> "none", label |-> "none"]
<1>1. /\ byProducer # {} => \E i \in byProducer : e = [box |-> box, id |-> i]
      /\ byProducer = {} /\ byDedupe # {} => \E i \in byDedupe : e = [box |-> box, id |-> i]
      /\ byProducer = {} /\ byDedupe = {} => e = [box |-> Append(box, row), id |-> Len(box) + 1]
  BY DEF EnqueueInner
<1>2. Grows(box, box) BY DEF Grows
<1>3. \A i \in byProducer : box[i].dedupe = d BY FoundByProducer DEF BoxOK
<1>4. row \in OutboxRow({p, d}) BY KeyHeads DEF OutboxRow, Kind
<1>5. MadeFor(row, r, rule, a) BY DEF MadeFor
<1>6. ByRule(row) BY <1>5 DEF ByRule
<1>7. \A i \in DOMAIN box : box[i].dedupe = d => IsReview(row) /\ IsReview(box[i])
  <2> SUFFICES ASSUME NEW i \in DOMAIN box, box[i].dedupe = d
              PROVE  IsReview(row) /\ IsReview(box[i])
    OBVIOUS
  <2>1. IsReview(a) OBVIOUS
  <2>2. d[1] \in {"external", "review"} BY <2>1, KeyHeads
  <2>3. IsReview(row) BY <2>1 DEF IsReview
  <2>4. ByRule(box[i]) \/ ByWorkflow(box[i]) BY DEF BoxOK
  <2>5. IsReview(box[i]) BY <2>2, <2>4, RowHeads
  <2> QED BY <2>3, <2>5
<1>8. row.dedupe = d OBVIOUS
<1> HIDE DEF p, d, row
<1>9. CASE byProducer # {}
  <2>1. PICK i \in byProducer : e = [box |-> box, id |-> i] BY <1>1, <1>9
  <2>2. e.box = box /\ e.id = i /\ i \in DOMAIN box /\ box[i].dedupe = d BY <2>1, <1>3
  <2> QED BY <2>2, <1>2 DEF d
<1>10. CASE byProducer = {} /\ byDedupe # {}
  <2>1. PICK i \in byDedupe : e = [box |-> box, id |-> i] BY <1>1, <1>10
  <2>2. e.box = box /\ e.id = i /\ i \in DOMAIN box /\ box[i].dedupe = d BY <2>1
  <2> QED BY <2>2, <1>2 DEF d
<1>11. CASE byProducer = {} /\ byDedupe = {}
  <2>1. e.box = Append(box, row) /\ e.id = Len(box) + 1 BY <1>1, <1>11
  <2> QED BY <2>1, <1>4, <1>6, <1>7, <1>8, AppendRow DEF d
<1> QED BY <1>9, <1>10, <1>11

\* An action put to the outbox: the table stays in order, and the row is there.
LEMMA EnqueueActionOK ==
  ASSUME InboxRows, NEW box, BoxOK(box),
         NEW r \in DOMAIN inbox, NEW rule \in Range(RulesFor(r)), NEW a \in Range(rule.actions),
         NEW e, e = EnqueueAction(box, r, rule, a)
  PROVE  /\ BoxOK(e.box) /\ Grows(box, e.box)
         /\ e.id \in DOMAIN e.box /\ e.box[e.id].dedupe = DedupeKey(r, rule, a)
PROOF
<1>1. CASE IsReview(a) BY <1>1, EnqueueInnerOK DEF EnqueueAction
<1>2. CASE ~IsReview(a) /\ AnyStatus(box, DedupeKey(r, rule, a)) = {}
  <2>1. e = EnqueueInner(box, ProducerKey(r, rule, a), DedupeKey(r, rule, a), a.kind)
    BY <1>2 DEF EnqueueAction, EnqueueOnce
  <2>2. \A i \in DOMAIN box : box[i].dedupe # DedupeKey(r, rule, a) BY <1>2 DEF AnyStatus
  <2> QED BY <2>1, <2>2, EnqueueInnerOK
<1>3. CASE ~IsReview(a) /\ AnyStatus(box, DedupeKey(r, rule, a)) # {}
  <2> DEFINE same == AnyStatus(box, DedupeKey(r, rule, a))
  <2>1. e = [box |-> box, id |-> CHOOSE i \in same : \A j \in same : i <= j]
    BY <1>3 DEF EnqueueAction, EnqueueOnce
  <2>2. DOMAIN box \subseteq Nat BY DEF BoxOK
  <2>3. same \subseteq Nat BY <2>2 DEF AnyStatus
  <2>4. PICK i \in same : \A j \in same : i <= j
    <3>1. PICK i \in same : \A j \in same : ~(j < i) BY <1>3, <2>3, Least
    <3>2. \A j \in same : i <= j BY <2>3, <3>1
    <3> QED BY <3>1, <3>2
  <2>5. e.id \in same BY <2>1, <2>4
  <2> HIDE DEF same
  <2>6. e.box = box BY <2>1
  <2> QED BY <2>5, <2>6 DEF same, AnyStatus, Grows
<1> QED BY <1>1, <1>2, <1>3

\* AddActions(r, rule, n, box), step by step: the recursion goes up from 0, so that
\* a function which satisfies it exists for every n.
AddsUp(f, r, rule, n, box) ==
  f = [k \in 0..n |-> IF k = 0 THEN [box |-> box, ids |-> <<>>]
                      ELSE AddAction(r, rule, rule.actions[k], f[k - 1])]

LEMMA AddsUpSteps ==
  ASSUME NEW f, NEW r, NEW rule, NEW n \in Nat, NEW box
  PROVE  AddsUp(f, r, rule, n, box) <=>
           /\ f = [k \in 0..n |-> f[k]]
           /\ f[0] = [box |-> box, ids |-> <<>>]
           /\ \A k \in 1..n : f[k] = AddAction(r, rule, rule.actions[k], f[k - 1])
PROOF
<1> DEFINE h == [k \in 0..n |-> IF k = 0 THEN [box |-> box, ids |-> <<>>]
                                ELSE AddAction(r, rule, rule.actions[k], f[k - 1])]
<1>1. /\ h = [k \in 0..n |-> h[k]] /\ h[0] = [box |-> box, ids |-> <<>>]
      /\ \A k \in 1..n : h[k] = AddAction(r, rule, rule.actions[k], f[k - 1])
      /\ 0..n = {0} \cup 1..n
  OBVIOUS
<1>2. AddsUp(f, r, rule, n, box) <=> f = h BY DEF AddsUp
<1> HIDE DEF h
<1>3. ASSUME f = [k \in 0..n |-> f[k]], \A k \in 0..n : f[k] = h[k] PROVE f = h
  BY <1>1, <1>3
<1> QED BY <1>1, <1>2, <1>3

LEMMA AddActionsUnfold ==
  ASSUME NEW r, NEW rule, NEW box, NEW n \in Nat
  PROVE  \E f : AddsUp(f, r, rule, n, box) /\ AddActions(r, rule, n, box) = f[n]
PROOF
<1> DEFINE Defined(m) == \E f : AddsUp(f, r, rule, m, box)
           bad == {m \in Nat : ~Defined(m)}
<1>1. Defined(n)
  <2>1. SUFFICES ASSUME bad # {} PROVE FALSE OBVIOUS
  <2>2. PICK m \in bad : \A j \in bad : ~(j < m) BY <2>1, Least
  <2>3. m # 0
    <3> DEFINE g == [k \in 0..0 |-> [box |-> box, ids |-> <<>>]]
    <3>1. g = [k \in 0..0 |-> g[k]] /\ g[0] = [box |-> box, ids |-> <<>>] OBVIOUS
    <3> HIDE DEF g
    <3>3. \A k \in 1..0 : g[k] = AddAction(r, rule, rule.actions[k], g[k - 1]) OBVIOUS
    <3>4. AddsUp(g, r, rule, 0, box) BY <3>1, <3>3, AddsUpSteps
    <3>2. Defined(0) BY <3>4
    <3> QED BY <2>2, <3>2
  <2>4. m - 1 \in Nat /\ m \in Nat BY <2>2, <2>3
  <2>5. Defined(m - 1)
    <3> HIDE DEF Defined
    <3> QED BY <2>2, <2>4
  <2>6. PICK f : AddsUp(f, r, rule, m - 1, box) BY <2>5
  <2>7. /\ f[0] = [box |-> box, ids |-> <<>>]
        /\ \A k \in 1..(m - 1) : f[k] = AddAction(r, rule, rule.actions[k], f[k - 1])
    BY <2>4, <2>6, AddsUpSteps
  <2> DEFINE g == [k \in 0..m |-> IF k = m THEN AddAction(r, rule, rule.actions[m], f[m - 1])
                                  ELSE f[k]]
  <2>8. g = [k \in 0..m |-> g[k]] OBVIOUS
  <2>9. \A k \in 0..(m - 1) : g[k] = f[k] BY <2>4
  <2>10. g[m] = AddAction(r, rule, rule.actions[m], f[m - 1]) BY <2>4
  <2> HIDE DEF g
  <2>11. g[0] = f[0] BY <2>4, <2>9
  <2>12. ASSUME NEW k \in 1..m PROVE g[k] = AddAction(r, rule, rule.actions[k], g[k - 1])
    <3>1. g[k - 1] = f[k - 1] BY <2>4, <2>9
    <3>2. k # m => g[k] = f[k] /\ f[k] = AddAction(r, rule, rule.actions[k], f[k - 1])
      BY <2>4, <2>7, <2>9
    <3> QED BY <2>10, <3>1, <3>2
  <2>13. AddsUp(g, r, rule, m, box)
    <3>1. g[0] = [box |-> box, ids |-> <<>>] BY <2>7, <2>11
    <3> QED BY <2>4, <2>8, <2>12, <3>1, AddsUpSteps
  <2>14. Defined(m) BY <2>13
  <2> QED BY <2>2, <2>14
<1> DEFINE f == CHOOSE f : AddsUp(f, r, rule, n, box)
<1>2. AddActions(r, rule, n, box) = f[n] BY DEF AddActions, AddsUp
<1>3. AddsUp(f, r, rule, n, box) BY <1>1
<1> QED BY <1>2, <1>3

\* What the actions of a rule make of the outbox: it stays in order, only grows, and
\* the ids are of rows that carry the actions' keys.
Carried(r, rule, n, ids, box) ==
  /\ Len(ids) = n /\ DOMAIN ids = 1..n
  /\ \A j \in 1..n : /\ ids[j] \in DOMAIN box
                     /\ box[ids[j]].dedupe = DedupeKey(r, rule, rule.actions[j])
ActionsOK(r, rule, n, all, box) ==
  /\ BoxOK(all.box) /\ Grows(box, all.box)
  /\ \E S : all.ids \in Seq(S)
  /\ Carried(r, rule, n, all.ids, all.box)

LEMMA AddActionOK ==
  ASSUME InboxRows, NEW box, NEW r \in DOMAIN inbox, NEW rule \in Range(RulesFor(r)),
         NEW n \in Nat, NEW a, a = rule.actions[n + 1], a \in Range(rule.actions),
         NEW acc, ActionsOK(r, rule, n, acc, box)
  PROVE  ActionsOK(r, rule, n + 1, AddAction(r, rule, a, acc), box)
PROOF
<1> DEFINE e == EnqueueAction(acc.box, r, rule, a)
           all == [box |-> e.box, ids |-> Append(acc.ids, e.id)]
<1>1. AddAction(r, rule, a, acc) = all BY DEF AddAction
<1>2. /\ BoxOK(e.box) /\ Grows(acc.box, e.box)
      /\ e.id \in DOMAIN e.box /\ e.box[e.id].dedupe = DedupeKey(r, rule, a)
  BY EnqueueActionOK DEF ActionsOK
<1>3. Grows(box, e.box) BY <1>2 DEF ActionsOK, Grows
<1> HIDE DEF e
<1>4. PICK S : acc.ids \in Seq(S) BY DEF ActionsOK
<1> DEFINE T == S \cup {e.id}
<1>5. acc.ids \in Seq(T) /\ e.id \in T
  <2>1. S \subseteq T OBVIOUS
  <2> QED BY <2>1, <1>4, LargerSeq
<1> HIDE DEF T
<1>6. Append(acc.ids, e.id) \in Seq(T) BY <1>5
<1>7. Len(acc.ids) = n /\ DOMAIN acc.ids = 1..n BY DEF ActionsOK, Carried
<1>8. /\ Len(Append(acc.ids, e.id)) = n + 1 /\ DOMAIN Append(acc.ids, e.id) = 1..(n + 1)
      /\ Append(acc.ids, e.id)[n + 1] = e.id
      /\ \A j \in 1..n : Append(acc.ids, e.id)[j] = acc.ids[j]
  BY <1>5, <1>7
<1>9. \A j \in 1..n : /\ acc.ids[j] \in DOMAIN e.box
                      /\ e.box[acc.ids[j]].dedupe = DedupeKey(r, rule, rule.actions[j])
  BY <1>2 DEF ActionsOK, Carried, Grows
<1>10. Carried(r, rule, n + 1, all.ids, all.box)
  BY <1>2, <1>8, <1>9 DEF Carried
<1>11. all.ids \in Seq(T) BY <1>6
<1> QED BY <1>1, <1>2, <1>3, <1>10, <1>11 DEF ActionsOK

LEMMA AddActionsOK ==
  ASSUME InboxRows, NEW box, BoxOK(box),
         NEW r \in DOMAIN inbox, NEW rule \in Range(RulesFor(r))
  PROVE  ActionsOK(r, rule, Len(rule.actions), AddActions(r, rule, Len(rule.actions), box), box)
PROOF
<1> DEFINE n == Len(rule.actions)
<1>1. n \in Nat /\ DOMAIN rule.actions = 1..n BY RulesShape DEF Range
<1> HIDE DEF n
<1>2. PICK f : AddsUp(f, r, rule, n, box) /\ AddActions(r, rule, n, box) = f[n]
  BY <1>1, AddActionsUnfold
<1>6. /\ f[0] = [box |-> box, ids |-> <<>>]
      /\ \A k \in 1..n : f[k] = AddAction(r, rule, rule.actions[k], f[k - 1])
  BY <1>1, <1>2, AddsUpSteps
<1> DEFINE bad == {k \in 0..n : ~ActionsOK(r, rule, k, f[k], box)}
<1>3. ASSUME bad # {} PROVE FALSE
  <2>1. bad \subseteq Nat BY <1>1
  <2>2. PICK m \in bad : \A j \in bad : ~(j < m) BY <1>3, <2>1, Least
  <2>3. m # 0
    <3>1. f[0] = [box |-> box, ids |-> <<>>] BY <1>6
    <3>2. <<>> \in Seq({}) /\ Len(<<>>) = 0 /\ DOMAIN <<>> = 1..0 OBVIOUS
    <3>3. Carried(r, rule, 0, <<>>, box) BY <3>2 DEF Carried
    <3>4. ActionsOK(r, rule, 0, f[0], box) BY <3>1, <3>2, <3>3 DEF ActionsOK, Grows
    <3> QED BY <2>2, <3>4
  <2>4. m \in 1..n /\ m - 1 \in Nat /\ m - 1 \in 0..n BY <2>2, <2>3, <1>1
  <2>5. ActionsOK(r, rule, m - 1, f[m - 1], box) BY <2>2, <2>4, <1>1
  <2>6. f[m] = AddAction(r, rule, rule.actions[m], f[m - 1]) BY <1>6, <2>4
  <2>7. rule.actions[m] \in Range(rule.actions) BY <1>1, <2>4 DEF Range
  <2>8. (m - 1) + 1 = m BY <2>4
  <2>9. ActionsOK(r, rule, (m - 1) + 1, AddAction(r, rule, rule.actions[m], f[m - 1]), box)
    BY <2>4, <2>5, <2>7, <2>8, AddActionOK
  <2>10. ActionsOK(r, rule, m, f[m], box) BY <2>6, <2>8, <2>9
  <2> QED BY <2>2, <2>10
<1>4. n \in 0..n BY <1>1
<1>5. ActionsOK(r, rule, n, f[n], box) BY <1>3, <1>4
<1> QED BY <1>2, <1>5 DEF n

\* PlanRules(r, n), likewise.
PlansUp(f, r, n) ==
  f = [k \in 0..n |-> IF k = 0 THEN [box |-> outbox, ok |-> TRUE, traces |-> {}]
                      ELSE PlanRule(r, RulesFor(r)[k], f[k - 1])]

LEMMA PlansUpSteps ==
  ASSUME NEW f, NEW r, NEW n \in Nat
  PROVE  PlansUp(f, r, n) <=>
           /\ f = [k \in 0..n |-> f[k]]
           /\ f[0] = [box |-> outbox, ok |-> TRUE, traces |-> {}]
           /\ \A k \in 1..n : f[k] = PlanRule(r, RulesFor(r)[k], f[k - 1])
PROOF
<1> DEFINE h == [k \in 0..n |-> IF k = 0 THEN [box |-> outbox, ok |-> TRUE, traces |-> {}]
                                ELSE PlanRule(r, RulesFor(r)[k], f[k - 1])]
<1>1. /\ h = [k \in 0..n |-> h[k]] /\ h[0] = [box |-> outbox, ok |-> TRUE, traces |-> {}]
      /\ \A k \in 1..n : h[k] = PlanRule(r, RulesFor(r)[k], f[k - 1])
      /\ 0..n = {0} \cup 1..n
  OBVIOUS
<1>2. PlansUp(f, r, n) <=> f = h BY DEF PlansUp
<1> HIDE DEF h
<1>3. ASSUME f = [k \in 0..n |-> f[k]], \A k \in 0..n : f[k] = h[k] PROVE f = h
  BY <1>1, <1>3
<1> QED BY <1>1, <1>2, <1>3

LEMMA PlanRulesUnfold ==
  ASSUME NEW r, NEW n \in Nat
  PROVE  \E f : PlansUp(f, r, n) /\ PlanRules(r, n) = f[n]
PROOF
<1> DEFINE Defined(m) == \E f : PlansUp(f, r, m)
           bad == {m \in Nat : ~Defined(m)}
<1>1. Defined(n)
  <2>1. SUFFICES ASSUME bad # {} PROVE FALSE OBVIOUS
  <2>2. PICK m \in bad : \A j \in bad : ~(j < m) BY <2>1, Least
  <2>3. m # 0
    <3> DEFINE g == [k \in 0..0 |-> [box |-> outbox, ok |-> TRUE, traces |-> {}]]
    <3>1. g = [k \in 0..0 |-> g[k]] /\ g[0] = [box |-> outbox, ok |-> TRUE, traces |-> {}] OBVIOUS
    <3> HIDE DEF g
    <3>3. \A k \in 1..0 : g[k] = PlanRule(r, RulesFor(r)[k], g[k - 1]) OBVIOUS
    <3>4. PlansUp(g, r, 0) BY <3>1, <3>3, PlansUpSteps
    <3>2. Defined(0) BY <3>4
    <3> QED BY <2>2, <3>2
  <2>4. m - 1 \in Nat /\ m \in Nat BY <2>2, <2>3
  <2>5. Defined(m - 1)
    <3> HIDE DEF Defined
    <3> QED BY <2>2, <2>4
  <2>6. PICK f : PlansUp(f, r, m - 1) BY <2>5
  <2>7. /\ f[0] = [box |-> outbox, ok |-> TRUE, traces |-> {}]
        /\ \A k \in 1..(m - 1) : f[k] = PlanRule(r, RulesFor(r)[k], f[k - 1])
    BY <2>4, <2>6, PlansUpSteps
  <2> DEFINE g == [k \in 0..m |-> IF k = m THEN PlanRule(r, RulesFor(r)[m], f[m - 1])
                                  ELSE f[k]]
  <2>8. g = [k \in 0..m |-> g[k]] OBVIOUS
  <2>9. \A k \in 0..(m - 1) : g[k] = f[k] BY <2>4
  <2>10. g[m] = PlanRule(r, RulesFor(r)[m], f[m - 1]) BY <2>4
  <2> HIDE DEF g
  <2>11. g[0] = f[0] BY <2>4, <2>9
  <2>12. ASSUME NEW k \in 1..m PROVE g[k] = PlanRule(r, RulesFor(r)[k], g[k - 1])
    <3>1. g[k - 1] = f[k - 1] BY <2>4, <2>9
    <3>2. k # m => g[k] = f[k] /\ f[k] = PlanRule(r, RulesFor(r)[k], f[k - 1])
      BY <2>4, <2>7, <2>9
    <3> QED BY <2>10, <3>1, <3>2
  <2>15. g[0] = [box |-> outbox, ok |-> TRUE, traces |-> {}] BY <2>7, <2>11
  <2>16. \A k \in 1..m : g[k] = PlanRule(r, RulesFor(r)[k], g[k - 1]) BY <2>12
  <2>17. m \in Nat BY <2>4
  <2>13. PlansUp(g, r, m) BY <2>8, <2>15, <2>16, <2>17, PlansUpSteps, Zenon
  <2>14. Defined(m) BY <2>13
  <2> QED BY <2>2, <2>14
<1> DEFINE f == CHOOSE f : PlansUp(f, r, n)
<1>2. PlanRules(r, n) = f[n] BY DEF PlanRules, PlansUp
<1>3. PlansUp(f, r, n) BY <1>1
<1> QED BY <1>2, <1>3

\* What the first n rules make of an inbox row.
TraceFor(r, rule, t, acc) ==
  /\ t.rule = rule.id /\ \A u \in acc.traces : u.rule = rule.id => u = t
  /\ Carried(r, rule, Len(rule.actions), t.actions, acc.box)
PlansOK(r, n, acc) ==
  /\ BoxOK(acc.box) /\ Grows(outbox, acc.box)
  /\ \A t \in acc.traces :
       t.row = r /\ \E k \in 1..n : Fires(r, RulesFor(r)[k]) /\ t.rule = RulesFor(r)[k].id
  /\ \A k \in 1..n : Fires(r, RulesFor(r)[k]) =>
       \E t \in acc.traces : TraceFor(r, RulesFor(r)[k], t, acc)

LEMMA PlanRuleOK ==
  ASSUME InboxRows, NEW r \in DOMAIN inbox, NEW n \in Nat, n + 1 \in DOMAIN RulesFor(r),
         NEW acc, PlansOK(r, n, acc)
  PROVE  PlansOK(r, n + 1, PlanRule(r, RulesFor(r)[n + 1], acc))
PROOF
<1> DEFINE rule == RulesFor(r)[n + 1]
           all == AddActions(r, rule, Len(rule.actions), acc.box)
           t == [row |-> r, rule |-> rule.id, actions |-> all.ids]
           new == PlanRule(r, rule, acc)
<1>1. rule \in Range(RulesFor(r)) BY DEF Range
<1>2. 1..(n + 1) = 1..n \cup {n + 1} /\ n + 1 \notin 1..n OBVIOUS
<1>3. CASE ~Fires(r, rule)
  <2>1. new = acc BY <1>3 DEF PlanRule
  <2> HIDE DEF new
  <2>2. \A k \in 1..(n + 1) : Fires(r, RulesFor(r)[k]) => k \in 1..n BY <1>2, <1>3
  <2>3. PlansOK(r, n + 1, acc) BY <1>2, <2>2 DEF PlansOK
  <2> QED BY <2>1, <2>3 DEF new
<1>4. CASE Fires(r, rule)
  <2>1. new.box = all.box /\ new.traces = acc.traces \cup {t}
    BY <1>4 DEF PlanRule, ApplyRule
  <2>2. ActionsOK(r, rule, Len(rule.actions), all, acc.box)
    BY <1>1, AddActionsOK DEF PlansOK
  <2>3. t.row = r /\ t.rule = rule.id /\ t.actions = all.ids OBVIOUS
  <2> HIDE DEF new, t, all
  <2>4. BoxOK(new.box) /\ Grows(acc.box, new.box) BY <2>1, <2>2 DEF ActionsOK
  <2>5. Grows(outbox, new.box) BY <2>4 DEF Grows, PlansOK
  <2>6. \A u \in acc.traces : u.rule # rule.id
    <3>1. SUFFICES ASSUME NEW u \in acc.traces, u.rule = rule.id PROVE FALSE OBVIOUS
    <3>2. PICK k \in 1..n : u.rule = RulesFor(r)[k].id BY DEF PlansOK
    <3>3. k \in DOMAIN RulesFor(r) BY RulesShape
    <3>4. k = n + 1 BY <3>1, <3>2, <3>3, RulesShape
    <3> QED BY <3>4
  <2>7. \A u \in new.traces :
          u.row = r /\ \E k \in 1..(n + 1) : Fires(r, RulesFor(r)[k]) /\ u.rule = RulesFor(r)[k].id
    BY <1>2, <1>4, <2>1, <2>3 DEF PlansOK
  <2>8. TraceFor(r, rule, t, new) BY <2>1, <2>2, <2>3, <2>6 DEF TraceFor, ActionsOK
  <2>9. ASSUME NEW k \in 1..n, Fires(r, RulesFor(r)[k])
        PROVE  \E u \in new.traces : TraceFor(r, RulesFor(r)[k], u, new)
    <3>1. PICK u \in acc.traces : TraceFor(r, RulesFor(r)[k], u, acc) BY <2>9 DEF PlansOK
    <3>2. RulesFor(r)[k].id # rule.id BY <2>6, <3>1 DEF TraceFor
    <3>3. Carried(r, RulesFor(r)[k], Len(RulesFor(r)[k].actions), u.actions, new.box)
      BY <2>4, <3>1 DEF TraceFor, Carried, Grows
    <3>4. TraceFor(r, RulesFor(r)[k], u, new) BY <2>1, <2>3, <3>1, <3>2, <3>3 DEF TraceFor
    <3> QED BY <2>1, <3>4
  <2>10. \A k \in 1..(n + 1) : Fires(r, RulesFor(r)[k]) =>
           \E u \in new.traces : TraceFor(r, RulesFor(r)[k], u, new)
    BY <1>2, <2>1, <2>8, <2>9
  <2>11. PlansOK(r, n + 1, new) BY <2>4, <2>5, <2>7, <2>10 DEF PlansOK
  <2> QED BY <2>11 DEF new
<1> QED BY <1>3, <1>4

LEMMA PlanAllOK ==
  ASSUME InboxRows, BoxOK(outbox), NEW r \in DOMAIN inbox
  PROVE  PlansOK(r, Len(RulesFor(r)), PlanAll(r))
PROOF
<1> DEFINE n == Len(RulesFor(r))
<1>1. n \in Nat /\ DOMAIN RulesFor(r) = 1..n BY RulesShape
<1>0. PlanAll(r) = PlanRules(r, n) BY DEF PlanAll
<1> HIDE DEF n
<1>2. PICK f : PlansUp(f, r, n) /\ PlanRules(r, n) = f[n]
  BY <1>1, PlanRulesUnfold
<1>7. n \in Nat BY <1>1
<1>8. PlansUp(f, r, n) BY <1>2
<1>6. /\ f[0] = [box |-> outbox, ok |-> TRUE, traces |-> {}]
      /\ \A k \in 1..n : f[k] = PlanRule(r, RulesFor(r)[k], f[k - 1])
  <2> HIDE <1>1, <1>2
  <2> QED BY <1>7, <1>8, PlansUpSteps
<1> DEFINE bad == {k \in 0..n : ~PlansOK(r, k, f[k])}
<1>3. ASSUME bad # {} PROVE FALSE
  <2>1. bad \subseteq Nat BY <1>1
  <2>2. PICK m \in bad : \A j \in bad : ~(j < m) BY <1>3, <2>1, Least
  <2>3. m # 0
    <3>1. f[0].box = outbox /\ f[0].traces = {} BY <1>6
    <3>2. PlansOK(r, 0, f[0]) BY <3>1 DEF PlansOK, Grows
    <3> QED BY <2>2, <3>2
  <2>4. m \in 1..n /\ m - 1 \in Nat /\ m - 1 \in 0..n /\ (m - 1) + 1 = m
    BY <2>2, <2>3, <1>1
  <2>5. PlansOK(r, m - 1, f[m - 1]) BY <2>2, <2>4, <1>1
  <2>6. f[m] = PlanRule(r, RulesFor(r)[m], f[m - 1]) BY <1>6, <2>4
  <2>7. (m - 1) + 1 \in DOMAIN RulesFor(r) BY <1>1, <2>4
  <2>8. PlansOK(r, (m - 1) + 1, PlanRule(r, RulesFor(r)[(m - 1) + 1], f[m - 1]))
    BY <2>4, <2>5, <2>7, PlanRuleOK
  <2>9. PlansOK(r, m, f[m]) BY <2>4, <2>6, <2>8
  <2> QED BY <2>2, <2>9
<1>4. n \in 0..n BY <1>1
<1>5. PlansOK(r, n, f[n]) BY <1>3, <1>4
<1> QED BY <1>0, <1>2, <1>5 DEF n

-----------------------------------------------------------------------------
(* Steps.  The event of an inbox row never changes, and so nor do the rules *)
(* it is put to and the keys of what they ask for.                         *)

EventsKept ==
  /\ DOMAIN inbox \subseteq DOMAIN inbox'
  /\ \A r \in DOMAIN inbox : inbox'[r].event = inbox[r].event

LEMMA KeysKept ==
  ASSUME EventsKept, NEW r \in DOMAIN inbox
  PROVE  /\ RulesFor(r)' = RulesFor(r)
         /\ \A rule : Fires(r, rule)' <=> Fires(r, rule)
         /\ \A rule, a : /\ DedupeKey(r, rule, a)' = DedupeKey(r, rule, a)
                         /\ ProducerKey(r, rule, a)' = ProducerKey(r, rule, a)
PROOF
<1>1. inbox'[r].event = inbox[r].event BY DEF EventsKept
<1>2. IsExternal(r)' = IsExternal(r) BY <1>1 DEF IsExternal
<1>3. RulesFor(r)' = RulesFor(r) BY <1>2 DEF RulesFor
<1>4. \A rule : Fires(r, rule)' <=> Fires(r, rule) BY <1>1, <1>2 DEF Fires
<1>5. \A rule, a : DedupeKey(r, rule, a)' = DedupeKey(r, rule, a) BY <1>1 DEF DedupeKey
<1>6. \A rule, a : ProducerKey(r, rule, a)' = ProducerKey(r, rule, a)
  BY <1>5 DEF ProducerKey
<1> QED BY <1>3, <1>4, <1>5, <1>6

\* Rows that only change their status, session or label keep the outbox in order.
LEMMA BoxKept ==
  ASSUME InboxRows, EventsKept, NEW box, BoxOK(box), NEW K, outbox' \in Seq(OutboxRow(K)),
         DOMAIN outbox' = DOMAIN box,
         \A i \in DOMAIN box : /\ outbox'[i].producer = box[i].producer
                               /\ outbox'[i].dedupe = box[i].dedupe
                               /\ outbox'[i].kind = box[i].kind
  PROVE  BoxOK(outbox)'
PROOF
<1>1. ASSUME NEW i \in DOMAIN box PROVE ByRule(outbox[i])' \/ ByWorkflow(outbox[i])'
  <2>1. CASE ByRule(box[i])
    <3>1. PICK r \in DOMAIN inbox :
            \E rule \in Range(RulesFor(r)) : \E a \in Range(rule.actions) : MadeFor(box[i], r, rule, a)
      BY <2>1 DEF ByRule
    <3>2. PICK rule \in Range(RulesFor(r)) : \E a \in Range(rule.actions) : MadeFor(box[i], r, rule, a)
      BY <3>1
    <3>3. PICK a \in Range(rule.actions) : MadeFor(box[i], r, rule, a) BY <3>2
    <3>4. /\ outbox'[i].producer = ProducerKey(r, rule, a)' /\ outbox'[i].kind = a.kind
          /\ outbox'[i].dedupe = DedupeKey(r, rule, a)'
      BY <3>3, KeysKept DEF MadeFor
    <3>5. rule \in Range(RulesFor(r))' BY KeysKept DEF Range
    <3>6. r \in DOMAIN inbox' BY DEF EventsKept
    <3> QED BY <3>4, <3>5, <3>6 DEF ByRule, MadeFor
  <2>2. CASE ByWorkflow(box[i])
    BY <2>2 DEF ByWorkflow, EventsKept
  <2> QED BY <2>1, <2>2 DEF BoxOK
<1>2. ASSUME NEW i \in DOMAIN box, NEW j \in DOMAIN box, ~IsReview(outbox[i])',
             outbox'[i].dedupe = outbox'[j].dedupe
      PROVE  i = j
  <2>1. ~IsReview(box[i]) BY <1>2 DEF IsReview
  <2> QED BY <1>2, <2>1 DEF BoxOK
<1> QED BY <1>1, <1>2 DEF BoxOK

KeysGrow ==
  \A i \in DOMAIN outbox : i \in DOMAIN outbox' /\ outbox'[i].dedupe = outbox[i].dedupe

\* A processed row stays planned while its traces and their rows stay.
LEMMA PlannedKept ==
  ASSUME InboxRows, EventsKept, KeysGrow, NEW r \in DOMAIN inbox, Planned(r),
         \A m \in matches \cup matches' : m.row = r => m \in matches /\ m \in matches'
  PROVE  Planned(r)'
PROOF
<1>1. RulesFor(r)' = RulesFor(r) BY KeysKept
<1>2. SUFFICES ASSUME NEW k \in DOMAIN RulesFor(r), NEW rule, rule = RulesFor(r)[k]
      PROVE  IF Fires(r, rule)' THEN \E m \in matches' : TraceOf(r, rule)' = {m} /\ Carries(m, rule)'
             ELSE TraceOf(r, rule)' = {}
  BY <1>1 DEF Planned
<1>3. TraceOf(r, rule)' = TraceOf(r, rule) BY DEF TraceOf
<1>4. CASE Fires(r, rule)
  <2>1. PICK m \in matches : TraceOf(r, rule) = {m} /\ Carries(m, rule)
    BY <1>2, <1>4 DEF Planned
  <2>2. m \in matches' /\ m.row = r BY <2>1 DEF TraceOf
  <2>3. \A j \in DOMAIN m.actions :
          DedupeKey(m.row, rule, rule.actions[j])' = DedupeKey(m.row, rule, rule.actions[j])
    BY <2>2, KeysKept
  <2>4. Carries(m, rule)' BY <2>1, <2>3 DEF Carries, KeysGrow
  <2>5. Fires(r, rule)' BY <1>4, KeysKept
  <2> QED BY <1>3, <2>1, <2>2, <2>4, <2>5
<1>5. CASE ~Fires(r, rule)
  <2>1. TraceOf(r, rule) = {} BY <1>2, <1>5 DEF Planned
  <2>2. ~Fires(r, rule)' BY <1>5, KeysKept
  <2> QED BY <1>3, <2>1, <2>2
<1> QED BY <1>4, <1>5

\* ReceivedIds(n), likewise: f[t] is what the first t rows give.
FetchesUp(f, n, t) == f = [k \in 0..t |-> IF k = 0 THEN <<>> ELSE Fetch(k, n, f[k - 1])]

LEMMA FetchesUpSteps ==
  ASSUME NEW f, NEW n, NEW t \in Nat
  PROVE  FetchesUp(f, n, t) <=>
           /\ f = [k \in 0..t |-> f[k]]
           /\ f[0] = <<>>
           /\ \A k \in 1..t : f[k] = Fetch(k, n, f[k - 1])
PROOF
<1> DEFINE h == [k \in 0..t |-> IF k = 0 THEN <<>>
                                ELSE Fetch(k, n, f[k - 1])]
<1>1. /\ h = [k \in 0..t |-> h[k]] /\ h[0] = <<>>
      /\ \A k \in 1..t : h[k] = Fetch(k, n, f[k - 1])
      /\ 0..t = {0} \cup 1..t
  OBVIOUS
<1>2. FetchesUp(f, n, t) <=> f = h BY DEF FetchesUp
<1> HIDE DEF h
<1>3. ASSUME f = [k \in 0..t |-> f[k]], \A k \in 0..t : f[k] = h[k] PROVE f = h
  BY <1>1, <1>3
<1> QED BY <1>1, <1>2, <1>3

LEMMA ReceivedUnfold ==
  ASSUME NEW n, Len(inbox) \in Nat
  PROVE  \E f : FetchesUp(f, n, Len(inbox)) /\ ReceivedIds(n) = f[Len(inbox)]
PROOF
<1> DEFINE Defined(m) == \E f : FetchesUp(f, n, m)
           bad == {m \in Nat : ~Defined(m)}
<1>1. Defined(Len(inbox))
  <2>1. SUFFICES ASSUME bad # {} PROVE FALSE OBVIOUS
  <2>2. PICK m \in bad : \A j \in bad : ~(j < m) BY <2>1, Least
  <2>3. m # 0
    <3> DEFINE g == [k \in 0..0 |-> <<>>]
    <3>1. g = [k \in 0..0 |-> g[k]] /\ g[0] = <<>> OBVIOUS
    <3> HIDE DEF g
    <3>3. \A k \in 1..0 : g[k] = Fetch(k, n, g[k - 1]) OBVIOUS
    <3>4. FetchesUp(g, n, 0) BY <3>1, <3>3, FetchesUpSteps
    <3>2. Defined(0) BY <3>4
    <3> QED BY <2>2, <3>2
  <2>4. m - 1 \in Nat /\ m \in Nat BY <2>2, <2>3
  <2>5. Defined(m - 1)
    <3> HIDE DEF Defined
    <3> QED BY <2>2, <2>4
  <2>6. PICK f : FetchesUp(f, n, m - 1) BY <2>5
  <2>7. /\ f[0] = <<>>
        /\ \A k \in 1..(m - 1) : f[k] = Fetch(k, n, f[k - 1])
    BY <2>4, <2>6, FetchesUpSteps
  <2> DEFINE g == [k \in 0..m |-> IF k = m THEN Fetch(m, n, f[m - 1])
                                  ELSE f[k]]
  <2>8. g = [k \in 0..m |-> g[k]] OBVIOUS
  <2>9. \A k \in 0..(m - 1) : g[k] = f[k] BY <2>4
  <2>10. g[m] = Fetch(m, n, f[m - 1]) BY <2>4
  <2> HIDE DEF g
  <2>11. g[0] = f[0] BY <2>4, <2>9
  <2>12. ASSUME NEW k \in 1..m PROVE g[k] = Fetch(k, n, g[k - 1])
    <3>1. g[k - 1] = f[k - 1] BY <2>4, <2>9
    <3>2. k # m => g[k] = f[k] /\ f[k] = Fetch(k, n, f[k - 1])
      BY <2>4, <2>7, <2>9
    <3> QED BY <2>10, <3>1, <3>2
  <2>15. g[0] = <<>> BY <2>7, <2>11
  <2>16. \A k \in 1..m : g[k] = Fetch(k, n, g[k - 1]) BY <2>12
  <2>17. m \in Nat BY <2>4
  <2>13. FetchesUp(g, n, m) BY <2>8, <2>15, <2>16, <2>17, FetchesUpSteps, Zenon
  <2>14. Defined(m) BY <2>13
  <2> QED BY <2>2, <2>14
<1> DEFINE f == CHOOSE f : FetchesUp(f, n, Len(inbox))
<1>2. ReceivedIds(n) = f[Len(inbox)] BY DEF ReceivedIds, FetchesUp
<1>3. FetchesUp(f, n, Len(inbox)) BY <1>1
<1> QED BY <1>2, <1>3

\* The page holds received rows, each once, and not too many.
FetchOK(ids, n, t) ==
  /\ ids \in Seq(1..t) /\ Len(ids) <= n
  /\ \A k \in DOMAIN ids : inbox[ids[k]].status = "received"
  /\ \A j, k \in DOMAIN ids : ids[j] = ids[k] => j = k

LEMMA ReceivedOK ==
  ASSUME InboxRows, NEW n \in Nat
  PROVE  FetchOK(ReceivedIds(n), n, Len(inbox))
PROOF
<1> DEFINE t == Len(inbox)
<1>1. t \in Nat BY DEF InboxRows
<1>2. PICK f : FetchesUp(f, n, t) /\ ReceivedIds(n) = f[t] BY <1>1, ReceivedUnfold
<1> HIDE DEF t
<1>3. f[0] = <<>> /\ \A k \in 1..t : f[k] = Fetch(k, n, f[k - 1])
  BY <1>1, <1>2, FetchesUpSteps
<1> DEFINE bad == {k \in 0..t : ~FetchOK(f[k], n, k)}
<1>4. ASSUME bad # {} PROVE FALSE
  <2>1. bad \subseteq Nat BY <1>1
  <2>2. PICK m \in bad : \A j \in bad : ~(j < m) BY <1>4, <2>1, Least
  <2>3. m # 0
    <3>1. FetchOK(f[0], n, 0) BY <1>3 DEF FetchOK
    <3> QED BY <2>2, <3>1
  <2>4. m \in 1..t /\ m - 1 \in Nat /\ m - 1 \in 0..t BY <2>2, <2>3, <1>1
  <2> DEFINE ids == f[m - 1]
  <2>5. FetchOK(ids, n, m - 1) BY <2>2, <2>4, <1>1
  <2>6. f[m] = Fetch(m, n, ids) BY <1>3, <2>4
  <2> HIDE DEF ids
  <2>7. /\ ids \in Seq(1..m) /\ Len(ids) \in Nat /\ DOMAIN ids = 1..Len(ids)
        /\ \A k \in DOMAIN ids : ids[k] # m
    <3>1. ids \in Seq(1..(m - 1)) BY <2>5 DEF FetchOK
    <3>2. 1..(m - 1) \subseteq 1..m BY <2>4
    <3>3. ids \in Seq(1..m) BY <3>1, <3>2, LargerSeq
    <3>4. \A k \in DOMAIN ids : ids[k] \in 1..(m - 1) BY <3>1
    <3> QED BY <3>1, <3>3, <3>4, <2>4
  <2>8. CASE inbox[m].status = "received" /\ Len(ids) < n
    <3> DEFINE new == Append(ids, m)
    <3>1. m \in 1..m BY <2>4
    <3>2. /\ new \in Seq(1..m) /\ Len(new) = Len(ids) + 1 /\ DOMAIN new = DOMAIN ids \cup {Len(ids) + 1}
          /\ new[Len(ids) + 1] = m /\ \A k \in DOMAIN ids : new[k] = ids[k]
      BY <2>7, <3>1
    <3> HIDE DEF new
    <3>3. FetchOK(new, n, m) BY <2>5, <2>7, <2>8, <3>2 DEF FetchOK
    <3>4. f[m] = new BY <2>6, <2>8 DEF Fetch, new
    <3> QED BY <2>2, <3>3, <3>4
  <2>9. CASE ~(inbox[m].status = "received" /\ Len(ids) < n)
    <3>1. f[m] = ids BY <2>6, <2>9 DEF Fetch
    <3>2. FetchOK(ids, n, m) BY <2>5, <2>7 DEF FetchOK
    <3> QED BY <2>2, <3>1, <3>2
  <2> QED BY <2>8, <2>9
<1>5. FetchOK(f[t], n, t) BY <1>1, <1>4
<1> QED BY <1>2, <1>5 DEF t

-----------------------------------------------------------------------------
(* The steps of the inbox.                                                 *)

\* The worker's page: received rows, each once, and one of them while the worker
\* is at one.
PageReceived ==
  /\ page \in Seq(DOMAIN inbox) /\ Len(page) <= PageLimit
  /\ \A k \in DOMAIN page : inbox[page[k]].status = "received"
  /\ \A j, k \in DOMAIN page : page[j] = page[k] => j = k
  /\ ipc \in {"refeed", "commit"} => page # <<>>
InboxTypes ==
  /\ InboxRows
  /\ \A m \in matches : m.row \in DOMAIN inbox
  /\ ipc \in {"down", "read", "parking", "park", "load", "refeed", "commit"}
  /\ ingress \subseteq DOMAIN inbox /\ gated \in BOOLEAN /\ inboxWake \in BOOLEAN
InboxInv == InboxTypes /\ BoxOK(outbox) /\ PageReceived /\ PlansWhole

LEMMA InboxTypesTogether == InboxTypes /\ BoxOK(outbox) /\ PageReceived => InboxTypeOK
PROOF
<1> SUFFICES ASSUME InboxTypes, BoxOK(outbox), PageReceived PROVE InboxTypeOK OBVIOUS
<1>1. PICK K : outbox \in Seq(OutboxRow(K)) BY DEF BoxOK
<1>2. \A i \in DOMAIN outbox : /\ outbox[i].status \in {"pending", "blocked", "done", "dead"}
                               /\ outbox[i].session \in {"none", "running", "done", "failed"}
  <2>1. \A i \in DOMAIN outbox : outbox[i] \in OutboxRow(K) BY <1>1
  <2> QED BY <2>1 DEF OutboxRow
<1> QED BY <1>2 DEF InboxTypeOK, InboxTypes, InboxRows, PageReceived

\* One row gets another status.
LEMMA SetStatusOK ==
  ASSUME InboxRows, NEW r \in DOMAIN inbox, NEW st \in RowStatus, SetStatus(r, st)
  PROVE  /\ InboxRows' /\ EventsKept /\ DOMAIN inbox' = DOMAIN inbox
         /\ inbox'[r].status = st /\ \A q \in DOMAIN inbox : q # r => inbox'[q] = inbox[q]
PROOF
<1> DEFINE Entry == [event : Event, status : RowStatus]
           row == [inbox[r] EXCEPT !.status = st]
<1>1. inbox \in Seq(Entry) BY DEF InboxRows
<1>2. inbox[r] \in Entry
  <2> HIDE DEF Entry
  <2> QED BY <1>1
<1>3. row \in Entry /\ row.status = st /\ row.event = inbox[r].event BY <1>2
<1>4. inbox' = [inbox EXCEPT ![r] = row] BY DEF SetStatus
<1> HIDE DEF Entry, row
<1>5. inbox' \in Seq(Entry) BY <1>1, <1>3, <1>4
<1>6. /\ DOMAIN inbox' = DOMAIN inbox /\ inbox'[r] = row
      /\ \A q \in DOMAIN inbox : q # r => inbox'[q] = inbox[q]
  BY <1>1, <1>4
<1>7. EventsKept BY <1>3, <1>6 DEF EventsKept
<1>8. InboxRows' BY <1>5 DEF InboxRows, Entry
<1> QED BY <1>3, <1>6, <1>7, <1>8

\* A new row, and finished ones dropped with their traces.
LEMMA InsertOK ==
  ASSUME InboxRows, NEW e \in Event, InsertDedup(e)
  PROVE  /\ InboxRows' /\ EventsKept
         /\ Len(inbox) + 1 \in DOMAIN inbox' /\ DOMAIN inbox' = DOMAIN inbox \cup {Len(inbox) + 1}
         /\ inbox'[Len(inbox) + 1].status = "received" /\ Len(inbox) + 1 \notin DOMAIN inbox
         /\ \A r \in DOMAIN inbox :
              \/ /\ inbox'[r].status = inbox[r].status
                 /\ \A m \in matches : m.row = r => m \in matches'
              \/ /\ inbox[r].status \in {"processed", "failed"} /\ inbox'[r].status = "pruned"
                 /\ \A m \in matches' : m.row # r
         /\ matches' \subseteq matches
         /\ ingress' = ingress \cup {Len(inbox) + 1}
PROOF
<1> DEFINE row == [event |-> e, status |-> "received"]
           rows == Append(inbox, row)
           n == Len(inbox)
           Entry == [event : Event, status : RowStatus]
<1>1. row \in Entry BY DEF RowStatus
<1>2. inbox \in Seq(Entry) BY DEF InboxRows
<1>3. row.event = e /\ row.status = "received" OBVIOUS
<1> HIDE DEF row, Entry
<1>4. /\ rows \in Seq(Entry) /\ n \in Nat /\ DOMAIN inbox = 1..n /\ Len(rows) = n + 1
      /\ DOMAIN rows = 1..(n + 1) /\ rows[n + 1] = row /\ \A r \in DOMAIN inbox : rows[r] = inbox[r]
  BY <1>1, <1>2
<1>5. /\ inbox' = [r \in DOMAIN rows |-> IF r \in Pruned(rows) THEN [rows[r] EXCEPT !.status = "pruned"]
                                         ELSE rows[r]]
      /\ matches' = {m \in matches : m.row \notin Pruned(rows)}
      /\ ingress' = ingress \cup {Len(rows)}
  BY DEF InsertDedup, row
<1> HIDE DEF rows, n
<1>6. \A r \in Pruned(rows) : r \in DOMAIN rows /\ rows[r].status \in {"processed", "failed"}
  BY DEF Pruned, Prunable
<1>7. n + 1 \notin Pruned(rows) BY <1>3, <1>4, <1>6
<1>8. \A r \in DOMAIN rows : rows[r] \in Entry BY <1>4
<1>9. ASSUME NEW r \in DOMAIN rows
      PROVE  /\ inbox'[r] \in Entry /\ inbox'[r].event = rows[r].event
             /\ inbox'[r].status = IF r \in Pruned(rows) THEN "pruned" ELSE rows[r].status
  BY <1>5, <1>8 DEF Entry, RowStatus
<1>10. inbox' \in Seq(Entry)
  <2>1. inbox' = [r \in 1..(n + 1) |-> inbox'[r]] BY <1>4, <1>5
  <2> QED BY <1>4, <1>9, <2>1
<1>11. DOMAIN inbox' = 1..(n + 1) BY <1>4, <1>5
<1>12. /\ n + 1 \in DOMAIN inbox' /\ DOMAIN inbox' = DOMAIN inbox \cup {n + 1}
       /\ n + 1 \notin DOMAIN inbox
  BY <1>4, <1>11
<1>13. inbox'[n + 1].status = "received" BY <1>3, <1>4, <1>7, <1>9
<1>14. EventsKept BY <1>4, <1>9, <1>12 DEF EventsKept
<1>15. InboxRows' BY <1>10 DEF InboxRows, Entry
<1>16. ASSUME NEW r \in DOMAIN inbox
       PROVE  \/ /\ inbox'[r].status = inbox[r].status
                 /\ \A m \in matches : m.row = r => m \in matches'
              \/ /\ inbox[r].status \in {"processed", "failed"} /\ inbox'[r].status = "pruned"
                 /\ \A m \in matches' : m.row # r
  <2>1. r \in DOMAIN rows /\ rows[r] = inbox[r] BY <1>4
  <2> QED BY <1>5, <1>6, <1>9, <2>1
<1>17. ingress' = ingress \cup {n + 1} /\ matches' \subseteq matches BY <1>4, <1>5
<1> QED BY <1>12, <1>13, <1>14, <1>15, <1>16, <1>17 DEF n

\* The page without its head.
LEMMA TailOK ==
  ASSUME InboxRows, PageReceived, page # <<>>
  PROVE  /\ Head(page) \in DOMAIN inbox /\ inbox[Head(page)].status = "received"
         /\ Tail(page) \in Seq(DOMAIN inbox) /\ Len(Tail(page)) <= PageLimit
         /\ \A k \in DOMAIN Tail(page) : /\ inbox[Tail(page)[k]].status = "received"
                                         /\ Tail(page)[k] # Head(page)
         /\ \A j, k \in DOMAIN Tail(page) : Tail(page)[j] = Tail(page)[k] => j = k
PROOF
<1> DEFINE D == DOMAIN inbox
<1>1. page \in Seq(D) /\ Len(page) <= PageLimit BY DEF PageReceived
<1> HIDE DEF D
<1>2. /\ Len(page) \in Nat \ {0} /\ DOMAIN page = 1..Len(page)
      /\ Head(page) = page[1] /\ Head(page) \in D
      /\ Tail(page) \in Seq(D) /\ Len(Tail(page)) = Len(page) - 1
      /\ DOMAIN Tail(page) = 1..(Len(page) - 1)
      /\ \A k \in 1..(Len(page) - 1) : Tail(page)[k] = page[k + 1]
  BY <1>1
<1>3. PageLimit \in Nat BY PageAssumption
<1>4. Len(Tail(page)) <= PageLimit BY <1>1, <1>2, <1>3
<1>5. 1 \in DOMAIN page /\ \A k \in DOMAIN Tail(page) : k + 1 \in DOMAIN page /\ k + 1 # 1
  BY <1>2
<1>6. inbox[Head(page)].status = "received" BY <1>2, <1>5 DEF PageReceived
<1>7. \A k \in DOMAIN Tail(page) : /\ inbox[Tail(page)[k]].status = "received"
                                   /\ Tail(page)[k] # Head(page)
  BY <1>2, <1>5 DEF PageReceived
<1>8. ASSUME NEW j \in DOMAIN Tail(page), NEW k \in DOMAIN Tail(page), Tail(page)[j] = Tail(page)[k]
      PROVE  j = k
  <2>1. j + 1 = k + 1 BY <1>2, <1>5, <1>8 DEF PageReceived
  <2> QED BY <2>1, <1>2
<1> QED BY <1>2, <1>4, <1>6, <1>7, <1>8 DEF D

\* A page that is left alone stays good while its rows stay received.
LEMMA PageKept ==
  ASSUME PageReceived, EventsKept, UNCHANGED page, ipc' \in {"refeed", "commit"} => page # <<>>,
         \A r \in DOMAIN inbox : inbox[r].status = "received" => inbox'[r].status = "received"
  PROVE  PageReceived'
PROOF
<1> DEFINE D == DOMAIN inbox
           E == DOMAIN inbox'
<1>1. page \in Seq(D) /\ \A k \in DOMAIN page : page[k] \in D BY DEF PageReceived
<1>2. D \subseteq E BY DEF EventsKept
<1>3. page \in Seq(E) BY <1>1, <1>2, LargerSeq
<1> QED BY <1>1, <1>3 DEF PageReceived

\* A page without its head, which nothing else is at.
LEMMA PageTail ==
  ASSUME InboxRows, PageReceived, page # <<>>, DOMAIN inbox' = DOMAIN inbox,
         page' = Tail(page), ipc' = "load",
         \A r \in DOMAIN inbox : r # Head(page) => inbox'[r] = inbox[r]
  PROVE  PageReceived'
PROOF
<1>1. \A k \in DOMAIN Tail(page) : Tail(page)[k] \in DOMAIN inbox
  <2> DEFINE D == DOMAIN inbox
             tail == Tail(page)
  <2>1. tail \in Seq(D) BY TailOK
  <2> HIDE DEF D, tail
  <2>2. \A k \in DOMAIN tail : tail[k] \in D BY <2>1
  <2> QED BY <2>2 DEF D, tail
<1>2. \A k \in DOMAIN Tail(page) : inbox'[Tail(page)[k]].status = "received" BY <1>1, TailOK
<1>3. Tail(page) \in Seq(DOMAIN inbox') /\ Len(Tail(page)) <= PageLimit
  BY TailOK
<1> QED BY <1>2, <1>3, TailOK DEF PageReceived

\* A step that plans nothing: what was planned stays, what was not stays without traces.
LEMMA WholeKept ==
  ASSUME InboxRows, PlansWhole, EventsKept, KeysGrow, matches' \subseteq matches,
         \A r \in DOMAIN inbox' :
           IF inbox'[r].status = "processed"
           THEN /\ r \in DOMAIN inbox /\ inbox[r].status = "processed"
                /\ \A m \in matches : m.row = r => m \in matches'
           ELSE (r \in DOMAIN inbox /\ inbox[r].status # "processed") \/ \A m \in matches' : m.row # r
  PROVE  PlansWhole'
PROOF
<1> SUFFICES ASSUME NEW r \in DOMAIN inbox'
             PROVE  IF inbox'[r].status = "processed" THEN Planned(r)'
                    ELSE \A m \in matches' : m.row # r
  BY DEF PlansWhole
<1>1. CASE inbox'[r].status = "processed"
  <2>1. r \in DOMAIN inbox /\ Planned(r) BY <1>1 DEF PlansWhole
  <2>2. Planned(r)' BY <1>1, <2>1, PlannedKept
  <2> QED BY <1>1, <2>2
<1>2. CASE inbox'[r].status # "processed"
  BY <1>2 DEF PlansWhole
<1> QED BY <1>1, <1>2

\* A step of the worker or of a request that writes to no table.
LEMMA QuietStep ==
  ASSUME InboxInv, UNCHANGED <<inbox, outbox, matches>>, PageReceived',
         ipc' \in {"down", "read", "parking", "park", "load", "refeed", "commit"},
         ingress' \subseteq DOMAIN inbox, gated' \in BOOLEAN, inboxWake' \in BOOLEAN
  PROVE  InboxInv'
PROOF
<1>1. EventsKept /\ KeysGrow BY DEF EventsKept, KeysGrow
<1>2. InboxTypes' BY DEF InboxInv, InboxTypes, InboxRows
<1>3. PICK K : outbox' \in Seq(OutboxRow(K)) BY DEF InboxInv, BoxOK
<1>4. BoxOK(outbox)' BY <1>1, <1>3, BoxKept DEF InboxInv, InboxTypes
<1>5. PlansWhole' BY <1>1, WholeKept DEF InboxInv, InboxTypes
<1> QED BY <1>2, <1>4, <1>5 DEF InboxInv

\* A step that only changes the status, session or label of outbox rows.
LEMMA RowStep ==
  ASSUME InboxInv, UNCHANGED <<inbox, matches, ipc, page, gated, inboxWake, ingress>>,
         NEW i \in DOMAIN outbox, NEW row, outbox' = [outbox EXCEPT ![i] = row],
         \A K : outbox[i] \in OutboxRow(K) => row \in OutboxRow(K),
         row.producer = outbox[i].producer, row.dedupe = outbox[i].dedupe, row.kind = outbox[i].kind
  PROVE  InboxInv'
PROOF
<1>1. PICK K : outbox \in Seq(OutboxRow(K)) BY DEF InboxInv, BoxOK
<1>2. outbox[i] \in OutboxRow(K) BY <1>1
<1>3. row \in OutboxRow(K) BY <1>2
<1>4. /\ outbox' \in Seq(OutboxRow(K)) /\ DOMAIN outbox' = DOMAIN outbox
      /\ \A j \in DOMAIN outbox : /\ outbox'[j].producer = outbox[j].producer
                                  /\ outbox'[j].dedupe = outbox[j].dedupe
                                  /\ outbox'[j].kind = outbox[j].kind
  <2>1. outbox' \in Seq(OutboxRow(K)) BY <1>1, <1>3
  <2> QED BY <2>1
<1>5. EventsKept /\ KeysGrow BY <1>4 DEF EventsKept, KeysGrow
<1>6. InboxTypes' BY DEF InboxInv, InboxTypes, InboxRows
<1>7. BoxOK(outbox)' BY <1>4, <1>5, BoxKept DEF InboxInv, InboxTypes
<1>8. PlansWhole' BY <1>5, WholeKept DEF InboxInv, InboxTypes
<1>9. PageReceived' BY DEF InboxInv, PageReceived
<1> QED BY <1>6, <1>7, <1>8, <1>9 DEF InboxInv

LEMMA DeliverStep ==
  ASSUME InboxInv, NEW e \in Event, Deliver(e)
  PROVE  InboxInv'
PROOF
<1>1. CASE InsertDedup(e)
  <2>1. UNCHANGED <<outbox, ipc, page, gated, inboxWake>> BY DEF Deliver
  <2>2. InboxRows BY DEF InboxInv, InboxTypes
  <2>3. PageReceived' BY <1>1, <2>1, <2>2, InsertOK, PageKept DEF InboxInv, PageReceived
  <2>4. InboxTypes'
    BY <1>1, <2>1, <2>2, InsertOK DEF InboxInv, InboxTypes
  <2>5. EventsKept /\ KeysGrow BY <1>1, <2>1, <2>2, InsertOK DEF KeysGrow
  <2>6. PICK K : outbox' \in Seq(OutboxRow(K)) BY <2>1 DEF InboxInv, BoxOK
  <2>7. BoxOK(outbox)' BY <2>1, <2>2, <2>5, <2>6, BoxKept DEF InboxInv
  <2>8. ASSUME NEW r \in DOMAIN inbox'
        PROVE  IF inbox'[r].status = "processed"
               THEN /\ r \in DOMAIN inbox /\ inbox[r].status = "processed"
                    /\ \A m \in matches : m.row = r => m \in matches'
               ELSE \/ r \in DOMAIN inbox /\ inbox[r].status # "processed"
                    \/ \A m \in matches' : m.row # r
    <3>1. CASE r = Len(inbox) + 1
      BY <1>1, <2>2, <3>1, InsertOK DEF InboxInv, InboxTypes
    <3>2. CASE r \in DOMAIN inbox
      BY <1>1, <2>2, <3>2, InsertOK
    <3> QED BY <1>1, <2>2, <3>1, <3>2, InsertOK
  <2>9. matches' \subseteq matches BY <1>1, <2>2, InsertOK
  <2>10. PlansWhole' BY <2>2, <2>5, <2>8, <2>9, WholeKept DEF InboxInv
  <2> QED BY <2>3, <2>4, <2>7, <2>10 DEF InboxInv
<1>2. CASE ~InsertDedup(e)
  <2>1. /\ ingress' = ingress \cup Stored(e) /\ UNCHANGED <<inbox, matches>>
        /\ UNCHANGED <<outbox, ipc, page, gated, inboxWake>>
    BY <1>2 DEF Deliver
  <2>2. ingress' \subseteq DOMAIN inbox BY <2>1 DEF Stored, InboxInv, InboxTypes
  <2>3. PageReceived' BY <2>1 DEF InboxInv, PageReceived
  <2> QED BY <2>1, <2>2, <2>3, QuietStep DEF InboxInv, InboxTypes
<1> QED BY <1>1, <1>2

LEMMA ReplayStep ==
  ASSUME InboxInv, NEW r \in DOMAIN inbox, Replay(r)
  PROVE  InboxInv'
PROOF
<1>1. /\ inbox[r].status = "failed" /\ SetStatus(r, "received") /\ inboxWake' = TRUE
      /\ UNCHANGED <<outbox, matches, ipc, page, gated, ingress>>
  BY DEF Replay
<1>2. InboxRows /\ "received" \in RowStatus BY DEF InboxInv, InboxTypes, RowStatus
<1>3. /\ InboxRows' /\ EventsKept /\ DOMAIN inbox' = DOMAIN inbox
      /\ inbox'[r].status = "received" /\ \A q \in DOMAIN inbox : q # r => inbox'[q] = inbox[q]
  BY <1>1, <1>2, SetStatusOK
<1>4. PageReceived' BY <1>1, <1>3, PageKept DEF InboxInv, PageReceived
<1>5. InboxTypes' BY <1>1, <1>3 DEF InboxInv, InboxTypes
<1>6. PICK K : outbox' \in Seq(OutboxRow(K)) BY <1>1 DEF InboxInv, BoxOK
<1>7. BoxOK(outbox)' BY <1>1, <1>2, <1>3, <1>6, BoxKept DEF InboxInv
<1>8. PlansWhole'
  <2>1. KeysGrow /\ matches' = matches BY <1>1 DEF KeysGrow
  <2>2. \A q \in DOMAIN inbox' : q \in DOMAIN inbox /\ (inbox'[q].status = "processed" <=>
                                                        inbox[q].status = "processed")
    BY <1>1, <1>3
  <2> QED BY <1>2, <1>3, <2>1, <2>2, WholeKept DEF InboxInv
<1> QED BY <1>4, <1>5, <1>7, <1>8 DEF InboxInv

\* The row at the head of the page fails.
LEMMA FailStep ==
  ASSUME InboxInv, page # <<>>, FailRow
  PROVE  InboxInv'
PROOF
<1> DEFINE r == Head(page)
<1>1. /\ SetStatus(r, "failed") /\ page' = Tail(page) /\ ipc' = "load"
      /\ UNCHANGED <<outbox, matches, gated, inboxWake, ingress>>
  BY DEF FailRow
<1>2. InboxRows /\ PageReceived /\ "failed" \in RowStatus BY DEF InboxInv, InboxTypes, RowStatus
<1>3. r \in DOMAIN inbox /\ inbox[r].status = "received" BY <1>2, TailOK
<1>4. /\ InboxRows' /\ EventsKept /\ DOMAIN inbox' = DOMAIN inbox
      /\ inbox'[r].status = "failed" /\ \A q \in DOMAIN inbox : q # r => inbox'[q] = inbox[q]
  BY <1>1, <1>2, <1>3, SetStatusOK
<1>5. PageReceived' BY <1>1, <1>2, <1>4, PageTail
<1>6. InboxTypes' BY <1>1, <1>4 DEF InboxInv, InboxTypes
<1>7. PICK K : outbox' \in Seq(OutboxRow(K)) BY <1>1 DEF InboxInv, BoxOK
<1>8. BoxOK(outbox)' BY <1>1, <1>2, <1>4, <1>7, BoxKept DEF InboxInv
<1>9. PlansWhole'
  <2>1. KeysGrow /\ matches' = matches BY <1>1 DEF KeysGrow
  <2>2. \A q \in DOMAIN inbox' : q \in DOMAIN inbox /\ (inbox'[q].status = "processed" <=>
                                                        inbox[q].status = "processed")
    BY <1>3, <1>4
  <2> QED BY <1>2, <1>4, <2>1, <2>2, WholeKept DEF InboxInv
<1> QED BY <1>5, <1>6, <1>8, <1>9 DEF InboxInv

\* The commit of every plan with the Processed mark.
LEMMA CommitStep ==
  ASSUME InboxInv, ipc = "commit", NEW r, r = Head(page), NEW all, all = PlanAll(r),
         outbox' = all.box, matches' = matches \cup all.traces,
         inbox[r].status = "received", SetStatus(r, "processed"),
         page' = Tail(page), ipc' = "load", UNCHANGED <<gated, inboxWake, ingress>>
  PROVE  InboxInv'
PROOF
<1>1. /\ InboxRows /\ BoxOK(outbox) /\ PageReceived /\ page # <<>> /\ "processed" \in RowStatus
      /\ PlansWhole
  BY DEF InboxInv, InboxTypes, PageReceived, RowStatus
<1>2. r \in DOMAIN inbox BY <1>1, TailOK
<1>3. /\ InboxRows' /\ EventsKept /\ DOMAIN inbox' = DOMAIN inbox
      /\ inbox'[r].status = "processed" /\ \A q \in DOMAIN inbox : q # r => inbox'[q] = inbox[q]
  BY <1>1, <1>2, SetStatusOK
<1>4. PageReceived' BY <1>1, <1>3, PageTail
<1>5. PlansOK(r, Len(RulesFor(r)), all) BY <1>1, <1>2, PlanAllOK
<1>6. BoxOK(outbox)'
  <2>1. PICK K : all.box \in Seq(OutboxRow(K)) BY <1>5 DEF PlansOK, BoxOK
  <2>2. /\ outbox' \in Seq(OutboxRow(K)) /\ DOMAIN outbox' = DOMAIN all.box
        /\ \A i \in DOMAIN all.box : outbox'[i] = all.box[i]
    BY <2>1
  <2>3. BoxOK(all.box) BY <1>5 DEF PlansOK
  <2> QED BY <1>1, <1>3, <2>2, <2>3, BoxKept
<1>7. \A t \in all.traces : t.row = r BY <1>5 DEF PlansOK
<1>8. InboxTypes' BY <1>2, <1>3, <1>7 DEF InboxInv, InboxTypes
<1>9. KeysGrow BY <1>5 DEF PlansOK, Grows, KeysGrow
<1>10. \A m \in matches : m.row # r BY <1>1, <1>2 DEF PlansWhole
<1>11. Planned(r)'
  <2>1. RulesFor(r)' = RulesFor(r) BY <1>2, <1>3, KeysKept
  <2>2. /\ Len(RulesFor(r)) \in Nat /\ DOMAIN RulesFor(r) = 1..Len(RulesFor(r))
        /\ \A j, k \in DOMAIN RulesFor(r) : RulesFor(r)[j].id = RulesFor(r)[k].id => j = k
    BY <1>1, <1>2, RulesShape
  <2>3. SUFFICES ASSUME NEW k \in DOMAIN RulesFor(r), NEW rule, rule = RulesFor(r)[k]
        PROVE  IF Fires(r, rule)' THEN \E m \in matches' : TraceOf(r, rule)' = {m} /\ Carries(m, rule)'
               ELSE TraceOf(r, rule)' = {}
    BY <2>1 DEF Planned
  <2>4. Fires(r, rule)' <=> Fires(r, rule) BY <1>2, <1>3, KeysKept
  <2>5. TraceOf(r, rule)' = {t \in all.traces : t.rule = rule.id}
    BY <1>7, <1>10 DEF TraceOf
  <2>6. CASE Fires(r, rule)
    <3>1. PICK t \in all.traces : TraceFor(r, rule, t, all)
      BY <1>5, <2>2, <2>3, <2>6 DEF PlansOK
    <3>2. TraceOf(r, rule)' = {t} BY <2>5, <3>1 DEF TraceFor
    <3>3. \A j \in DOMAIN t.actions :
            DedupeKey(t.row, rule, rule.actions[j])' = DedupeKey(t.row, rule, rule.actions[j])
      BY <1>2, <1>3, <1>7, KeysKept
    <3>4. Carries(t, rule)'
      BY <1>7, <3>1, <3>3 DEF Carries, TraceFor, Carried
    <3> QED BY <2>4, <2>6, <3>1, <3>2, <3>4
  <2>7. CASE ~Fires(r, rule)
    <3>1. SUFFICES ASSUME NEW t \in all.traces, t.rule = rule.id PROVE FALSE
      BY <2>4, <2>5, <2>7
    <3>2. PICK j \in 1..Len(RulesFor(r)) : Fires(r, RulesFor(r)[j]) /\ t.rule = RulesFor(r)[j].id
      BY <1>5 DEF PlansOK
    <3>3. j = k BY <2>2, <2>3, <3>1, <3>2
    <3> QED BY <2>3, <2>7, <3>2, <3>3
  <2> QED BY <2>6, <2>7
<1>12. PlansWhole'
  <2> SUFFICES ASSUME NEW q \in DOMAIN inbox'
               PROVE  IF inbox'[q].status = "processed" THEN Planned(q)'
                      ELSE \A m \in matches' : m.row # q
    BY DEF PlansWhole
  <2>1. CASE q = r BY <1>3, <1>11, <2>1
  <2>2. CASE q # r
    <3>1. q \in DOMAIN inbox /\ inbox'[q] = inbox[q] BY <1>3, <2>2
    <3>2. \A m \in matches \cup matches' : m.row = q => m \in matches /\ m \in matches'
      BY <1>7, <2>2
    <3>3. CASE inbox[q].status = "processed"
      <4>1. Planned(q) BY <1>1, <3>1, <3>3 DEF PlansWhole
      <4>2. Planned(q)' BY <1>1, <1>3, <1>9, <3>1, <3>2, <4>1, PlannedKept
      <4> QED BY <3>1, <3>3, <4>2
    <3>4. CASE inbox[q].status # "processed"
      BY <1>1, <3>1, <3>2, <3>4 DEF PlansWhole
    <3> QED BY <3>3, <3>4
  <2> QED BY <2>1, <2>2
<1> QED BY <1>4, <1>6, <1>8, <1>12 DEF InboxInv

\* The steps of the worker that write to no table.
LEMMA WorkerStep ==
  ASSUME InboxInv, InboxStart \/ InboxWorker \/ InboxCrash \/ \E r \in ingress : IngressWake(r)
  PROVE  InboxInv'
PROOF
<1>0. /\ InboxRows /\ PageReceived /\ ingress \subseteq DOMAIN inbox /\ gated \in BOOLEAN
      /\ inboxWake \in BOOLEAN
  BY DEF InboxInv, InboxTypes
<1>1. CASE InboxStart
  <2>1. /\ ipc' = "read" /\ inboxWake' = TRUE
        /\ UNCHANGED <<inbox, outbox, matches, page, gated, ingress>>
    BY <1>1 DEF InboxStart
  <2>2. PageReceived' BY <1>0, <2>1 DEF PageReceived
  <2> QED BY <1>0, <2>1, <2>2, QuietStep
<1>2. CASE ReadPage
  <2>1. /\ page' = ReceivedIds(PageLimit) /\ ipc' \in {"parking", "load"}
        /\ UNCHANGED <<inbox, outbox, matches, gated, inboxWake, ingress>>
    BY <1>2 DEF ReadPage
  <2>2. FetchOK(page', PageLimit, Len(inbox)) BY <1>0, <2>1, PageAssumption, ReceivedOK
  <2>3. DOMAIN inbox = 1..Len(inbox) BY <1>0 DEF InboxRows
  <2>4. PageReceived' BY <2>1, <2>2, <2>3 DEF PageReceived, FetchOK
  <2> QED BY <1>0, <2>1, <2>4, QuietStep
<1>3. CASE InboxPark \/ InboxUnpark
  <2>1. /\ ipc' \in {"park", "read"} /\ inboxWake' \in {inboxWake, FALSE}
        /\ UNCHANGED <<inbox, outbox, matches, page, gated, ingress>>
    BY <1>3 DEF InboxPark, InboxUnpark
  <2>2. PageReceived' BY <1>0, <2>1 DEF PageReceived
  <2>3. inboxWake' \in BOOLEAN BY <1>0, <2>1
  <2> QED BY <1>0, <2>1, <2>2, <2>3, QuietStep
<1>4. CASE LoadPlan
  <2>1. UNCHANGED <<inbox, outbox, matches, page, inboxWake, ingress>> BY <1>4 DEF LoadPlan
  <2>2. CASE page = <<>>
    <3>1. ipc' = "read" /\ gated' = gated BY <1>4, <2>2 DEF LoadPlan
    <3>2. PageReceived' BY <1>0, <2>1, <3>1 DEF PageReceived
    <3> QED BY <1>0, <2>1, <3>1, <3>2, QuietStep
  <2>3. CASE page # <<>>
    <3> DEFINE class == ClassOf[inbox[Head(page)].event]
    <3>1. \/ ipc' = "commit" /\ gated' = FALSE
          \/ ipc' = "commit" /\ gated' = TRUE
          \/ ipc' = "refeed" /\ gated' = gated
      <4>1. CASE class = "external" BY <1>4, <2>3, <4>1 DEF LoadPlan
      <4>2. CASE class = "poll" BY <1>4, <2>3, <4>2 DEF LoadPlan
      <4>3. CASE class # "external" /\ class # "poll" BY <1>4, <2>3, <4>3 DEF LoadPlan
      <4> QED BY <4>1, <4>2, <4>3
    <3>2. ipc' \in {"commit", "refeed"} /\ gated' \in BOOLEAN BY <1>0, <3>1
    <3>3. PageReceived' BY <1>0, <2>1, <2>3, <3>2 DEF PageReceived
    <3> QED BY <1>0, <2>1, <3>2, <3>3, QuietStep
  <2> QED BY <2>2, <2>3
<1>5. CASE Refeed
  <2>1. /\ ipc = "refeed" /\ ipc' = "commit" /\ gated' \in BOOLEAN
        /\ UNCHANGED <<inbox, outbox, matches, page, inboxWake, ingress>>
    <3>1. gated' \in IF ClassOf[inbox[Head(page)].event] = "github" THEN BOOLEAN ELSE {FALSE}
      BY <1>5 DEF Refeed
    <3>2. gated' \in BOOLEAN BY <3>1
    <3> QED BY <1>5, <3>2 DEF Refeed
  <2>2. PageReceived' BY <1>0, <2>1 DEF PageReceived
  <2> QED BY <1>0, <2>1, <2>2, QuietStep
<1>6. CASE InboxCrash
  <2>1. /\ ipc' = "down" /\ page' = <<>> /\ gated' = FALSE /\ inboxWake' = FALSE /\ ingress' = {}
        /\ UNCHANGED <<inbox, outbox, matches>>
    BY <1>6 DEF InboxCrash
  <2>2. PageReceived'
    <3>1. <<>> \in Seq(DOMAIN inbox) /\ Len(<<>>) = 0 /\ DOMAIN <<>> = {} OBVIOUS
    <3> QED BY <2>1, <3>1, PageAssumption DEF PageReceived
  <2> QED BY <2>1, <2>2, QuietStep
<1>7. ASSUME NEW r \in ingress, IngressWake(r) PROVE InboxInv'
  <2>1. /\ ingress' \subseteq ingress /\ inboxWake' = TRUE
        /\ UNCHANGED <<inbox, outbox, matches, ipc, page, gated>>
    BY <1>7 DEF IngressWake
  <2>2. PageReceived' BY <1>0, <2>1 DEF PageReceived
  <2>3. ipc' \in {"down", "read", "parking", "park", "load", "refeed", "commit"}
    BY <2>1 DEF InboxInv, InboxTypes
  <2> QED BY <1>0, <2>1, <2>2, <2>3, QuietStep
<1> QED BY <1>1, <1>2, <1>3, <1>4, <1>5, <1>6, <1>7 DEF InboxWorker

\* A row with another status and session.
MovedTo(i, st, se) ==
  outbox' = [outbox EXCEPT ![i] = [outbox[i] EXCEPT !.status = st, !.session = se]]

\* The steps of a delivered row: its status and its session move, and nothing else.
LEMMA RowShape ==
  ASSUME InboxInv, NEW i \in DOMAIN outbox,
         SettleAction(i) \/ BlockAction(i) \/ UnblockAction(i) \/ RequeueAction(i)
  PROVE  /\ UNCHANGED <<inbox, matches, ipc, page, gated, inboxWake, ingress>>
         /\ \E st \in {"pending", "blocked", "done", "dead"} :
              \E se \in {"none", "running", "done", "failed"} : MovedTo(i, st, se)
PROOF
<1>1. UNCHANGED <<inbox, matches, ipc, page, gated, inboxWake, ingress>>
  <2>1. CASE SettleAction(i) BY <2>1, Zenon DEF SettleAction
  <2>2. CASE BlockAction(i) BY <2>2, Zenon DEF BlockAction
  <2>3. CASE UnblockAction(i) BY <2>3, Zenon DEF UnblockAction
  <2>4. CASE RequeueAction(i) BY <2>4, Zenon DEF RequeueAction
  <2> QED BY <2>1, <2>2, <2>3, <2>4
<1>2. \/ \E st \in {"dead", "blocked", "pending"} : outbox' = [outbox EXCEPT ![i].status = st]
      \/ \E se \in {"none", "running"} :
           outbox' = [outbox EXCEPT ![i].status = "done", ![i].session = se]
      \/ \E se \in {"done", "failed"} : outbox' = [outbox EXCEPT ![i].session = se]
  <2>1. CASE SettleAction(i)
    <3> DEFINE sessions == IF outbox[i].kind = "external" THEN {"none", "running"} ELSE {"none"}
    <3>1. \/ outbox' = [outbox EXCEPT ![i].status = "dead"]
          \/ \E se \in sessions : outbox' = [outbox EXCEPT ![i].status = "done", ![i].session = se]
          \/ \E se \in {"done", "failed"} : outbox' = [outbox EXCEPT ![i].session = se]
      BY <2>1, Zenon DEF SettleAction
    <3>2. sessions \subseteq {"none", "running"} OBVIOUS
    <3> HIDE DEF sessions
    <3> QED BY <3>1, <3>2, Zenon
  <2>2. CASE BlockAction(i) BY <2>2, Zenon DEF BlockAction
  <2>3. CASE UnblockAction(i) BY <2>3, Zenon DEF UnblockAction
  <2>4. CASE RequeueAction(i) BY <2>4, Zenon DEF RequeueAction
  <2> QED BY <2>1, <2>2, <2>3, <2>4
<1>3. PICK K : outbox \in Seq(OutboxRow(K)) BY DEF InboxInv, BoxOK
<1>4. outbox[i] \in OutboxRow(K) BY <1>3
<1>5. /\ outbox[i].status \in {"pending", "blocked", "done", "dead"}
      /\ outbox[i].session \in {"none", "running", "done", "failed"}
  BY <1>4 DEF OutboxRow
<1>6. ASSUME NEW st \in {"dead", "blocked", "pending"}, outbox' = [outbox EXCEPT ![i].status = st]
      PROVE  MovedTo(i, st, outbox[i].session)
  <2>1. [outbox[i] EXCEPT !.status = st, !.session = outbox[i].session]
          = [outbox[i] EXCEPT !.status = st]
    BY <1>4 DEF OutboxRow
  <2> QED BY <1>6, <2>1 DEF MovedTo
<1>7. ASSUME NEW se \in {"done", "failed"}, outbox' = [outbox EXCEPT ![i].session = se]
      PROVE  MovedTo(i, outbox[i].status, se)
  <2>1. [outbox[i] EXCEPT !.status = outbox[i].status, !.session = se]
          = [outbox[i] EXCEPT !.session = se]
    BY <1>4 DEF OutboxRow
  <2> QED BY <1>7, <2>1 DEF MovedTo
<1>8. CASE \E st \in {"dead", "blocked", "pending"} : outbox' = [outbox EXCEPT ![i].status = st]
  <2>1. PICK st \in {"dead", "blocked", "pending"} : outbox' = [outbox EXCEPT ![i].status = st]
    BY <1>8
  <2>2. MovedTo(i, st, outbox[i].session) BY <1>6, <2>1
  <2> QED BY <1>1, <1>5, <2>2
<1>9. CASE \E se \in {"none", "running"} :
             outbox' = [outbox EXCEPT ![i].status = "done", ![i].session = se]
  <2>1. PICK se \in {"none", "running"} :
          outbox' = [outbox EXCEPT ![i].status = "done", ![i].session = se]
    BY <1>9
  <2>2. MovedTo(i, "done", se) BY <2>1 DEF MovedTo
  <2> QED BY <1>1, <2>2
<1>10. CASE \E se \in {"done", "failed"} : outbox' = [outbox EXCEPT ![i].session = se]
  <2>1. PICK se \in {"done", "failed"} : outbox' = [outbox EXCEPT ![i].session = se]
    BY <1>10
  <2>2. MovedTo(i, outbox[i].status, se) BY <1>7, <2>1
  <2> QED BY <1>1, <1>5, <2>2
<1> QED BY <1>2, <1>8, <1>9, <1>10

LEMMA RowSteps ==
  ASSUME InboxInv, NEW i \in DOMAIN outbox,
         SettleAction(i) \/ BlockAction(i) \/ UnblockAction(i) \/ RequeueAction(i)
  PROVE  InboxInv'
PROOF
<1>1. UNCHANGED <<inbox, matches, ipc, page, gated, inboxWake, ingress>> BY RowShape
<1>2. PICK st \in {"pending", "blocked", "done", "dead"} :
        \E se \in {"none", "running", "done", "failed"} : MovedTo(i, st, se)
  BY RowShape
<1>3. PICK se \in {"none", "running", "done", "failed"} : MovedTo(i, st, se)
  BY <1>2
<1> DEFINE row == [outbox[i] EXCEPT !.status = st, !.session = se]
<1>4. PICK K : outbox[i] \in OutboxRow(K)
  <2>1. PICK K : outbox \in Seq(OutboxRow(K)) BY DEF InboxInv, BoxOK
  <2> QED BY <2>1
<1>5. /\ row.producer = outbox[i].producer /\ row.dedupe = outbox[i].dedupe
      /\ row.kind = outbox[i].kind
  BY <1>4 DEF OutboxRow
<1>6. \A M : outbox[i] \in OutboxRow(M) => row \in OutboxRow(M) BY DEF OutboxRow
<1>7. outbox' = [outbox EXCEPT ![i] = row] BY <1>3 DEF MovedTo
<1> HIDE DEF row
<1> QED BY <1>1, <1>5, <1>6, <1>7, RowStep

LEMMA InboxStep ==
  ASSUME InboxInv, InboxNext
  PROVE  InboxInv'
PROOF
<1>1. ASSUME Fault PROVE InboxInv'
  <2>1. FailRow /\ page # <<>> BY <1>1 DEF Fault, InboxInv, PageReceived
  <2> QED BY <2>1, FailStep
<1>2. ASSUME CommitPlans PROVE InboxInv'
  <2>1. ipc = "commit" /\ page # <<>> BY <1>2 DEF CommitPlans, InboxInv, PageReceived
  <2>2. CASE FailRow BY <2>1, <2>2, FailStep
  <2>3. CASE ~FailRow
    <3>1. /\ outbox' = PlanAll(Head(page)).box
          /\ matches' = matches \cup PlanAll(Head(page)).traces
          /\ inbox[Head(page)].status = "received" /\ SetStatus(Head(page), "processed")
          /\ page' = Tail(page) /\ ipc' = "load" /\ UNCHANGED <<gated, inboxWake, ingress>>
      BY <1>2, <2>3 DEF CommitPlans
    <3> QED BY <2>1, <3>1, CommitStep
  <2> QED BY <2>2, <2>3
<1> QED BY <1>1, <1>2, DeliverStep, ReplayStep, WorkerStep, RowSteps DEF InboxNext

\* What a step of the inbox leaves alone: rows keep their keys and their labels, and no
\* row that it adds is a workflow's.
NoWorkflowRows ==
  /\ DOMAIN inbox \subseteq DOMAIN inbox'
  /\ \A i \in DOMAIN outbox :
       /\ i \in DOMAIN outbox' /\ outbox'[i].dedupe = outbox[i].dedupe
       /\ outbox'[i].label = outbox[i].label
  /\ \A i \in DOMAIN outbox' : i \notin DOMAIN outbox => outbox'[i].dedupe[1] # "workflow"

LEMMA InboxAddsNoWorkflowRow ==
  ASSUME InboxInv, InboxNext
  PROVE  NoWorkflowRows
PROOF
<1>1. InboxRows BY DEF InboxInv, InboxTypes
<1>2. ASSUME DOMAIN inbox \subseteq DOMAIN inbox', UNCHANGED outbox PROVE NoWorkflowRows
  BY <1>2 DEF NoWorkflowRows
<1>3. ASSUME FailRow, page # <<>> PROVE NoWorkflowRows
  <2>1. PageReceived /\ "failed" \in RowStatus BY DEF InboxInv, RowStatus
  <2>2. Head(page) \in DOMAIN inbox BY <1>1, <1>3, <2>1, TailOK
  <2>3. DOMAIN inbox' = DOMAIN inbox BY <1>1, <1>3, <2>1, <2>2, SetStatusOK DEF FailRow
  <2> QED BY <1>2, <1>3, <2>3 DEF FailRow
<1>4. ASSUME NEW e \in Event, Deliver(e) PROVE NoWorkflowRows
  <2>1. CASE InsertDedup(e)
    BY <1>1, <1>2, <1>4, <2>1, InsertOK DEF Deliver
  <2>2. CASE ~InsertDedup(e)
    BY <1>2, <1>4, <2>2 DEF Deliver
  <2> QED BY <2>1, <2>2
<1>5. ASSUME NEW r \in DOMAIN inbox, Replay(r) PROVE NoWorkflowRows
  <2>1. "received" \in RowStatus BY DEF RowStatus
  <2>2. DOMAIN inbox' = DOMAIN inbox BY <1>1, <1>5, <2>1, SetStatusOK DEF Replay
  <2> QED BY <1>2, <1>5, <2>2 DEF Replay
<1>6. ASSUME InboxStart \/ InboxWorker \/ InboxCrash \/ \E r \in ingress : IngressWake(r)
      PROVE  NoWorkflowRows
  <2>1. UNCHANGED <<inbox, outbox>>
    BY <1>6, Zenon DEF InboxStart, InboxWorker, InboxCrash, IngressWake, ReadPage, InboxPark,
       InboxUnpark, LoadPlan, Refeed
  <2> QED BY <1>2, <2>1
<1>7. ASSUME Fault PROVE NoWorkflowRows
  BY <1>3, <1>7 DEF Fault, InboxInv, PageReceived
<1>8. ASSUME CommitPlans PROVE NoWorkflowRows
  <2>1. ipc = "commit" /\ page # <<>> BY <1>8 DEF CommitPlans, InboxInv, PageReceived
  <2>2. CASE FailRow BY <1>3, <2>1, <2>2
  <2>3. CASE ~FailRow
    <3> DEFINE r == Head(page)
    <3>1. /\ outbox' = PlanAll(r).box /\ SetStatus(r, "processed")
      BY <1>8, <2>3 DEF CommitPlans
    <3>2. PageReceived /\ BoxOK(outbox) /\ "processed" \in RowStatus
      BY DEF InboxInv, RowStatus
    <3>3. r \in DOMAIN inbox BY <1>1, <2>1, <3>2, TailOK
    <3>4. DOMAIN inbox' = DOMAIN inbox BY <1>1, <3>1, <3>2, <3>3, SetStatusOK
    <3>5. Grows(outbox, outbox')
      <4>1. PlansOK(r, Len(RulesFor(r)), PlanAll(r)) BY <1>1, <3>2, <3>3, PlanAllOK
      <4> QED BY <3>1, <4>1 DEF PlansOK
    <3>6. \A i \in DOMAIN outbox' : i \notin DOMAIN outbox => outbox'[i].dedupe[1] # "workflow"
      <4> SUFFICES ASSUME NEW i \in DOMAIN outbox', i \notin DOMAIN outbox
                   PROVE  outbox'[i].dedupe[1] # "workflow"
        OBVIOUS
      <4>1. ByRule(outbox'[i]) BY <3>5 DEF Grows
      <4> QED BY <1>1, <4>1, RowHeads
    <3> QED BY <3>4, <3>5, <3>6 DEF NoWorkflowRows, Grows
  <2> QED BY <2>2, <2>3
<1>9. ASSUME NEW i \in DOMAIN outbox,
             SettleAction(i) \/ BlockAction(i) \/ UnblockAction(i) \/ RequeueAction(i)
      PROVE  NoWorkflowRows
  <2>1. PICK row : outbox' = [outbox EXCEPT ![i] = row] /\ row.dedupe = outbox[i].dedupe
                   /\ row.label = outbox[i].label /\ UNCHANGED inbox
    <3>1. PICK K : outbox[i] \in OutboxRow(K)
      <4>1. PICK K : outbox \in Seq(OutboxRow(K)) BY DEF InboxInv, BoxOK
      <4> QED BY <4>1
    <3>2. UNCHANGED inbox BY <1>9, RowShape
    <3>3. PICK st \in {"pending", "blocked", "done", "dead"} :
            \E se \in {"none", "running", "done", "failed"} : MovedTo(i, st, se)
      BY <1>9, RowShape
    <3>4. PICK se \in {"none", "running", "done", "failed"} : MovedTo(i, st, se)
      BY <3>3
    <3> QED BY <3>1, <3>2, <3>4 DEF OutboxRow, MovedTo
  <2>2. DOMAIN outbox' = DOMAIN outbox /\ \A j \in DOMAIN outbox : j # i => outbox'[j] = outbox[j]
    BY <2>1
  <2> QED BY <2>1, <2>2 DEF NoWorkflowRows
<1> QED BY <1>4, <1>5, <1>6, <1>7, <1>8, <1>9 DEF InboxNext

\* An inbox with nothing in it, whether its worker is down or waits.
InboxEmpty ==
  /\ inbox = <<>> /\ outbox = <<>> /\ matches = {} /\ ipc \in {"down", "park"} /\ page = <<>>
  /\ gated = FALSE /\ inboxWake = FALSE /\ ingress = {}

LEMMA InboxEmptyInv == InboxEmpty => InboxInv
PROOF
<1> SUFFICES ASSUME InboxEmpty PROVE InboxInv OBVIOUS
<1>1. /\ inbox = <<>> /\ outbox = <<>> /\ matches = {} /\ ipc \in {"down", "park"} /\ page = <<>>
      /\ gated = FALSE /\ inboxWake = FALSE /\ ingress = {}
  BY DEF InboxEmpty
<1>2. InboxTypes
  <2>1. inbox \in Seq([event : Event, status : RowStatus]) BY <1>1
  <2>2. gated \in BOOLEAN /\ inboxWake \in BOOLEAN BY <1>1
  <2> QED BY <1>1, <2>1, <2>2 DEF InboxTypes, InboxRows
<1>3. BoxOK(outbox)
  <2>1. <<>> \in Seq(OutboxRow({})) /\ DOMAIN <<>> = {} OBVIOUS
  <2> QED BY <1>1, <2>1 DEF BoxOK
<1>4. PageReceived
  <2>1. <<>> \in Seq(DOMAIN inbox) /\ Len(<<>>) = 0 /\ DOMAIN <<>> = {} OBVIOUS
  <2> QED BY <1>1, <2>1, PageAssumption DEF PageReceived
<1>5. PlansWhole BY <1>1 DEF PlansWhole
<1> QED BY <1>2, <1>3, <1>4, <1>5 DEF InboxInv

LEMMA InboxInitInv == InboxInit => InboxInv
BY InboxEmptyInv DEF InboxInit, InboxEmpty

LEMMA InboxInvariance == InboxSpec => []InboxInv
PROOF
<1>1. InboxInv /\ UNCHANGED inboxVars => InboxInv'
  BY QuietStep DEF InboxInv, InboxTypes, PageReceived, inboxVars
<1>2. InboxInv /\ [InboxNext]_inboxVars => InboxInv' BY <1>1, InboxStep
<1> QED BY InboxInitInv, <1>2, PTL DEF InboxSpec

\* Types of the inbox, and the page's limit.
THEOREM InboxTypeCorrect == InboxSpec => []InboxTypeOK
PROOF
<1>1. InboxInv => InboxTypeOK BY InboxTypesTogether DEF InboxInv
<1> QED BY InboxInvariance, <1>1, PTL

\* For any rules, events and bounds: planning is all or nothing, and once.
THEOREM PlansAreWhole == InboxSpec => []PlansWhole
PROOF
<1>1. InboxInv => PlansWhole BY DEF InboxInv
<1> QED BY InboxInvariance, <1>1, PTL

\* And nobody is told of an event twice.
THEOREM NoSecondNotice == InboxSpec => []OneNotice
PROOF
<1>1. InboxInv => OneNotice BY DEF InboxInv, BoxOK, OneNotice
<1> QED BY InboxInvariance, <1>1, PTL
=============================================================================
