------------------------------- MODULE Inbox --------------------------------
(***************************************************************************)
(* The event inbox and the rule engine behind it: webhooks, the poller and *)
(* external review requests insert rows under a unique dedupe key and wake *)
(* one worker; the worker re-feeds a row to the PR list (an await), plans  *)
(* every matching rule and commits actions, rule traces and the row's      *)
(* Processed mark in one transaction, or marks the row Failed.             *)
(*                                                                         *)
(* A row id is a position of the sequence inbox, an outbox id a position   *)
(* of outbox; a pruned row keeps its position (ids are AUTOINCREMENT).     *)
(* The configuration is fixed; the rows' delivery is left to Settle.       *)
(***************************************************************************)
EXTENDS Naturals, FiniteSets, Sequences, Functions, TLC

CONSTANTS
  Event,        \* dedupe keys of the deliveries the program may receive
  ClassOf,      \* where an event comes from, and so how the worker handles it
  HeadOf,       \* the PR head that an event's candidate names
  RuleSeq,      \* the enabled rules: [id, on, actions], in configuration order
  MaxInbox,     \* MAX_INBOX_EVENTS: rows kept before history is pruned
  PageLimit,    \* rows of one received_ids page
  MaxDeliver,   \* deliveries the environment makes
  MaxTrouble    \* faults, crashes, replays, re-queues and engine stops, together

Class == {"github", "azure", "poll", "external"}

ActionConfig == [id : STRING, kind : {"runSkill", "notify"}, policy : {"Event", "Action"}]
RuleConfig == [id : STRING, on : SUBSET Event, actions : Seq(ActionConfig)]

ASSUME ClassAssumption == ClassOf \in [Event -> Class]
ASSUME PageAssumption == PageLimit \in Nat \ {0} /\ MaxInbox \in Nat
\* A rule's id is its own, and so is an action's in its rule (validate, validate_rule).
ASSUME RuleAssumption ==
  /\ RuleSeq \in Seq(RuleConfig)
  /\ \A j, k \in DOMAIN RuleSeq : RuleSeq[j].id = RuleSeq[k].id => j = k
  /\ \A k \in DOMAIN RuleSeq : \A i, j \in DOMAIN RuleSeq[k].actions :
       RuleSeq[k].actions[i].id = RuleSeq[k].actions[j].id => i = j

VARIABLES
  inbox,     \* inbox_event: [event, status]
  outbox,    \* action_outbox, the rows rules and workflows write
  matches,   \* rule_match with its rule_match_action rows
  ipc,       \* where the inbox worker is
  page,      \* row ids of the page still to process
  gated,     \* the refeed of the current row returned a candidate
  inboxWake, \* the stored permit of InboxManager.wake
  ingress,   \* rows some ingress task has inserted and not yet woken for
  left       \* what is left of the environment's bounds

inboxVars == <<inbox, outbox, matches, ipc, page, gated, inboxWake, ingress, left>>

RowStatus == {"received", "processed", "failed", "pruned"}
Live == {"pending", "blocked"}

InboxInit ==
  /\ inbox = <<>> /\ outbox = <<>> /\ matches = {}
  /\ ipc = "down" /\ page = <<>> /\ gated = FALSE
  /\ inboxWake = FALSE /\ ingress = {}
  /\ left = [deliver |-> MaxDeliver, trouble |-> MaxTrouble]

SetStatus(r, s) == inbox' = [inbox EXCEPT ![r].status = s]
Spend(what) == left' = [left EXCEPT ![what] = @ - 1]

-----------------------------------------------------------------------------
(* Ingress.                                                                *)

Stored(e) == {r \in DOMAIN inbox : inbox[r].event = e /\ inbox[r].status # "pruned"}

\* Rows the cap may drop: finished history that no receipt refers to.
Prunable(rows) ==
  {r \in DOMAIN rows : /\ rows[r].status \in {"processed", "failed"}
                       /\ ClassOf[rows[r].event] # "external"}

\* The oldest prunable rows beyond the cap; live work is never dropped.
Pruned(rows) ==
  LET kept == {r \in DOMAIN rows : rows[r].status # "pruned"}
      excess == IF Cardinality(kept) > MaxInbox THEN Cardinality(kept) - MaxInbox ELSE 0
  IN {r \in Prunable(rows) : Cardinality({q \in Prunable(rows) : q < r}) < excess}

\* insert_dedup: a duplicate changes nothing; a new row also prunes, and the
\* traces of a pruned row go with it (ON DELETE CASCADE).
InsertDedup(e) ==
  LET rows == Append(inbox, [event |-> e, status |-> "received"]) IN
  /\ Stored(e) = {}
  /\ inbox' = [r \in DOMAIN rows |->
                 IF r \in Pruned(rows) THEN [rows[r] EXCEPT !.status = "pruned"] ELSE rows[r]]
  /\ matches' = {m \in matches : m.row \notin Pruned(rows)}
  /\ ingress' = ingress \cup {Len(rows)}

\* A new delivery is durable before it is acknowledged; its wake is a later step.
\* A duplicate is acknowledged without one, but for the external request path.
Deliver(e) ==
  /\ ipc # "down" /\ left.deliver > 0 /\ Spend("deliver")
  /\ \/ InsertDedup(e)
     \/ /\ Stored(e) # {} /\ ClassOf[e] = "external"
        /\ ingress' = ingress \cup Stored(e)
        /\ UNCHANGED <<inbox, matches>>
  /\ UNCHANGED <<outbox, ipc, page, gated, inboxWake>>

\* Mutant: only a worker that waits already is woken.
IngressWakeWaiter(r) ==
  /\ r \in ingress
  /\ ingress' = ingress \ {r}
  /\ inboxWake' = (inboxWake \/ ipc = "park")
  /\ UNCHANGED <<inbox, outbox, matches, ipc, page, gated, left>>

\* Notify::notify_one keeps one permit for a worker that does not wait yet.
IngressWake(r) ==
  /\ r \in ingress
  /\ ingress' = ingress \ {r}
  /\ inboxWake' = TRUE
  /\ UNCHANGED <<inbox, outbox, matches, ipc, page, gated, left>>

\* Mutant: any finished row may be handed back.
ReplayFinished(r) ==
  /\ ipc # "down" /\ left.trouble > 0 /\ Spend("trouble")
  /\ inbox[r].status \in {"failed", "processed"}
  /\ SetStatus(r, "received")
  /\ inboxWake' = TRUE
  /\ UNCHANGED <<outbox, matches, ipc, page, gated, ingress>>

\* Replay is only Failed -> Received; the worker stays the sole executor.
Replay(r) ==
  /\ ipc # "down" /\ left.trouble > 0 /\ Spend("trouble")
  /\ inbox[r].status = "failed"
  /\ SetStatus(r, "received")
  /\ inboxWake' = TRUE
  /\ UNCHANGED <<outbox, matches, ipc, page, gated, ingress>>

-----------------------------------------------------------------------------
(* Planning: what the rules ask for, and the outbox rows it becomes.       *)

IsExternal(r) == ClassOf[inbox[r].event] = "external"

\* An external request plans one explicit review; a rule never matches it.
ExternalPlan == <<[id |-> "external", actions |-> <<[id |-> "review", kind |-> "external",
                                                     policy |-> "Event"]>>]>>
RulesFor(r) == IF IsExternal(r) THEN ExternalPlan ELSE RuleSeq
Fires(r, rule) == IsExternal(r) \/ inbox[r].event \in rule.on

IsReview(a) == a.kind \in {"runSkill", "external"}

\* The semantic key.  Under the Event policy it does not name the action.
DedupeKey(r, rule, a) ==
  LET e == inbox[r].event IN
  IF a.kind = "external" THEN <<"external", e>>
  ELSE IF a.kind = "runSkill"
       THEN IF a.policy = "Event" THEN <<"review", HeadOf[e]>>
                                  ELSE <<"review", HeadOf[e], rule.id, a.id>>
       ELSE IF a.policy = "Event" THEN <<a.kind, rule.id, e>> ELSE <<a.kind, rule.id, e, a.id>>

\* A review is produced once per inbox row; everything else once per dedupe key.
ProducerKey(r, rule, a) ==
  IF IsReview(a) THEN <<"rule", r, rule.id, a.id>> ELSE <<"dedupe", DedupeKey(r, rule, a)>>

\* enqueue_inner_tx: INSERT OR IGNORE against the two unique indexes, then the
\* id of the row that is there: by producer, else the live row of the same key.
EnqueueInner(box, producer, dedupe, kind) ==
  LET byProducer == {i \in DOMAIN box : box[i].producer = producer}
      byDedupe == {i \in DOMAIN box : box[i].dedupe = dedupe /\ box[i].status \in Live}
      row == [producer |-> producer, dedupe |-> dedupe, kind |-> kind,
              status |-> "pending", session |-> "none", label |-> "none"]
  IN IF byProducer # {} THEN [box |-> box, id |-> CHOOSE i \in byProducer : TRUE]
     ELSE IF byDedupe # {} THEN [box |-> box, id |-> CHOOSE i \in byDedupe : TRUE]
     ELSE [box |-> Append(box, row), id |-> Len(box) + 1]

\* id_by_dedupe_key_any_status_in_tx.
AnyStatus(box, dedupe) == {i \in DOMAIN box : box[i].dedupe = dedupe}

\* enqueue_prepared_in_tx, enqueue_send_once_after_in_tx: a notice or message is
\* never produced twice under one key, whatever became of the first.
EnqueueOnce(box, producer, dedupe, kind) ==
  LET same == AnyStatus(box, dedupe) IN
  IF same # {} THEN [box |-> box, id |-> CHOOSE i \in same : \A j \in same : i <= j]
  ELSE EnqueueInner(box, producer, dedupe, kind)

\* Mutant: a notice is produced per inbox row, as a review is.
EnqueuePerRow(box, r, rule, a) ==
  EnqueueInner(box, <<"rule", r, rule.id, a.id>>, DedupeKey(r, rule, a), a.kind)

EnqueueAction(box, r, rule, a) ==
  IF IsReview(a)
  THEN EnqueueInner(box, ProducerKey(r, rule, a), DedupeKey(r, rule, a), a.kind)
  ELSE EnqueueOnce(box, ProducerKey(r, rule, a), DedupeKey(r, rule, a), a.kind)

\* One rule: its actions in order, then its trace.  The trace's primary key
\* refuses two actions of a rule that came to the same outbox row.
AddAction(r, rule, a, acc) ==
  LET row == EnqueueAction(acc.box, r, rule, a)
  IN [box |-> row.box, ids |-> Append(acc.ids, row.id)]

\* Its first n actions.
AddActions(r, rule, n, box) ==
  LET done[k \in 0..n] ==
        IF k = 0 THEN [box |-> box, ids |-> <<>>]
        ELSE AddAction(r, rule, rule.actions[k], done[k - 1])
  IN done[n]

ApplyRule(r, acc, rule) ==
  LET all == AddActions(r, rule, Len(rule.actions), acc.box)
  IN [box |-> all.box,
      ok |-> /\ acc.ok
             /\ IsInjective(all.ids)
             /\ gated \/ \A k \in DOMAIN rule.actions : rule.actions[k].kind # "runSkill",
      traces |-> acc.traces \cup {[row |-> r, rule |-> rule.id, actions |-> all.ids]}]

PlanRule(r, rule, acc) == IF Fires(r, rule) THEN ApplyRule(r, acc, rule) ELSE acc

\* plan_event and the loop over its plans: the first n rules, those that match.
PlanRules(r, n) ==
  LET after[k \in 0..n] ==
        IF k = 0 THEN [box |-> outbox, ok |-> TRUE, traces |-> {}]
        ELSE PlanRule(r, RulesFor(r)[k], after[k - 1])
  IN after[n]

PlanAll(r) == PlanRules(r, Len(RulesFor(r)))

-----------------------------------------------------------------------------
(* The worker.                                                             *)

InboxStart ==
  /\ ipc = "down"
  /\ ipc' = "read" /\ inboxWake' = TRUE
  /\ UNCHANGED <<inbox, outbox, matches, page, gated, ingress, left>>

\* The oldest received rows, at most n of them: the table in the order of its ids.
Fetch(r, n, ids) ==
  IF inbox[r].status = "received" /\ Len(ids) < n THEN Append(ids, r) ELSE ids
ReceivedIds(n) ==
  LET found[r \in 0..Len(inbox)] == IF r = 0 THEN <<>> ELSE Fetch(r, n, found[r - 1])
  IN found[Len(inbox)]

\* Mutant: one row too many.
ReadPageTooMany ==
  /\ ipc = "read"
  /\ page' = ReceivedIds(PageLimit + 1)
  /\ ipc' = IF page' = <<>> THEN "parking" ELSE "load"
  /\ UNCHANGED <<inbox, outbox, matches, gated, inboxWake, ingress, left>>

\* received_ids: no row left, and the worker goes to wait for its wake.
ReadPage ==
  /\ ipc = "read"
  /\ page' = ReceivedIds(PageLimit)
  /\ ipc' = IF page' = <<>> THEN "parking" ELSE "load"
  /\ UNCHANGED <<inbox, outbox, matches, gated, inboxWake, ingress, left>>

InboxPark ==
  /\ ipc = "parking" /\ ipc' = "park"
  /\ UNCHANGED <<inbox, outbox, matches, page, gated, inboxWake, ingress, left>>

InboxUnpark ==
  /\ ipc = "park" /\ inboxWake
  /\ inboxWake' = FALSE /\ ipc' = "read"
  /\ UNCHANGED <<inbox, outbox, matches, page, gated, ingress, left>>

\* load_received_plan: the branch on the event's class.
LoadPlan ==
  /\ ipc = "load"
  /\ IF page = <<>> THEN ipc' = "read" /\ UNCHANGED gated
     ELSE CASE ClassOf[inbox[Head(page)].event] = "external" -> ipc' = "commit" /\ gated' = FALSE
            [] ClassOf[inbox[Head(page)].event] = "poll"     -> ipc' = "commit" /\ gated' = TRUE
            [] OTHER                                         -> ipc' = "refeed" /\ UNCHANGED gated
  /\ UNCHANGED <<inbox, outbox, matches, page, inboxWake, ingress, left>>

FailRow ==
  /\ SetStatus(Head(page), "failed")
  /\ page' = Tail(page) /\ ipc' = "load"
  /\ UNCHANGED <<outbox, matches, gated, inboxWake, ingress>>

\* The await of github_refeed or of the Azure refresh: only a GitHub event may
\* come back with a candidate, and the gates may have dropped it.
Refeed ==
  /\ ipc = "refeed"
  /\ ipc' = "commit"
  /\ gated' \in IF ClassOf[inbox[Head(page)].event] = "github" THEN BOOLEAN ELSE {FALSE}
  /\ UNCHANGED <<inbox, outbox, matches, page, inboxWake, ingress, left>>

\* The refeed fails, the configuration cannot be loaded, or the commit fails.
Fault ==
  /\ ipc \in {"refeed", "commit"} /\ left.trouble > 0 /\ Spend("trouble")
  /\ FailRow

\* process_rule_event: every plan and the Processed mark, or nothing.
CommitPlans ==
  LET r == Head(page)
      all == PlanAll(r)
  IN /\ ipc = "commit"
     /\ \/ /\ all.ok /\ inbox[r].status = "received"
           /\ outbox' = all.box
           /\ matches' = matches \cup all.traces
           /\ SetStatus(r, "processed")
           /\ page' = Tail(page) /\ ipc' = "load"
           /\ UNCHANGED <<gated, inboxWake, ingress>>
        \/ ~(all.ok /\ inbox[r].status = "received") /\ FailRow
     /\ UNCHANGED left

InboxCrash ==
  /\ ipc # "down" /\ left.trouble > 0 /\ Spend("trouble")
  /\ ipc' = "down" /\ page' = <<>> /\ gated' = FALSE /\ inboxWake' = FALSE /\ ingress' = {}
  /\ UNCHANGED <<inbox, outbox, matches>>

-----------------------------------------------------------------------------
(* The rows' delivery: Outbox models it, here it is any legal outcome.  The *)
(* review session behind a row is followed only where a receipt reads it.  *)

SettleAction(i) ==
  /\ ipc # "down"
  /\ \/ /\ outbox[i].status = "pending"
        /\ \/ outbox' = [outbox EXCEPT ![i].status = "dead"]
           \/ \E s \in IF outbox[i].kind = "external" THEN {"none", "running"} ELSE {"none"} :
                outbox' = [outbox EXCEPT ![i].status = "done", ![i].session = s]
     \/ /\ outbox[i].session = "running"
        /\ \E s \in {"done", "failed"} : outbox' = [outbox EXCEPT ![i].session = s]
  /\ UNCHANGED <<inbox, matches, ipc, page, gated, inboxWake, ingress, left>>

\* A stopped engine blocks a review; the resume hook queues it again.
BlockAction(i) ==
  /\ ipc # "down" /\ IsReview(outbox[i])
  /\ outbox[i].status = "pending" /\ left.trouble > 0 /\ Spend("trouble")
  /\ outbox' = [outbox EXCEPT ![i].status = "blocked"]
  /\ UNCHANGED <<inbox, matches, ipc, page, gated, inboxWake, ingress>>

UnblockAction(i) ==
  /\ ipc # "down" /\ outbox[i].status = "blocked"
  /\ outbox' = [outbox EXCEPT ![i].status = "pending"]
  /\ UNCHANGED <<inbox, matches, ipc, page, gated, inboxWake, ingress, left>>

\* reset_for_retry: a dead row is queued again unless a live one has its key.
RequeueAction(i) ==
  /\ ipc # "down" /\ left.trouble > 0 /\ Spend("trouble")
  /\ outbox[i].status = "dead"
  /\ \A j \in AnyStatus(outbox, outbox[i].dedupe) : outbox[j].status \notin Live
  /\ outbox' = [outbox EXCEPT ![i].status = "pending"]
  /\ UNCHANGED <<inbox, matches, ipc, page, gated, inboxWake, ingress>>

InboxWorker == ReadPage \/ InboxPark \/ InboxUnpark \/ LoadPlan \/ Refeed

InboxNext ==
  \/ \E e \in Event : Deliver(e)
  \/ \E r \in ingress : IngressWake(r)
  \/ \E r \in DOMAIN inbox : Replay(r)
  \/ InboxStart \/ InboxWorker \/ CommitPlans \/ Fault \/ InboxCrash
  \/ \E i \in DOMAIN outbox :
       SettleAction(i) \/ BlockAction(i) \/ UnblockAction(i) \/ RequeueAction(i)

InboxSpec == InboxInit /\ [][InboxNext]_inboxVars

\* The worker task runs, an ingress task that has inserted reaches its wake, and
\* the program is started again; nobody has to deliver, replay or fail.  The commit
\* is one synchronous transaction: its fairness says that the worker gets past it.
\* That rows settle is not the inbox's: no event waits for it.
InboxFair ==
  /\ WF_inboxVars(InboxWorker)
  /\ WF_ipc(ipc = "commit" /\ ipc' = "load")
  /\ WF_inboxVars(\E r \in ingress : IngressWake(r))
  /\ WF_inboxVars(InboxStart)

-----------------------------------------------------------------------------
InboxTypeOK ==
  /\ inbox \in Seq([event : Event, status : RowStatus])
  /\ \A i \in DOMAIN outbox : /\ outbox[i].status \in {"pending", "blocked", "done", "dead"}
                              /\ outbox[i].session \in {"none", "running", "done", "failed"}
  /\ \A m \in matches : m.row \in DOMAIN inbox
  /\ ipc \in {"down", "read", "parking", "park", "load", "refeed", "commit"}
  /\ page \in Seq(DOMAIN inbox) /\ Len(page) <= PageLimit /\ ingress \subseteq DOMAIN inbox
  /\ gated \in BOOLEAN /\ inboxWake \in BOOLEAN

\* Planning is all or nothing, and once: a Processed row has exactly one trace of
\* every rule that matched it and none of another, each naming outbox rows that
\* carry what the rule asked for, and a row in any other state has none
\* (process_rule_event commits plans and mark together; a replay starts from Failed).
TraceOf(r, rule) == {m \in matches : m.row = r /\ m.rule = rule.id}
Carries(m, rule) ==
  /\ Len(m.actions) = Len(rule.actions)
  /\ \A k \in DOMAIN m.actions :
       /\ m.actions[k] \in DOMAIN outbox
       /\ outbox[m.actions[k]].dedupe = DedupeKey(m.row, rule, rule.actions[k])
Planned(r) ==
  \A k \in DOMAIN RulesFor(r) :
    LET rule == RulesFor(r)[k] IN
    IF Fires(r, rule)
    THEN \E m \in matches : TraceOf(r, rule) = {m} /\ Carries(m, rule)
    ELSE TraceOf(r, rule) = {}
PlansWhole ==
  \A r \in DOMAIN inbox :
    IF inbox[r].status = "processed" THEN Planned(r) ELSE \A m \in matches : m.row # r

\* Nobody is told of an event twice: no two outbox rows carry one notification or
\* message key, although rows are pruned, redelivered and planned again, and
\* although the first notice may have been sent long ago.
OneNotice ==
  \A i, j \in DOMAIN outbox :
    ~IsReview(outbox[i]) /\ outbox[i].dedupe = outbox[j].dedupe => i = j

\* A received event is planned or refused in the end: no insert is left without
\* the wake, the page or the restart that brings the worker to it.
EveryEventHandled ==
  LET waiting == {r \in DOMAIN inbox : inbox[r].status = "received"}
  IN waiting # {} ~> waiting = {}
=============================================================================
