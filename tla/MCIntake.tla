------------------------------ MODULE MCIntake ------------------------------
(***************************************************************************)
(* What comes into the program, on three small instances that one run      *)
(* explores side by side: rules planned over GitHub and polled events, the *)
(* review-notify workflow of one external request, and the discovery of    *)
(* one project.  Which instance a behaviour is of is chosen at its start.  *)
(***************************************************************************)
EXTENDS Workflow, Discovery

VARIABLE part
intakeVars == <<workflowVars, discoveryVars, part>>

\* g is a webhook event, h a polled one of the same head, x an external request.
MCEvent == {"g", "h", "x"}
MCClassOf == "g" :> "github" @@ "h" :> "poll" @@ "x" :> "external"
MCHeadOf == "g" :> "head" @@ "h" :> "head" @@ "x" :> "head"

Action(id, kind) == [id |-> id, kind |-> kind, policy |-> "Event"]
MCRuleSeq ==
  <<[id |-> "both", on |-> {"g"}, actions |-> <<Action("a", "runSkill"), Action("b", "notify")>>]>>

CONSTANTS
  WorkflowBudget,  \* deliveries and troubles of the workflow part together
  RulesTrouble     \* troubles of the rules part, of MaxTrouble

\* The status of an outbox row is read by the planning of an event and by a driver
\* that polls a receipt: rows need to settle only where one of them is about to read.
OfPart ==
  /\ \A r \in DOMAIN inbox' : (inbox'[r].event = "x") = (part = "workflow")
  /\ part = "workflow" =>
       (MaxDeliver - left'.deliver) + (MaxTrouble - left'.trouble) <= WorkflowBudget
  /\ part = "rules" => left'.trouble >= MaxTrouble - RulesTrouble
  /\ part = "rules" /\ outbox' # outbox => ipc = "commit"
  /\ part = "workflow" /\ Len(outbox') = Len(outbox) /\ outbox' # outbox
       => \E d \in Driver : driver[d].pc = "polling"

\* A part that is not explored is an idle program: nothing of it is enabled.
IdleInbox ==
  /\ inbox = <<>> /\ outbox = <<>> /\ matches = {} /\ ipc = "park" /\ page = <<>>
  /\ gated = FALSE /\ inboxWake = FALSE /\ ingress = {} /\ left = [deliver |-> 0, trouble |-> 0]
IdleWorkflow ==
  /\ wf = <<>> /\ driver = [d \in Driver |-> Idle] /\ asked = {} /\ wfTick = FALSE /\ wfUp = TRUE

IntakeInit ==
  /\ DiscoveryInit
  /\ \/ part = "rules" /\ InboxInit /\ IdleWorkflow
     \/ part = "workflow" /\ WorkflowInit
     \/ part = "discovery" /\ IdleInbox /\ IdleWorkflow

IntakeNext ==
  /\ \/ part = "rules" /\ InboxNext /\ UNCHANGED <<wfOwn, discoveryVars>>
     \/ part = "workflow" /\ WorkflowNext /\ UNCHANGED discoveryVars
     \/ part = "discovery" /\ DiscoveryNext /\ UNCHANGED workflowVars
  /\ OfPart
  /\ UNCHANGED part

\* Rows settle (EverySettled of Outbox), here where OfPart lets them: a driver that
\* polls a receipt for ever does not find it pending or blocked for ever.  A behaviour in
\* which nobody reads a row again may end with it unsettled.
RowsFair ==
  SF_inboxVars(\E i \in DOMAIN outbox : (SettleAction(i) \/ UnblockAction(i)) /\ OfPart)

IntakeSpec ==
  /\ IntakeInit /\ [][IntakeNext]_intakeVars
  /\ WorkflowFair /\ RowsFair /\ DiscoveryFair

IntakeTypeOK == InboxTypeOK /\ WorkflowTypeOK /\ DiscoveryTypeOK
=============================================================================
