------------------------------ MODULE Workflow ------------------------------
(***************************************************************************)
(* The review-notify workflow: an external request that asks to be told of *)
(* its review owns one durable instance, which waits for the receipt to    *)
(* settle and then enqueues one notification.  A ticking worker hands due  *)
(* instances to driver tasks; a driver works on the copy it was given and  *)
(* moves the row by compare-and-set, under a lease that can run out while  *)
(* the driver still holds the copy.                                        *)
(*                                                                         *)
(* An instance is named by the inbox row of its receipt.                   *)
(***************************************************************************)
EXTENDS Inbox

CONSTANTS
  Driver       \* driver tasks the worker may have running at once

VARIABLES
  wf,        \* workflow_instance rows: status, step, label (reviewWireStatus), leased
  driver,    \* each driver task: where it is, its row, and its copy of the row
  asked,     \* requests that have woken the inbox and not yet made their instance
  wfTick,    \* the worker has a tick or a wake to act on
  wfUp       \* the worker runs (its hooks are installed with it)

\* Everything of the inbox but the bounds.
inboxData == <<inbox, outbox, matches, ipc, page, gated, inboxWake, ingress>>
wfOwn == <<wf, driver, asked, wfTick, wfUp>>
workflowVars == <<inboxVars, wfOwn>>

Step == {"startReview", "waitReview", "enqueueNotify", "done"}
WfStatus == {"pending", "running", "waiting", "done", "failed"}
Label == {"none", "done", "failed"}
Instance == [status : WfStatus, step : Step, label : Label, leased : BOOLEAN]
DriverPc == {"idle", "drive", "starting", "polling", "settled", "sending", "sent"}
Idle == [pc |-> "idle", row |-> 0,
         copy |-> [status |-> "pending", step |-> "startReview", label |-> "none",
                   leased |-> FALSE]]

WorkflowInit ==
  /\ InboxInit
  /\ wf = <<>> /\ driver = [d \in Driver |-> Idle] /\ asked = {}
  /\ wfTick = FALSE /\ wfUp = FALSE

-----------------------------------------------------------------------------
(* The receipt: what get_review_receipt reads of the three tables.         *)

\* The outbox row of a receipt, by its rule trace.
ReviewOf(r) == UNION {Range(m.actions) : m \in {n \in matches : n.row = r}}

ReceiptStatus(r) ==
  IF inbox[r].status = "failed" THEN "failed"
  ELSE IF ReviewOf(r) = {} THEN "received"
  ELSE LET a == outbox[CHOOSE i \in ReviewOf(r) : \A j \in ReviewOf(r) : i <= j] IN
       CASE a.status = "pending" -> "queued"
         [] a.status = "blocked" -> "blocked"
         [] a.status = "dead" -> "failed"
         [] OTHER -> CASE a.session = "running" -> "running"
                       [] a.session = "failed" -> "failed"
                       [] OTHER -> "done"

Settled(r) == ReceiptStatus(r) \in {"done", "failed"}

-----------------------------------------------------------------------------
(* Statements on the instance table.                                       *)

\* claim_step: the step must still be the expected one, and nobody be on it.
Claimable(r, step) == wf[r].step = step /\ wf[r].status \in {"pending", "waiting"}
ClaimStep(r) == wf' = [wf EXCEPT ![r].status = "running", ![r].leased = TRUE]

\* Mutant: the row is written whatever step it is at.
UpdateUnguarded(r, step, to) ==
  wf' = [wf EXCEPT ![r] = [status |-> to.status, step |-> to.step,
                           label |-> to.label, leased |-> FALSE]]

\* update_progress: guarded by the step alone, whatever the status has become.
UpdateProgress(r, step, to) ==
  IF wf[r].step = step
  THEN wf' = [wf EXCEPT ![r] = [status |-> to.status, step |-> to.step,
                                label |-> to.label, leased |-> FALSE]]
  ELSE UNCHANGED wf

\* mark_failed_expected: only a running row at the expected step.
MarkFailedExpected(r, step) ==
  IF wf[r].step = step /\ wf[r].status = "running"
  THEN wf' = [wf EXCEPT ![r].status = "failed"] ELSE UNCHANGED wf

Move(d, pc) == driver' = [driver EXCEPT ![d].pc = pc]
Finish(d) == driver' = [driver EXCEPT ![d] = Idle]
\* current_instance: the loop goes on with a fresh copy of the row.
Reread(d, r) == driver' = [driver EXCEPT ![d].pc = "drive", ![d].copy = wf'[r]]

-----------------------------------------------------------------------------
(* The request, the worker and the recovery.                               *)

\* The inbox wake of a request that wants a notice is followed by its instance.
RequestWake(r) ==
  /\ IngressWake(r)
  /\ asked' = IF IsExternal(r) THEN asked \cup {r} ELSE asked
  /\ UNCHANGED <<wf, driver, wfTick, wfUp>>

\* create_or_get_for_receipt, and the wake of the worker.
CreateOrGet(r) ==
  /\ r \in asked /\ asked' = asked \ {r}
  /\ wf' = [q \in DOMAIN wf \cup {r} |-> IF q \in DOMAIN wf THEN wf[q] ELSE Idle.copy]
  /\ wfTick' = TRUE
  /\ UNCHANGED <<inboxVars, driver, wfUp>>

\* WorkflowManager::start: every running row is queued again, then the worker.
WfStart ==
  /\ ~wfUp /\ ipc # "down"
  /\ wfUp' = TRUE /\ wfTick' = TRUE
  /\ wf' = [r \in DOMAIN wf |->
              IF wf[r].status = "running" THEN [wf[r] EXCEPT !.status = "pending", !.leased = FALSE]
              ELSE wf[r]]
  /\ UNCHANGED <<inboxVars, driver, asked>>

WfTicker ==
  /\ wfUp /\ ~wfTick /\ wfTick' = TRUE
  /\ UNCHANGED <<inboxVars, wf, driver, asked, wfUp>>

\* A lease runs out: 5 minutes, or 24 hours of waiting for the receipt.
LeaseExpires(r) ==
  /\ left.trouble > 0 /\ Spend("trouble") /\ wf[r].leased
  /\ wf' = [wf EXCEPT ![r].leased = FALSE]
  /\ UNCHANGED <<inboxData, driver, asked, wfTick, wfUp>>

\* Mutant: a waiting row is somebody's.
DuePending(rows) == {r \in DOMAIN rows : rows[r].status = "pending"}

\* due_instances.
DueInstances(rows) == {r \in DOMAIN rows : rows[r].status \in {"pending", "waiting"}}

\* worker_loop: rows whose lease ran out are queued again, and every due row gets
\* a driver task, whether or not an earlier task still holds a copy of it.
WorkerLoop ==
  LET reset == [r \in DOMAIN wf |->
                  IF wf[r].status = "running" /\ ~wf[r].leased
                  THEN [wf[r] EXCEPT !.status = "pending"] ELSE wf[r]]
      due == DueInstances(reset)
      free == {d \in Driver : driver[d].pc = "idle"}
  IN /\ wfUp /\ wfTick /\ wfTick' = FALSE
     /\ wf' = reset
     /\ \E got \in [due -> free] :
          /\ IsInjective(got)
          /\ driver' = [d \in Driver |->
                          IF d \in Range(got)
                          THEN LET r == CHOOSE q \in due : got[q] = d
                               IN [pc |-> "drive", row |-> r, copy |-> reset[r]]
                          ELSE driver[d]]
     /\ UNCHANGED <<inboxVars, asked, wfUp>>

\* workflow_retry: a failed instance is queued again at the step it failed in.
WfRetry(r) ==
  /\ wfUp /\ left.trouble > 0 /\ Spend("trouble") /\ wf[r].status = "failed"
  /\ wf' = [wf EXCEPT ![r].status = "pending"]
  /\ wfTick' = TRUE
  /\ UNCHANGED <<inboxData, driver, asked, wfUp>>

\* A crash takes the inbox worker, the drivers and the requests with it.
WfCrash ==
  /\ InboxCrash
  /\ driver' = [d \in Driver |-> Idle] /\ asked' = {}
  /\ wfTick' = FALSE /\ wfUp' = FALSE
  /\ UNCHANGED wf

-----------------------------------------------------------------------------
(* drive_instance, on the driver's copy.                                   *)

\* The loop returns on a row that is running, finished, or newly waiting.
Returns(c) ==
  \/ c.status \in {"running", "done", "failed"} \/ c.step = "done"
  \/ c.status = "waiting" /\ c.step = "waitReview"

ClaimedPc == [startReview |-> "starting", waitReview |-> "polling", enqueueNotify |-> "sending"]

\* The first look at a row handed over waiting does not return: only a step does.
DriveClaim(d) ==
  LET r == driver[d].row
      c == driver[d].copy
  IN /\ driver[d].pc = "drive"
     /\ IF c.status \in {"running", "done", "failed"} \/ c.step = "done"
        THEN Finish(d) /\ UNCHANGED wf
        ELSE IF Claimable(r, c.step)
             THEN ClaimStep(r) /\ Move(d, ClaimedPc[c.step])
             ELSE /\ UNCHANGED wf
                  /\ driver' = [driver EXCEPT ![d] =
                       IF Returns(wf[r]) THEN Idle ELSE [driver[d] EXCEPT !.copy = wf[r]]]
     /\ UNCHANGED <<inboxVars, asked, wfTick, wfUp>>

\* resolve_receipt_step: on to the wait; the driver returns on a waiting row.
ResolveReceipt(d) ==
  LET r == driver[d].row IN
  /\ driver[d].pc = "starting"
  /\ UpdateProgress(r, "startReview",
       [status |-> "waiting", step |-> "waitReview", label |-> driver[d].copy.label])
  /\ IF Returns(wf'[r]) THEN Finish(d) ELSE Reread(d, r)
  /\ UNCHANGED <<inboxVars, asked, wfTick, wfUp>>

\* wait_receipt: the poll that finds the receipt settled.
WaitReceipt(d) ==
  LET r == driver[d].row IN
  /\ driver[d].pc = "polling" /\ Settled(r)
  /\ driver' = [driver EXCEPT ![d].pc = "settled", ![d].copy.label = ReceiptStatus(r)]
  /\ UNCHANGED <<inboxVars, wf, asked, wfTick, wfUp>>

RecordOutcome(d) ==
  LET r == driver[d].row IN
  /\ driver[d].pc = "settled"
  /\ UpdateProgress(r, "waitReview",
       [status |-> "pending", step |-> "enqueueNotify", label |-> driver[d].copy.label])
  /\ IF Returns(wf'[r]) THEN Finish(d) ELSE Reread(d, r)
  /\ UNCHANGED <<inboxVars, asked, wfTick, wfUp>>

\* send_notification under the prefix workflow:<id>:notify, in its own transaction.
NoticeKey(r) == <<"workflow", r>>
\* Mutant: the text is the receipt as it is now.
LabelNow(d) == ReceiptStatus(driver[d].row)
\* build_notify_text, from the label that the instance recorded.
NoticeLabel(d) == driver[d].copy.label

SendNotice(d) ==
  LET r == driver[d].row
      sent == EnqueueOnce(outbox, <<"dedupe", NoticeKey(r)>>, NoticeKey(r), "workflow")
  IN /\ driver[d].pc = "sending"
     /\ outbox' = [i \in DOMAIN sent.box |->
                     IF i \in DOMAIN outbox THEN outbox[i]
                     ELSE [sent.box[i] EXCEPT !.label = NoticeLabel(d)]]
     /\ Move(d, "sent")
     /\ UNCHANGED <<inbox, matches, ipc, page, gated, inboxWake, ingress, left>>
     /\ UNCHANGED <<wf, asked, wfTick, wfUp>>

\* No channel is enabled, or the transaction fails.
SendFails(d) ==
  LET r == driver[d].row IN
  /\ driver[d].pc = "sending" /\ left.trouble > 0 /\ Spend("trouble")
  /\ MarkFailedExpected(r, "enqueueNotify")
  /\ Finish(d)
  /\ UNCHANGED <<inbox, outbox, matches, ipc, page, gated, inboxWake, ingress>>
  /\ UNCHANGED <<asked, wfTick, wfUp>>

CompleteNotify(d) ==
  LET r == driver[d].row IN
  /\ driver[d].pc = "sent"
  /\ UpdateProgress(r, "enqueueNotify",
       [status |-> "done", step |-> "done", label |-> driver[d].copy.label])
  /\ IF Returns(wf'[r]) THEN Finish(d) ELSE Reread(d, r)
  /\ UNCHANGED <<inboxVars, asked, wfTick, wfUp>>

Drive(d) ==
  \/ DriveClaim(d) \/ ResolveReceipt(d) \/ WaitReceipt(d)
  \/ RecordOutcome(d) \/ SendNotice(d) \/ CompleteNotify(d)

\* Inbox steps that the workflow only watches.
InboxOnly ==
  /\ \/ \E e \in Event : Deliver(e)
     \/ \E r \in DOMAIN inbox : Replay(r)
     \/ InboxStart \/ InboxWorker \/ CommitPlans \/ Fault
     \/ \E i \in DOMAIN outbox :
          SettleAction(i) \/ BlockAction(i) \/ UnblockAction(i) \/ RequeueAction(i)
  /\ UNCHANGED wfOwn

WorkflowNext ==
  \/ InboxOnly
  \/ \E r \in ingress : RequestWake(r)
  \/ \E r \in asked : CreateOrGet(r)
  \/ WfStart \/ WfTicker \/ WorkerLoop \/ WfCrash
  \/ \E r \in DOMAIN wf : LeaseExpires(r) \/ WfRetry(r)
  \/ \E d \in Driver : Drive(d) \/ SendFails(d)

WorkflowSpec == WorkflowInit /\ [][WorkflowNext]_workflowVars

\* Drivers, the ticker and the worker run, and the program is started again.
WorkflowFair ==
  /\ InboxFair
  /\ WF_workflowVars(\E r \in asked : CreateOrGet(r))
  /\ WF_workflowVars(WfStart)
  /\ WF_workflowVars(wf # <<>> /\ WfTicker)
  /\ WF_workflowVars(WorkerLoop)
  /\ \A d \in Driver : WF_workflowVars(Drive(d))

-----------------------------------------------------------------------------
WorkflowTypeOK ==
  /\ DOMAIN wf \subseteq DOMAIN inbox /\ wf \in [DOMAIN wf -> Instance]
  /\ driver \in [Driver -> [pc : DriverPc, row : Nat, copy : Instance]]
  /\ \A d \in Driver : driver[d].pc # "idle" => driver[d].row \in DOMAIN wf
  /\ asked \subseteq DOMAIN inbox /\ wfTick \in BOOLEAN /\ wfUp \in BOOLEAN

\* One announcement per request, and a true one: whatever restarts, lease losses,
\* retries and second drivers happen, at most one notification row is ever written
\* for a receipt, and its text is the outcome that the instance recorded.
Notices(r) == AnyStatus(outbox, NoticeKey(r))
AnnouncedOnce ==
  \A r \in DOMAIN wf :
    /\ Cardinality(Notices(r)) <= 1
    /\ \A i \in Notices(r) : outbox[i].label = wf[r].label
    /\ wf[r].status = "done" => Notices(r) # {}

\* The recorded outcome is final, and a finished instance stays finished: no driver
\* with an old copy takes it back (update_progress and mark_failed_expected are
\* guarded by the step alone).
OutcomeIsFinal ==
  [][\A r \in DOMAIN wf :
       /\ wf[r].label # "none" => wf'[r].label = wf[r].label
       /\ wf[r].status = "done" => wf'[r].status = "done"]_wf

\* Every instance is announced or fails where the user sees it: no restart, lost
\* lease or returning driver leaves it where nothing will pick it up.
EveryReceiptAnnounced ==
  LET open == {r \in DOMAIN wf : wf[r].status \notin {"done", "failed"}}
  IN open # {} ~> open = {}
=============================================================================
