--------------------------- MODULE WorkflowProofs ---------------------------
(***************************************************************************)
(* The review-notify workflow, for any number of drivers, requests, lost   *)
(* leases, retries and restarts.  The inductive invariant adds to the      *)
(* inbox's: what a row's step says of its label, and that a notice is      *)
(* written only for a recorded outcome, which it carries, and before the   *)
(* row is done (Rows); that a notice is of a known row (NoticesKnown); and *)
(* how old a driver's copy may be (Drivers: a copy that has an outcome has *)
(* the row's).  Every step lemma shows, with the invariant, that the rows  *)
(* only move on (Later), which is the action property.                     *)
(***************************************************************************)
EXTENDS Workflow, InboxProofs, FiniteSetTheorems

\* A row that has recorded its outcome.
Recorded(w) == w.step \in {"enqueueNotify", "done"}

\* What a row's step says of its label and its status.
RowFacts(w) ==
  /\ Recorded(w) <=> w.label # "none"
  /\ w.status = "done" <=> w.step = "done"

\* A notice is written only for a recorded outcome, which it carries, and before
\* the row is done.
Rows ==
  \A r \in DOMAIN wf :
    /\ RowFacts(wf[r])
    /\ Notices(r) # {} => Recorded(wf[r])
    /\ \A i \in Notices(r) : outbox[i].label = wf[r].label
    /\ wf[r].status = "done" => Notices(r) # {}

NoticesKnown == \A r : Notices(r) # {} => r \in DOMAIN wf

\* How old a driver's copy may be: whatever became of the row, a copy that has an
\* outcome has the row's, and one that has none is at a step before it.
DriverOK(d) ==
  driver[d].pc # "idle" =>
    LET pc == driver[d].pc
        c == driver[d].copy
        w == wf[driver[d].row]
    IN /\ pc = "starting" => c.step = "startReview"
       /\ pc \in {"polling", "settled"} => c.step = "waitReview"
       /\ pc \in {"sending", "sent"} => c.step = "enqueueNotify"
       /\ pc = "sent" => Notices(driver[d].row) # {}
       /\ IF pc = "settled" THEN c.label # "none" ELSE Recorded(c) <=> c.label # "none"
       /\ Recorded(c) => Recorded(w) /\ c.label = w.label
Drivers == \A d \in Driver : DriverOK(d)

WorkflowInv == InboxInv /\ WorkflowTypeOK /\ Rows /\ NoticesKnown /\ Drivers

-----------------------------------------------------------------------------
(* What a step leaves alone.                                               *)

DataStill == UNCHANGED <<inbox, outbox, matches, ipc, page, gated, inboxWake, ingress>>

LEMMA InboxStill ==
  ASSUME InboxInv, DataStill
  PROVE  InboxInv' /\ NoWorkflowRows
PROOF
<1>1. PageReceived' BY DEF InboxInv, PageReceived, DataStill
<1>2. InboxInv' BY <1>1, QuietStep DEF InboxInv, InboxTypes, DataStill
<1> QED BY <1>2 DEF NoWorkflowRows, DataStill

LEMMA NoticesStay ==
  ASSUME NoWorkflowRows
  PROVE  \A r : /\ Notices(r)' = Notices(r)
                /\ \A i \in Notices(r) : outbox'[i].label = outbox[i].label
PROOF
<1> SUFFICES ASSUME NEW r
             PROVE  /\ Notices(r)' = Notices(r)
                    /\ \A i \in Notices(r) : outbox'[i].label = outbox[i].label
  OBVIOUS
<1>1. NoticeKey(r)' = NoticeKey(r) /\ NoticeKey(r)[1] = "workflow" BY DEF NoticeKey
<1>2. Notices(r) = {i \in DOMAIN outbox : outbox[i].dedupe = NoticeKey(r)} BY DEF Notices, AnyStatus
<1>3. Notices(r)' = {i \in DOMAIN outbox' : outbox'[i].dedupe = NoticeKey(r)}
  BY <1>1 DEF Notices, AnyStatus
<1>4. ASSUME NEW i \in DOMAIN outbox', outbox'[i].dedupe = NoticeKey(r)
      PROVE  i \in DOMAIN outbox /\ outbox[i].dedupe = NoticeKey(r)
  BY <1>1, <1>4 DEF NoWorkflowRows
<1> QED BY <1>2, <1>3, <1>4 DEF NoWorkflowRows

\* No row is lost, no recorded outcome changes, and no finished row is taken back.
Later ==
  /\ DOMAIN wf \subseteq DOMAIN wf'
  /\ \A r \in DOMAIN wf :
       /\ Recorded(wf[r]) => Recorded(wf'[r]) /\ wf'[r].label = wf[r].label
       /\ wf[r].status = "done" => wf'[r].status = "done"

\* A driver that a step does not touch is as it was, whatever the rows did.
LEMMA DriversStay ==
  ASSUME WorkflowInv, Later, \A r : Notices(r) \subseteq Notices(r)',
         \A d \in Driver : driver'[d] = driver[d] \/ DriverOK(d)'
  PROVE  Drivers'
PROOF
<1> SUFFICES ASSUME NEW d \in Driver, driver'[d] = driver[d], driver[d].pc # "idle"
             PROVE  DriverOK(d)'
  BY DEF Drivers, DriverOK
<1>1. DriverOK(d) /\ driver[d].row \in DOMAIN wf BY DEF WorkflowInv, Drivers, WorkflowTypeOK
<1> QED BY <1>1 DEF DriverOK, Later, Recorded

\* A step that writes no workflow row.
LEMMA WorkflowKept ==
  ASSUME WorkflowInv, InboxInv', NoWorkflowRows, WorkflowTypeOK', Later,
         \A r \in DOMAIN wf' : /\ RowFacts(wf'[r])
                               /\ wf'[r].status = "done" => Notices(r) # {},
         \A d \in Driver : driver'[d] = driver[d] \/ DriverOK(d)'
  PROVE  WorkflowInv' /\ Later
PROOF
<1>1. \A r : /\ Notices(r)' = Notices(r)
             /\ \A i \in Notices(r) : outbox'[i].label = outbox[i].label
  BY NoticesStay
<1>2. Drivers' BY <1>1, DriversStay
<1>3. NoticesKnown'
  <2> SUFFICES ASSUME NEW r, Notices(r)' # {} PROVE r \in DOMAIN wf' BY DEF NoticesKnown
  <2> QED BY <1>1 DEF WorkflowInv, NoticesKnown, Later
<1>4. Rows'
  <2> SUFFICES ASSUME NEW r \in DOMAIN wf'
               PROVE  /\ RowFacts(wf'[r])
                      /\ Notices(r)' # {} => Recorded(wf'[r])
                      /\ \A i \in Notices(r)' : outbox'[i].label = wf'[r].label
                      /\ wf'[r].status = "done" => Notices(r)' # {}
    BY DEF Rows, RowFacts, Recorded
  <2>1. CASE Notices(r) = {} BY <1>1, <2>1
  <2>2. CASE Notices(r) # {}
    <3>1. r \in DOMAIN wf BY <2>2 DEF WorkflowInv, NoticesKnown
    <3>2. Recorded(wf[r]) /\ \A i \in Notices(r) : outbox[i].label = wf[r].label
      BY <2>2, <3>1 DEF WorkflowInv, Rows
    <3> QED BY <1>1, <3>1, <3>2 DEF Later
  <2> QED BY <2>1, <2>2
<1> QED BY <1>2, <1>3, <1>4 DEF WorkflowInv

\* The rows may change their statuses alone.
Restatused ==
  /\ DOMAIN wf' = DOMAIN wf /\ wf' \in [DOMAIN wf -> Instance]
  /\ \A r \in DOMAIN wf : /\ wf'[r].step = wf[r].step /\ wf'[r].label = wf[r].label
                          /\ wf'[r].status = "done" <=> wf[r].status = "done"

LEMMA RestatusedOK ==
  ASSUME WorkflowInv, Restatused
  PROVE  /\ Later
         /\ \A r \in DOMAIN wf' : /\ RowFacts(wf'[r])
                                  /\ wf'[r].status = "done" => Notices(r) # {}
PROOF
<1>1. \A r \in DOMAIN wf : RowFacts(wf[r]) /\ (wf[r].status = "done" => Notices(r) # {})
  BY DEF WorkflowInv, Rows
<1>2. Later BY DEF Restatused, Later, Recorded
<1>3. \A r \in DOMAIN wf' : RowFacts(wf'[r]) BY <1>1 DEF Restatused, RowFacts, Recorded
<1> QED BY <1>1, <1>2, <1>3 DEF Restatused

\* Or stay as they are.
LEMMA WfStill ==
  ASSUME WorkflowInv, UNCHANGED wf
  PROVE  Restatused
BY DEF WorkflowInv, WorkflowTypeOK, Restatused


-----------------------------------------------------------------------------
(* The steps that leave the rows' steps and labels alone.                  *)

LEMMA InboxOnlyStep ==
  ASSUME WorkflowInv, InboxOnly
  PROVE  WorkflowInv' /\ Later
PROOF
<1>1. InboxNext BY DEF InboxOnly, InboxNext
<1>2. InboxInv' /\ NoWorkflowRows
  BY <1>1, InboxStep, InboxAddsNoWorkflowRow DEF WorkflowInv
<1>3. UNCHANGED <<wf, driver, asked, wfTick, wfUp>> BY DEF InboxOnly, wfOwn
<1>4. WorkflowTypeOK' BY <1>2, <1>3 DEF WorkflowInv, WorkflowTypeOK, NoWorkflowRows
<1> QED BY <1>2, <1>3, <1>4, WfStill, RestatusedOK, WorkflowKept

LEMMA RequestWakeStep ==
  ASSUME WorkflowInv, NEW r \in ingress, RequestWake(r)
  PROVE  WorkflowInv' /\ Later
PROOF
<1>1. InboxNext BY DEF RequestWake, InboxNext
<1>2. InboxInv' /\ NoWorkflowRows
  BY <1>1, InboxStep, InboxAddsNoWorkflowRow DEF WorkflowInv
<1>3. UNCHANGED <<wf, driver, wfTick, wfUp>> /\ asked' \in {asked, asked \cup {r}} BY DEF RequestWake
<1>4. r \in DOMAIN inbox BY DEF WorkflowInv, InboxInv, InboxTypes
<1>5. WorkflowTypeOK' BY <1>2, <1>3, <1>4 DEF WorkflowInv, WorkflowTypeOK, NoWorkflowRows
<1> QED BY <1>2, <1>3, <1>5, WfStill, RestatusedOK, WorkflowKept

LEMMA CreateStep ==
  ASSUME WorkflowInv, NEW r \in asked, CreateOrGet(r)
  PROVE  WorkflowInv' /\ Later
PROOF
<1>1. /\ asked' = asked \ {r} /\ wfTick' = TRUE /\ UNCHANGED <<driver, wfUp>> /\ DataStill
      /\ wf' = [q \in DOMAIN wf \cup {r} |-> IF q \in DOMAIN wf THEN wf[q] ELSE Idle.copy]
  BY DEF CreateOrGet, inboxVars, DataStill
<1>2. InboxInv' /\ NoWorkflowRows BY <1>1, InboxStill DEF WorkflowInv
<1>3. r \in DOMAIN inbox /\ WorkflowTypeOK BY DEF WorkflowInv, WorkflowTypeOK
<1>4. CASE r \in DOMAIN wf
  <2>1. UNCHANGED wf BY <1>1, <1>3, <1>4 DEF WorkflowTypeOK
  <2>2. WorkflowTypeOK' BY <1>1, <1>2, <1>3, <2>1 DEF WorkflowTypeOK, NoWorkflowRows
  <2> QED BY <1>1, <1>2, <2>1, <2>2, WfStill, RestatusedOK, WorkflowKept
<1>5. CASE r \notin DOMAIN wf
  <2> DEFINE new == [status |-> "pending", step |-> "startReview", label |-> "none", leased |-> FALSE]
  <2>1. wf' = [q \in DOMAIN wf \cup {r} |-> IF q \in DOMAIN wf THEN wf[q] ELSE new]
    BY <1>1 DEF Idle
  <2>2. new \in Instance /\ RowFacts(new) /\ new.status # "done"
    BY DEF Instance, WfStatus, Step, Label, RowFacts, Recorded
  <2> HIDE DEF new
  <2>3. /\ DOMAIN wf' = DOMAIN wf \cup {r} /\ wf'[r] = new
        /\ \A q \in DOMAIN wf : wf'[q] = wf[q]
        /\ wf' = [q \in DOMAIN wf \cup {r} |-> wf'[q]]
    BY <1>5, <2>1
  <2>4. wf' \in [DOMAIN wf' -> Instance]
    <3>1. \A q \in DOMAIN wf' : wf'[q] \in Instance BY <1>3, <2>2, <2>3 DEF WorkflowTypeOK
    <3> QED BY <2>3, <3>1
  <2>5. WorkflowTypeOK'
    BY <1>1, <1>2, <1>3, <2>3, <2>4 DEF WorkflowTypeOK, NoWorkflowRows
  <2>6. Later BY <2>3 DEF Later
  <2>7. \A q \in DOMAIN wf' : /\ RowFacts(wf'[q])
                              /\ wf'[q].status = "done" => Notices(q) # {}
    BY <2>2, <2>3 DEF WorkflowInv, Rows
  <2> QED BY <1>1, <1>2, <2>5, <2>6, <2>7, WorkflowKept
<1> QED BY <1>4, <1>5

\* A step of the statuses, of which the drivers see nothing.
LEMMA RestatusStep ==
  ASSUME WorkflowInv, DataStill, Restatused,
         driver' \in [Driver -> [pc : DriverPc, row : Nat, copy : Instance]],
         \A d \in Driver : driver'[d] = driver[d] \/ DriverOK(d)',
         \A d \in Driver : driver'[d].pc # "idle" => driver'[d].row \in DOMAIN wf,
         asked' \subseteq asked, wfTick' \in BOOLEAN, wfUp' \in BOOLEAN
  PROVE  WorkflowInv' /\ Later
PROOF
<1>1. InboxInv' /\ NoWorkflowRows BY InboxStill DEF WorkflowInv
<1>2. WorkflowTypeOK'
  BY <1>1 DEF WorkflowInv, WorkflowTypeOK, NoWorkflowRows, Restatused
<1> QED BY <1>1, <1>2, RestatusedOK, WorkflowKept

LEMMA StatusSteps ==
  ASSUME WorkflowInv,
         WfStart \/ WfTicker \/ \E r \in DOMAIN wf : LeaseExpires(r) \/ WfRetry(r)
  PROVE  WorkflowInv' /\ Later
PROOF
<1>0. WorkflowTypeOK BY DEF WorkflowInv
<1>1. CASE WfStart
  <2>1. UNCHANGED <<driver, asked>> /\ DataStill /\ wfTick' = TRUE /\ wfUp' = TRUE
    BY <1>1, Zenon DEF WfStart, inboxVars, DataStill
  <2>2. Restatused
    <3> DEFINE to(r) == IF wf[r].status = "running"
                        THEN [wf[r] EXCEPT !.status = "pending", !.leased = FALSE] ELSE wf[r]
    <3>1. wf' = [r \in DOMAIN wf |-> to(r)] BY <1>1, Zenon DEF WfStart
    <3>2. ASSUME NEW r \in DOMAIN wf
          PROVE  /\ to(r) \in Instance /\ to(r).step = wf[r].step /\ to(r).label = wf[r].label
                 /\ to(r).status = "done" <=> wf[r].status = "done"
      <4>1. wf[r] \in Instance BY <1>0 DEF WorkflowTypeOK
      <4> QED BY <4>1 DEF Instance, WfStatus
    <3> HIDE DEF to
    <3> QED BY <3>1, <3>2 DEF Restatused
  <2> QED BY <1>0, <2>1, <2>2, RestatusStep DEF WorkflowTypeOK
<1>2. CASE WfTicker
  <2>1. UNCHANGED <<wf, driver, asked, wfUp>> /\ DataStill /\ wfTick' = TRUE
    BY <1>2 DEF WfTicker, inboxVars, DataStill
  <2> QED BY <1>0, <2>1, WfStill, RestatusStep DEF WorkflowTypeOK
<1>3. ASSUME NEW r \in DOMAIN wf, LeaseExpires(r) PROVE WorkflowInv' /\ Later
  <2>1. /\ UNCHANGED <<driver, asked, wfTick, wfUp>> /\ DataStill
        /\ wf' = [wf EXCEPT ![r].leased = FALSE]
    BY <1>3 DEF LeaseExpires, inboxData, DataStill
  <2>2. Restatused BY <1>0, <2>1 DEF Restatused, WorkflowTypeOK, Instance
  <2> QED BY <1>0, <2>1, <2>2, RestatusStep DEF WorkflowTypeOK
<1>4. ASSUME NEW r \in DOMAIN wf, WfRetry(r) PROVE WorkflowInv' /\ Later
  <2>1. /\ UNCHANGED <<driver, asked, wfUp>> /\ DataStill /\ wfTick' = TRUE
        /\ wf[r].status = "failed" /\ wf' = [wf EXCEPT ![r].status = "pending"]
    BY <1>4 DEF WfRetry, inboxData, DataStill
  <2>2. Restatused BY <1>0, <2>1 DEF Restatused, WorkflowTypeOK, Instance, WfStatus
  <2> QED BY <1>0, <2>1, <2>2, RestatusStep DEF WorkflowTypeOK
<1> QED BY <1>1, <1>2, <1>3, <1>4

LEMMA CrashStep ==
  ASSUME WorkflowInv, WfCrash
  PROVE  WorkflowInv' /\ Later
PROOF
<1>1. InboxNext BY DEF WfCrash, InboxNext
<1>2. InboxInv' /\ NoWorkflowRows
  BY <1>1, InboxStep, InboxAddsNoWorkflowRow DEF WorkflowInv
<1>3. /\ UNCHANGED wf /\ asked' = {} /\ wfTick' = FALSE /\ wfUp' = FALSE
      /\ driver' = [d \in Driver |-> Idle]
  BY DEF WfCrash
<1>4. Idle \in [pc : DriverPc, row : Nat, copy : Instance] /\ Idle.pc = "idle"
  BY DEF Idle, DriverPc, Instance, WfStatus, Step, Label
<1>5. \A d \in Driver : driver'[d].pc = "idle" BY <1>3, <1>4
<1>6. driver' \in [Driver -> [pc : DriverPc, row : Nat, copy : Instance]] BY <1>3, <1>4
<1>7. WorkflowTypeOK'
  BY <1>2, <1>3, <1>5, <1>6 DEF WorkflowInv, WorkflowTypeOK, NoWorkflowRows
<1> QED BY <1>2, <1>3, <1>5, <1>7, WfStill, RestatusedOK, WorkflowKept DEF DriverOK

-----------------------------------------------------------------------------
(* The drivers.                                                            *)

DriverType == [pc : DriverPc, row : Nat, copy : Instance]

\* A driver that begins with a copy of a row as the row now is.
LEMMA FreshDriver ==
  ASSUME NEW d \in Driver, driver'[d].pc = "drive", RowFacts(wf'[driver'[d].row]),
         driver'[d].copy = wf'[driver'[d].row]
  PROVE  DriverOK(d)'
BY DEF DriverOK, RowFacts, Recorded

LEMMA LoopStep ==
  ASSUME WorkflowInv, WorkerLoop
  PROVE  WorkflowInv' /\ Later
PROOF
<1> DEFINE back(r) == IF wf[r].status = "running" /\ ~wf[r].leased
                      THEN [wf[r] EXCEPT !.status = "pending"] ELSE wf[r]
           reset == [r \in DOMAIN wf |-> back(r)]
           due == DueInstances(reset)
           free == {d \in Driver : driver[d].pc = "idle"}
<1>1. /\ wfTick' = FALSE /\ UNCHANGED <<asked, wfUp>> /\ DataStill
      /\ wf' = reset
  BY DEF WorkerLoop, inboxVars, DataStill
<1>2. PICK got \in [due -> free] :
        /\ IsInjective(got)
        /\ driver' = [d \in Driver |->
                        IF d \in Range(got)
                        THEN LET r == CHOOSE q \in due : got[q] = d
                             IN [pc |-> "drive", row |-> r, copy |-> reset[r]]
                        ELSE driver[d]]
  BY DEF WorkerLoop
<1>3. WorkflowTypeOK BY DEF WorkflowInv
<1>4. Restatused
  <2>1. ASSUME NEW r \in DOMAIN wf
        PROVE  /\ back(r) \in Instance /\ back(r).step = wf[r].step /\ back(r).label = wf[r].label
               /\ back(r).status = "done" <=> wf[r].status = "done"
    <3>1. wf[r] \in Instance BY <1>3 DEF WorkflowTypeOK
    <3> QED BY <3>1 DEF Instance, WfStatus
  <2>2. wf' = [r \in DOMAIN wf |-> back(r)] BY <1>1
  <2> HIDE DEF back
  <2> QED BY <2>1, <2>2 DEF Restatused
<1>5. \A r \in DOMAIN wf : RowFacts(wf'[r]) /\ wf'[r] \in Instance
  BY <1>4, RestatusedOK DEF Restatused
<1>6. due \subseteq DOMAIN wf BY DEF DueInstances
<1> HIDE DEF reset, due, free
<1>7. ASSUME NEW d \in Driver
      PROVE  \/ driver'[d] = driver[d]
             \/ /\ driver'[d] \in DriverType /\ driver'[d].row \in DOMAIN wf
                /\ DriverOK(d)'
  <2>1. CASE d \notin Range(got) BY <1>2, <2>1
  <2>2. CASE d \in Range(got)
    <3> DEFINE r == CHOOSE q \in due : got[q] = d
    <3>1. r \in due
      <4>1. \E q \in due : got[q] = d BY <2>2 DEF Range
      <4> QED BY <4>1
    <3>2. driver'[d] = [pc |-> "drive", row |-> r, copy |-> wf'[r]] BY <1>1, <1>2, <2>2
    <3> HIDE DEF r
    <3>3. r \in DOMAIN wf /\ r \in Nat
      BY <1>3, <1>6, <3>1 DEF WorkflowTypeOK, WorkflowInv, InboxInv, InboxTypes, InboxRows
    <3>4. driver'[d].pc = "drive" /\ driver'[d].row = r /\ driver'[d].copy = wf'[r] BY <3>2
    <3>5. driver'[d] \in DriverType BY <1>5, <3>2, <3>3 DEF DriverType, DriverPc
    <3>6. DriverOK(d)' BY <1>5, <3>3, <3>4, FreshDriver
    <3> QED BY <3>3, <3>4, <3>5, <3>6
  <2> QED BY <2>1, <2>2
<1>8. driver' \in [Driver -> DriverType]
  <2>1. \A d \in Driver : driver'[d] \in DriverType BY <1>3, <1>7 DEF WorkflowTypeOK, DriverType
  <2>2. driver' = [d \in Driver |-> driver'[d]] BY <1>2
  <2> QED BY <2>1, <2>2
<1>9. \A d \in Driver : driver'[d].pc # "idle" => driver'[d].row \in DOMAIN wf
  BY <1>3, <1>7 DEF WorkflowTypeOK
<1> QED BY <1>1, <1>3, <1>4, <1>7, <1>8, <1>9, RestatusStep DEF WorkflowTypeOK, DriverType

\* A driver's row, and what one that moves on to its row as it now is has.
LEMMA Onward ==
  ASSUME WorkflowInv, NEW d \in Driver, driver[d].pc # "idle", NEW r, r = driver[d].row,
         wf' \in [DOMAIN wf -> Instance], DOMAIN wf' = DOMAIN wf, RowFacts(wf'[r]),
         Finish(d) \/ Reread(d, r)
  PROVE  /\ driver' \in [Driver -> DriverType]
         /\ \A e \in Driver : driver'[e] = driver[e] \/ DriverOK(e)'
         /\ \A e \in Driver : driver'[e].pc # "idle" => driver'[e].row \in DOMAIN wf
PROOF
<1>1. WorkflowTypeOK /\ r \in DOMAIN wf BY DEF WorkflowInv, WorkflowTypeOK
<1>2. driver \in [Driver -> DriverType] BY <1>1 DEF WorkflowTypeOK, DriverType
<1>3. wf'[r] \in Instance BY <1>1
<1>4. CASE Finish(d)
  <2>1. Idle \in DriverType /\ Idle.pc = "idle"
    BY DEF Idle, DriverType, DriverPc, Instance, WfStatus, Step, Label
  <2>2. driver' = [driver EXCEPT ![d] = Idle] BY <1>4 DEF Finish
  <2>3. driver'[d].pc = "idle" /\ \A e \in Driver : e # d => driver'[e] = driver[e]
    BY <1>2, <2>1, <2>2
  <2>4. driver' \in [Driver -> DriverType] BY <1>2, <2>1, <2>2
  <2> QED BY <1>1, <2>3, <2>4 DEF DriverOK, WorkflowTypeOK
<1>5. CASE Reread(d, r)
  <2> DEFINE v == [driver[d] EXCEPT !.pc = "drive", !.copy = wf'[r]]
  <2>1. driver' = [driver EXCEPT ![d] = v] BY <1>5 DEF Reread
  <2>2. v \in DriverType /\ v.pc = "drive" /\ v.row = r /\ v.copy = wf'[r]
    <3>1. driver[d] \in DriverType BY <1>2
    <3> QED BY <1>3, <3>1 DEF DriverType, DriverPc
  <2> HIDE DEF v
  <2>3. driver'[d] = v /\ \A e \in Driver : e # d => driver'[e] = driver[e] BY <1>2, <2>1
  <2>4. driver' \in [Driver -> DriverType] BY <1>2, <2>1, <2>2
  <2>5. DriverOK(d)' BY <2>2, <2>3, FreshDriver
  <2> QED BY <1>1, <2>2, <2>3, <2>4, <2>5 DEF WorkflowTypeOK
<1> QED BY <1>4, <1>5

\* A driver's own row and copy, in its place among the types.
LEMMA AtWork ==
  ASSUME WorkflowInv, NEW d \in Driver, driver[d].pc # "idle"
  PROVE  /\ driver \in [Driver -> DriverType] /\ driver[d] \in DriverType
         /\ driver[d].copy \in Instance /\ driver[d].row \in DOMAIN wf
         /\ wf \in [DOMAIN wf -> Instance] /\ wf[driver[d].row] \in Instance
         /\ RowFacts(wf[driver[d].row]) /\ DriverOK(d)
         /\ wfTick \in BOOLEAN /\ wfUp \in BOOLEAN
         /\ \A e \in Driver : driver[e].pc # "idle" => driver[e].row \in DOMAIN wf
PROOF
<1>1. WorkflowTypeOK /\ Rows /\ Drivers BY DEF WorkflowInv
<1>2. driver \in [Driver -> DriverType] BY <1>1 DEF WorkflowTypeOK, DriverType
<1>3. driver[d] \in DriverType BY <1>2
<1> QED BY <1>1, <1>2, <1>3 DEF WorkflowTypeOK, Rows, Drivers, DriverType

\* A driver that only moves to another place.
LEMMA MoveOK ==
  ASSUME WorkflowInv, NEW d \in Driver, driver[d].pc # "idle", NEW pc \in DriverPc, Move(d, pc),
         DriverOK(d)'
  PROVE  /\ driver' \in [Driver -> DriverType]
         /\ \A e \in Driver : driver'[e] = driver[e] \/ DriverOK(e)'
         /\ \A e \in Driver : driver'[e].pc # "idle" => driver'[e].row \in DOMAIN wf
PROOF
<1> DEFINE v == [driver[d] EXCEPT !.pc = pc]
<1>1. driver \in [Driver -> DriverType] /\ driver[d] \in DriverType BY AtWork
<1>2. v \in DriverType /\ v.row = driver[d].row BY <1>1 DEF DriverType
<1>3. driver' = [driver EXCEPT ![d] = v] BY DEF Move
<1> HIDE DEF v
<1>4. driver'[d] = v /\ \A e \in Driver : e # d => driver'[e] = driver[e] BY <1>1, <1>3
<1>5. driver' \in [Driver -> DriverType] BY <1>1, <1>2, <1>3
<1> QED BY <1>2, <1>4, <1>5, AtWork

LEMMA ClaimStepOK ==
  ASSUME WorkflowInv, NEW d \in Driver, DriveClaim(d)
  PROVE  WorkflowInv' /\ Later
PROOF
<1> DEFINE r == driver[d].row
           c == driver[d].copy
<1>1. driver[d].pc = "drive" /\ UNCHANGED <<asked, wfTick, wfUp>> /\ DataStill
  BY DEF DriveClaim, inboxVars, DataStill
<1>2. /\ driver \in [Driver -> DriverType] /\ driver[d] \in DriverType
      /\ c \in Instance /\ r \in DOMAIN wf /\ wf \in [DOMAIN wf -> Instance] /\ wf[r] \in Instance
      /\ RowFacts(wf[r]) /\ DriverOK(d) /\ wfTick \in BOOLEAN /\ wfUp \in BOOLEAN
      /\ \A e \in Driver : driver[e].pc # "idle" => driver[e].row \in DOMAIN wf
  BY <1>1, AtWork
<1> DEFINE over == c.status \in {"running", "done", "failed"} \/ c.step = "done"
<1>3. CASE over
  <2>1. Finish(d) /\ UNCHANGED wf BY <1>3 DEF DriveClaim
  <2>2. /\ wf' \in [DOMAIN wf -> Instance] /\ DOMAIN wf' = DOMAIN wf /\ RowFacts(wf'[r])
    BY <1>2, <2>1
  <2> HIDE DEF over, c
  <2> QED BY <1>1, <1>2, <2>1, <2>2, Onward, WfStill, RestatusStep DEF DriverType
<1>4. CASE ~over /\ Claimable(r, c.step)
  <2>1. ClaimStep(r) /\ Move(d, ClaimedPc[c.step]) BY <1>4 DEF DriveClaim
  <2>2. Restatused
    BY <1>2, <1>4, <2>1 DEF ClaimStep, Claimable, Restatused, Instance, WfStatus
  <2>3. c.step \in {"startReview", "waitReview", "enqueueNotify"}
    BY <1>2, <1>4 DEF Instance, Step
  <2>4. PICK pc \in DriverPc :
          /\ Move(d, pc)
          /\ \/ pc = "starting" /\ c.step = "startReview"
             \/ pc = "polling" /\ c.step = "waitReview"
             \/ pc = "sending" /\ c.step = "enqueueNotify"
    <3>1. CASE c.step = "startReview" BY <2>1, <3>1 DEF ClaimedPc, DriverPc
    <3>2. CASE c.step = "waitReview" BY <2>1, <3>2 DEF ClaimedPc, DriverPc
    <3>3. CASE c.step = "enqueueNotify" BY <2>1, <3>3 DEF ClaimedPc, DriverPc
    <3> QED BY <2>3, <3>1, <3>2, <3>3
  <2>5. driver'[d].pc = pc /\ driver'[d].row = r /\ driver'[d].copy = c
    BY <1>2, <2>4 DEF Move, DriverType
  <2>6. Later BY <2>2, RestatusedOK
  <2> HIDE DEF over
  <2>7. DriverOK(d)' BY <1>1, <1>2, <2>4, <2>5, <2>6 DEF DriverOK, Later, Recorded
  <2> HIDE DEF r, c
  <2> QED BY <1>1, <1>2, <2>2, <2>4, <2>7, MoveOK, RestatusStep DEF DriverType
<1>5. CASE ~over /\ ~Claimable(r, c.step)
  <2>1. /\ UNCHANGED wf
        /\ driver' = [driver EXCEPT ![d] =
             IF Returns(wf[r]) THEN Idle ELSE [driver[d] EXCEPT !.copy = wf[r]]]
    BY <1>5 DEF DriveClaim
  <2>2. /\ wf' \in [DOMAIN wf -> Instance] /\ DOMAIN wf' = DOMAIN wf /\ RowFacts(wf'[r])
    BY <1>2, <2>1
  <2>3. Finish(d) \/ Reread(d, r)
    <3>1. CASE Returns(wf[r]) BY <2>1, <3>1 DEF Finish
    <3>2. CASE ~Returns(wf[r])
      <4>1. [driver[d] EXCEPT !.copy = wf[r]] = [driver[d] EXCEPT !.pc = "drive", !.copy = wf'[r]]
        BY <1>1, <1>2, <2>1 DEF DriverType
      <4>2. driver' = [driver EXCEPT ![d] = [driver[d] EXCEPT !.copy = wf[r]]] BY <2>1, <3>2
      <4> QED BY <4>1, <4>2 DEF Reread
    <3> QED BY <3>1, <3>2
  <2> HIDE DEF over, c
  <2> QED BY <1>1, <1>2, <2>1, <2>2, <2>3, Onward, WfStill, RestatusStep DEF DriverType
<1> QED BY <1>3, <1>4, <1>5

\* update_progress with an outcome that is the recorded one, if there is one.
LEMMA ProgressStep ==
  ASSUME WorkflowInv, NEW d \in Driver, driver[d].pc # "idle", NEW r, r = driver[d].row,
         NEW step, step # "done", NEW st \in WfStatus, NEW sp \in Step, NEW lb \in Label,
         UpdateProgress(r, step, [status |-> st, step |-> sp, label |-> lb]),
         RowFacts([status |-> st, step |-> sp, label |-> lb]),
         step = "enqueueNotify" /\ wf[r].step = step => sp = "done" /\ lb = wf[r].label,
         st = "done" => Notices(r) # {},
         Finish(d) \/ Reread(d, r), DataStill, UNCHANGED <<asked, wfTick, wfUp>>
  PROVE  WorkflowInv' /\ Later
PROOF
<1>1. /\ r \in DOMAIN wf /\ wf \in [DOMAIN wf -> Instance] /\ wf[r] \in Instance
      /\ WorkflowTypeOK
  BY AtWork DEF WorkflowInv
<1>2. \A q \in DOMAIN wf : RowFacts(wf[q]) /\ (wf[q].status = "done" => Notices(q) # {})
  BY DEF WorkflowInv, Rows
<1>3. /\ wf' \in [DOMAIN wf -> Instance] /\ DOMAIN wf' = DOMAIN wf
      /\ Later
      /\ \A q \in DOMAIN wf' : /\ RowFacts(wf'[q])
                               /\ wf'[q].status = "done" => Notices(q) # {}
  <2>1. CASE wf[r].step = step
    <3> DEFINE to == [status |-> st, step |-> sp, label |-> lb, leased |-> FALSE]
    <3>1. wf' = [wf EXCEPT ![r] = to] BY <2>1 DEF UpdateProgress
    <3>2. /\ to \in Instance /\ RowFacts(to) /\ to.status = st /\ to.step = sp /\ to.label = lb
      BY DEF Instance, RowFacts, Recorded
    <3> HIDE DEF to
    <3>3. wf'[r] = to /\ \A q \in DOMAIN wf : q # r => wf'[q] = wf[q] BY <1>1, <3>1
    <3>4. wf' \in [DOMAIN wf -> Instance] /\ DOMAIN wf' = DOMAIN wf BY <1>1, <3>1, <3>2
    <3>5. Recorded(wf[r]) => Recorded(to) /\ to.label = wf[r].label
      BY <2>1, <3>2 DEF Recorded
    <3>6. wf[r].status # "done" BY <1>1, <1>2, <2>1 DEF RowFacts
    <3>7. Later BY <3>3, <3>4, <3>5, <3>6 DEF Later
    <3> QED BY <1>2, <3>2, <3>3, <3>4, <3>7
  <2>2. CASE wf[r].step # step
    <3>1. UNCHANGED wf BY <2>2 DEF UpdateProgress
    <3> QED BY <1>1, <1>2, <3>1 DEF Later
  <2> QED BY <2>1, <2>2
<1>4. /\ driver' \in [Driver -> DriverType]
      /\ \A e \in Driver : driver'[e] = driver[e] \/ DriverOK(e)'
      /\ \A e \in Driver : driver'[e].pc # "idle" => driver'[e].row \in DOMAIN wf
  BY <1>1, <1>3, Onward
<1>5. InboxInv' /\ NoWorkflowRows BY InboxStill DEF WorkflowInv
<1>6. WorkflowTypeOK'
  BY <1>1, <1>3, <1>4, <1>5 DEF WorkflowTypeOK, NoWorkflowRows, DriverType
<1> QED BY <1>3, <1>4, <1>5, <1>6, WorkflowKept

LEMMA ProgressSteps ==
  ASSUME WorkflowInv, NEW d \in Driver, ResolveReceipt(d) \/ RecordOutcome(d) \/ CompleteNotify(d)
  PROVE  WorkflowInv' /\ Later
PROOF
<1> DEFINE r == driver[d].row
           c == driver[d].copy
<1>0. driver[d].pc # "idle" BY DEF ResolveReceipt, RecordOutcome, CompleteNotify
<1>1. /\ c \in Instance /\ r \in DOMAIN wf /\ wf[r] \in Instance /\ DriverOK(d)
      /\ DataStill /\ UNCHANGED <<asked, wfTick, wfUp>> /\ (Finish(d) \/ Reread(d, r))
  BY <1>0, AtWork DEF ResolveReceipt, RecordOutcome, CompleteNotify, inboxVars, DataStill
<1>2. c.label \in Label BY <1>1 DEF Instance
<1>3. CASE ResolveReceipt(d)
  <2>1. /\ driver[d].pc = "starting"
        /\ UpdateProgress(r, "startReview",
             [status |-> "waiting", step |-> "waitReview", label |-> c.label])
    BY <1>3 DEF ResolveReceipt
  <2>2. c.label = "none" BY <1>1, <2>1 DEF DriverOK, Recorded
  <2>3. RowFacts([status |-> "waiting", step |-> "waitReview", label |-> c.label])
    BY <2>2 DEF RowFacts, Recorded
  <2> HIDE DEF r, c
  <2> QED BY <1>0, <1>1, <1>2, <2>1, <2>3, ProgressStep DEF WfStatus, Step, r
<1>4. CASE RecordOutcome(d)
  <2>1. /\ driver[d].pc = "settled"
        /\ UpdateProgress(r, "waitReview",
             [status |-> "pending", step |-> "enqueueNotify", label |-> c.label])
    BY <1>4 DEF RecordOutcome
  <2>2. c.label # "none" BY <1>1, <2>1 DEF DriverOK
  <2>3. RowFacts([status |-> "pending", step |-> "enqueueNotify", label |-> c.label])
    BY <2>2 DEF RowFacts, Recorded
  <2> HIDE DEF r, c
  <2> QED BY <1>0, <1>1, <1>2, <2>1, <2>3, ProgressStep DEF WfStatus, Step, r
<1>5. CASE CompleteNotify(d)
  <2>1. /\ driver[d].pc = "sent"
        /\ UpdateProgress(r, "enqueueNotify",
             [status |-> "done", step |-> "done", label |-> c.label])
    BY <1>5 DEF CompleteNotify
  <2>2. /\ Notices(r) # {} /\ c.label = wf[r].label /\ c.label # "none"
    BY <1>1, <2>1 DEF DriverOK, Recorded
  <2>3. RowFacts([status |-> "done", step |-> "done", label |-> c.label])
    BY <2>2 DEF RowFacts, Recorded
  <2> HIDE DEF r, c
  <2> QED BY <1>0, <1>1, <1>2, <2>1, <2>2, <2>3, ProgressStep DEF WfStatus, Step, r
<1> QED BY <1>3, <1>4, <1>5

LEMMA WaitStep ==
  ASSUME WorkflowInv, NEW d \in Driver, WaitReceipt(d)
  PROVE  WorkflowInv' /\ Later
PROOF
<1> DEFINE r == driver[d].row
           v == [driver[d] EXCEPT !.pc = "settled",
                                  !.copy = [driver[d].copy EXCEPT !.label = ReceiptStatus(r)]]
<1>1. /\ driver[d].pc = "polling" /\ ReceiptStatus(r) \in {"done", "failed"}
      /\ driver' = [driver EXCEPT ![d].pc = "settled", ![d].copy.label = ReceiptStatus(r)]
      /\ DataStill /\ UNCHANGED <<wf, asked, wfTick, wfUp>>
  BY DEF WaitReceipt, Settled, inboxVars, DataStill
<1>2. /\ driver \in [Driver -> DriverType] /\ driver[d] \in DriverType
      /\ driver[d].copy \in Instance /\ DriverOK(d) /\ r \in DOMAIN wf
      /\ wfTick \in BOOLEAN /\ wfUp \in BOOLEAN
      /\ \A e \in Driver : driver[e].pc # "idle" => driver[e].row \in DOMAIN wf
  BY <1>1, AtWork
<1>3. driver' = [driver EXCEPT ![d] = v] BY <1>1
<1>4. /\ v \in DriverType /\ v.pc = "settled" /\ v.row = r /\ v.copy.label # "none"
      /\ v.copy.step = driver[d].copy.step
  BY <1>1, <1>2 DEF DriverType, DriverPc, Instance, Label
<1>5. driver[d].copy.step = "waitReview" BY <1>1, <1>2 DEF DriverOK
<1> HIDE DEF v
<1>6. driver'[d] = v /\ \A e \in Driver : e # d => driver'[e] = driver[e] BY <1>2, <1>3
<1>7. driver' \in [Driver -> DriverType] BY <1>2, <1>3, <1>4
<1>8. DriverOK(d)' BY <1>4, <1>5, <1>6 DEF DriverOK, Recorded
<1>9. \A e \in Driver : driver'[e].pc # "idle" => driver'[e].row \in DOMAIN wf
  BY <1>2, <1>4, <1>6
<1> QED BY <1>1, <1>2, <1>6, <1>7, <1>8, <1>9, WfStill, RestatusStep DEF DriverType

LEMMA SendFailsStep ==
  ASSUME WorkflowInv, NEW d \in Driver, SendFails(d)
  PROVE  WorkflowInv' /\ Later
PROOF
<1> DEFINE r == driver[d].row
<1>1. /\ driver[d].pc = "sending" /\ MarkFailedExpected(r, "enqueueNotify") /\ Finish(d)
      /\ DataStill /\ UNCHANGED <<asked, wfTick, wfUp>>
  BY DEF SendFails, DataStill
<1>2. /\ r \in DOMAIN wf /\ wf \in [DOMAIN wf -> Instance] /\ wf[r] \in Instance
      /\ wfTick \in BOOLEAN /\ wfUp \in BOOLEAN
  BY <1>1, AtWork
<1>3. Restatused
  <2>1. CASE wf[r].step = "enqueueNotify" /\ wf[r].status = "running"
    <3>1. wf' = [wf EXCEPT ![r].status = "failed"] BY <1>1, <2>1 DEF MarkFailedExpected
    <3> QED BY <1>2, <2>1, <3>1 DEF Restatused, Instance, WfStatus
  <2>2. CASE ~(wf[r].step = "enqueueNotify" /\ wf[r].status = "running")
    BY <1>1, <2>2, WfStill DEF MarkFailedExpected
  <2> QED BY <2>1, <2>2
<1>4. /\ wf' \in [DOMAIN wf -> Instance] /\ DOMAIN wf' = DOMAIN wf /\ RowFacts(wf'[r])
  BY <1>2, <1>3, RestatusedOK DEF Restatused
<1>5. driver[d].pc # "idle" BY <1>1
<1> QED BY <1>1, <1>2, <1>3, <1>4, <1>5, Onward, RestatusStep DEF DriverType

-----------------------------------------------------------------------------
(* The notice itself.                                                      *)

\* The key of a workflow's notice is no rule's, and its producer key nobody's else.
LEMMA NoticeProducer ==
  ASSUME InboxRows, NEW row, ByRule(row) \/ ByWorkflow(row), NEW r,
         row.producer = <<"dedupe", NoticeKey(r)>>
  PROVE  row.dedupe = NoticeKey(r)
PROOF
<1>1. CASE ByWorkflow(row)
  <2>1. <<"dedupe", row.dedupe>> = <<"dedupe", NoticeKey(r)>> BY <1>1 DEF ByWorkflow
  <2> QED BY <2>1
<1>2. CASE ByRule(row)
  <2>2. PICK q \in DOMAIN inbox :
          \E rule \in Range(RulesFor(q)) : \E a \in Range(rule.actions) : MadeFor(row, q, rule, a)
    BY <1>2 DEF ByRule
  <2>3. PICK rule \in Range(RulesFor(q)) : \E a \in Range(rule.actions) : MadeFor(row, q, rule, a)
    BY <2>2
  <2>1. PICK a \in Range(rule.actions) : MadeFor(row, q, rule, a)
    BY <2>3
  <2>4. ProducerKey(q, rule, a) = <<"dedupe", NoticeKey(r)>> BY <2>1 DEF MadeFor
  <2>5. CASE IsReview(a)
    <3>1. <<"rule", q, rule.id, a.id>> = <<"dedupe", NoticeKey(r)>> BY <2>4, <2>5 DEF ProducerKey
    <3> QED BY <3>1
  <2>6. CASE ~IsReview(a)
    <3>1. <<"dedupe", DedupeKey(q, rule, a)>> = <<"dedupe", NoticeKey(r)>>
      BY <2>4, <2>6 DEF ProducerKey
    <3>2. DedupeKey(q, rule, a) = NoticeKey(r) BY <3>1
    <3> QED BY <2>1, <3>2 DEF MadeFor
  <2> QED BY <2>5, <2>6
<1> QED BY <1>1, <1>2

\* Either the notice is there already, or one row is appended.
LEMMA SendShape ==
  ASSUME WorkflowInv, NEW d \in Driver, SendNotice(d), NEW r, r = driver[d].row
  PROVE  IF Notices(r) # {} THEN outbox' = outbox
         ELSE outbox' = Append(outbox, [producer |-> <<"dedupe", NoticeKey(r)>>,
                dedupe |-> NoticeKey(r), kind |-> "workflow", status |-> "pending",
                session |-> "none", label |-> driver[d].copy.label])
PROOF
<1> DEFINE p == <<"dedupe", NoticeKey(r)>>
           sent == EnqueueOnce(outbox, p, NoticeKey(r), "workflow")
           row == [producer |-> p, dedupe |-> NoticeKey(r), kind |-> "workflow",
                   status |-> "pending", session |-> "none", label |-> "none"]
           told == [producer |-> p, dedupe |-> NoticeKey(r), kind |-> "workflow",
                    status |-> "pending", session |-> "none", label |-> driver[d].copy.label]
<1>1. outbox' = [i \in DOMAIN sent.box |->
                   IF i \in DOMAIN outbox THEN outbox[i]
                   ELSE [sent.box[i] EXCEPT !.label = driver[d].copy.label]]
  BY DEF SendNotice, NoticeLabel
<1>2. PICK K : outbox \in Seq(OutboxRow(K)) BY DEF WorkflowInv, InboxInv, BoxOK
<1>3. outbox = [i \in DOMAIN outbox |-> outbox[i]] BY <1>2
<1>4. CASE Notices(r) # {}
  <2>1. sent.box = outbox BY <1>4 DEF Notices, EnqueueOnce
  <2> HIDE DEF sent
  <2>2. outbox' = [i \in DOMAIN outbox |-> outbox[i]] BY <1>1, <2>1
  <2> QED BY <1>3, <1>4, <2>2
<1>5. CASE Notices(r) = {}
  <2>1. sent = EnqueueInner(outbox, p, NoticeKey(r), "workflow")
    BY <1>5 DEF Notices, EnqueueOnce
  <2>2. \A i \in DOMAIN outbox : outbox[i].dedupe # NoticeKey(r)
    BY <1>5 DEF Notices, AnyStatus
  <2>3. \A i \in DOMAIN outbox : outbox[i].producer # p
    <3> SUFFICES ASSUME NEW i \in DOMAIN outbox, outbox[i].producer = p PROVE FALSE
      OBVIOUS
    <3>1. InboxRows /\ (ByRule(outbox[i]) \/ ByWorkflow(outbox[i]))
      BY DEF WorkflowInv, InboxInv, InboxTypes, BoxOK
    <3> QED BY <2>2, <3>1, NoticeProducer
  <2>4. sent = [box |-> Append(outbox, row), id |-> Len(outbox) + 1]
    BY <2>1, <2>2, <2>3 DEF EnqueueInner
  <2>5. [row EXCEPT !.label = driver[d].copy.label] = told OBVIOUS
  <2> HIDE DEF sent, row, told
  <2>6. sent.box = Append(outbox, row) BY <2>4
  <2>7. /\ Len(outbox) \in Nat /\ DOMAIN outbox = 1..Len(outbox)
        /\ DOMAIN Append(outbox, row) = 1..(Len(outbox) + 1)
        /\ DOMAIN Append(outbox, told) = 1..(Len(outbox) + 1)
        /\ \A i \in DOMAIN outbox : Append(outbox, told)[i] = outbox[i]
        /\ Append(outbox, row)[Len(outbox) + 1] = row
        /\ Append(outbox, told)[Len(outbox) + 1] = told
        /\ Append(outbox, told) = [i \in 1..(Len(outbox) + 1) |-> Append(outbox, told)[i]]
    <3> DEFINE S == OutboxRow(K) \cup {row, told}
    <3>1. OutboxRow(K) \subseteq S /\ row \in S /\ told \in S OBVIOUS
    <3> HIDE DEF S
    <3>2. outbox \in Seq(S) BY <1>2, <3>1, LargerSeq
    <3>3. Append(outbox, told) \in Seq(S) BY <3>1, <3>2
    <3>4. Len(outbox) \in Nat /\ DOMAIN outbox = 1..Len(outbox) BY <3>2
    <3>5. /\ DOMAIN Append(outbox, row) = 1..(Len(outbox) + 1)
          /\ Append(outbox, row)[Len(outbox) + 1] = row
      BY <3>1, <3>2
    <3>6. /\ DOMAIN Append(outbox, told) = 1..(Len(outbox) + 1)
          /\ Append(outbox, told)[Len(outbox) + 1] = told
          /\ \A i \in DOMAIN outbox : Append(outbox, told)[i] = outbox[i]
      BY <3>1, <3>2
    <3>7. Append(outbox, told) = [i \in DOMAIN Append(outbox, told) |-> Append(outbox, told)[i]]
      <4> DEFINE longer == Append(outbox, told)
      <4>1. longer \in Seq(S) BY <3>3
      <4> HIDE DEF longer
      <4>2. longer = [i \in DOMAIN longer |-> longer[i]] BY <4>1
      <4> QED BY <4>2 DEF longer
    <3> QED BY <3>4, <3>5, <3>6, <3>7
  <2>8. outbox' = [i \in 1..(Len(outbox) + 1) |->
                     IF i \in DOMAIN outbox THEN outbox[i]
                     ELSE [Append(outbox, row)[i] EXCEPT !.label = driver[d].copy.label]]
    BY <1>1, <2>6, <2>7
  <2>9. \A i \in 1..(Len(outbox) + 1) :
          Append(outbox, told)[i] = IF i \in DOMAIN outbox THEN outbox[i]
            ELSE [Append(outbox, row)[i] EXCEPT !.label = driver[d].copy.label]
    BY <2>5, <2>7
  <2>10. outbox' = Append(outbox, told) BY <2>7, <2>8, <2>9
  <2> QED BY <1>5, <2>10 DEF told
<1> QED BY <1>4, <1>5

LEMMA SendStep ==
  ASSUME WorkflowInv, NEW d \in Driver, SendNotice(d)
  PROVE  WorkflowInv' /\ Later
PROOF
<1>0. PICK r : r = driver[d].row OBVIOUS
<1> DEFINE lb == driver[d].copy.label
           row == [producer |-> <<"dedupe", NoticeKey(r)>>, dedupe |-> NoticeKey(r),
                   kind |-> "workflow", status |-> "pending", session |-> "none", label |-> lb]
<1>1. /\ driver[d].pc = "sending" /\ Move(d, "sent")
      /\ UNCHANGED <<inbox, matches, ipc, page, gated, inboxWake, ingress>>
      /\ UNCHANGED <<wf, asked, wfTick, wfUp>>
  BY DEF SendNotice
<1>2. /\ driver \in [Driver -> DriverType] /\ driver[d] \in DriverType
      /\ driver[d].copy \in Instance /\ DriverOK(d) /\ r \in DOMAIN wf
      /\ RowFacts(wf[r]) /\ wfTick \in BOOLEAN /\ wfUp \in BOOLEAN
      /\ \A e \in Driver : driver[e].pc # "idle" => driver[e].row \in DOMAIN wf
  BY <1>0, <1>1, AtWork
<1>3. /\ driver[d].copy.step = "enqueueNotify" /\ Recorded(wf[r]) /\ lb = wf[r].label
      /\ lb \in Label /\ lb # "none"
  BY <1>0, <1>1, <1>2 DEF DriverOK, Recorded, Instance
<1>4. /\ InboxRows /\ EventsKept /\ BoxOK(outbox) /\ DOMAIN wf \subseteq DOMAIN inbox
      /\ PageReceived /\ PlansWhole
  BY <1>1 DEF WorkflowInv, InboxInv, InboxTypes, EventsKept, WorkflowTypeOK
<1>5. IF Notices(r) # {} THEN outbox' = outbox ELSE outbox' = Append(outbox, row)
  BY <1>0, SendShape
<1>6. /\ driver'[d].pc = "sent" /\ driver'[d].row = r /\ driver'[d].copy = driver[d].copy
      /\ \A e \in Driver : e # d => driver'[e] = driver[e]
  BY <1>0, <1>1, <1>2 DEF Move, DriverType
<1>7. CASE Notices(r) # {}
  <2>1. outbox' = outbox BY <1>5, <1>7
  <2>2. DataStill BY <1>1, <2>1 DEF DataStill
  <2>3. InboxInv' /\ NoWorkflowRows BY <2>2, InboxStill DEF WorkflowInv
  <2>4. Notices(r)' # {} BY <1>7, <2>3, NoticesStay
  <2>5. DriverOK(d)' BY <1>1, <1>3, <1>6, <2>4 DEF DriverOK, Recorded
  <2>6. "sent" \in DriverPc /\ driver[d].pc # "idle" BY <1>1 DEF DriverPc
  <2> QED BY <1>1, <1>2, <2>2, <2>5, <2>6, MoveOK, WfStill, RestatusStep DEF DriverType
<1>8. CASE Notices(r) = {}
  <2>1. outbox' = Append(outbox, row) BY <1>5, <1>8
  <2>2. /\ row \in OutboxRow({<<"dedupe", NoticeKey(r)>>, NoticeKey(r)}) /\ row.kind = "workflow"
        /\ row.dedupe = NoticeKey(r) /\ row.producer = <<"dedupe", NoticeKey(r)>> /\ row.label = lb
    BY <1>3 DEF OutboxRow, Kind, Label
  <2>3. ByWorkflow(row) BY <1>2, <1>4, <2>2 DEF ByWorkflow, NoticeKey
  <2>4. \A i \in DOMAIN outbox : outbox[i].dedupe # row.dedupe
    BY <1>8, <2>2 DEF Notices, AnyStatus
  <2> HIDE DEF row, lb
  <2>5. /\ BoxOK(Append(outbox, row)) /\ Len(outbox) \in Nat
        /\ \A i \in DOMAIN outbox : Append(outbox, row)[i] = outbox[i]
        /\ DOMAIN Append(outbox, row) = DOMAIN outbox \cup {Len(outbox) + 1}
        /\ Append(outbox, row)[Len(outbox) + 1] = row
    BY <1>4, <2>2, <2>3, <2>4, AppendRow
  <2>6. /\ DOMAIN outbox' = DOMAIN outbox \cup {Len(outbox) + 1}
        /\ outbox'[Len(outbox) + 1] = row /\ \A i \in DOMAIN outbox : outbox'[i] = outbox[i]
        /\ Len(outbox) + 1 \notin DOMAIN outbox
    <3>1. DOMAIN outbox = 1..Len(outbox) BY <1>4 DEF BoxOK
    <3> QED BY <2>1, <2>5, <3>1
  <2>7. InboxInv'
    <3>1. PICK K : outbox' \in Seq(OutboxRow(K)) BY <2>1, <2>5 DEF BoxOK
    <3>2. BoxOK(outbox)'
      <4> DEFINE box == Append(outbox, row)
      <4>1. BoxOK(box) /\ outbox' = box BY <2>1, <2>5
      <4> HIDE DEF box
      <4> QED BY <1>4, <3>1, <4>1, BoxKept
    <3>3. KeysGrow BY <2>6 DEF KeysGrow
    <3>4. PlansWhole'
      BY <1>1, <1>4, <3>3, WholeKept DEF PlansWhole
    <3>5. InboxTypes' BY <1>1 DEF WorkflowInv, InboxInv, InboxTypes, InboxRows
    <3>6. PageReceived' BY <1>1, <1>4 DEF PageReceived
    <3> QED BY <3>2, <3>4, <3>5, <3>6 DEF InboxInv
  <2>8. Notices(r)' = {Len(outbox) + 1} /\ \A q : q # r => Notices(q)' = Notices(q)
    <3>1. ASSUME NEW q
          PROVE  /\ Notices(q) = {i \in DOMAIN outbox : outbox[i].dedupe = <<"workflow", q>>}
                 /\ Notices(q)' = {i \in DOMAIN outbox' : outbox'[i].dedupe = <<"workflow", q>>}
      BY DEF Notices, AnyStatus, NoticeKey
    <3>2. row.dedupe = <<"workflow", r>> BY <2>2 DEF NoticeKey
    <3>3. Notices(r)' = {Len(outbox) + 1} BY <1>8, <2>6, <3>1, <3>2
    <3>4. ASSUME NEW q, q # r PROVE Notices(q)' = Notices(q)
      <4>1. row.dedupe # <<"workflow", q>> BY <3>2, <3>4
      <4>2. \A i : i \in DOMAIN outbox' /\ outbox'[i].dedupe = <<"workflow", q>> <=>
                  i \in DOMAIN outbox /\ outbox[i].dedupe = <<"workflow", q>>
        BY <2>6, <4>1
      <4> QED BY <3>1, <4>2
    <3> QED BY <3>3, <3>4
  <2>9. NoticesKnown' BY <1>1, <1>2, <2>8 DEF WorkflowInv, NoticesKnown
  <2>10. Rows'
    <3> SUFFICES ASSUME NEW q \in DOMAIN wf
                 PROVE  /\ RowFacts(wf[q])
                        /\ Notices(q)' # {} => Recorded(wf[q])
                        /\ \A i \in Notices(q)' : outbox'[i].label = wf[q].label
                        /\ wf[q].status = "done" => Notices(q)' # {}
      BY <1>1 DEF Rows, RowFacts, Recorded
    <3>1. CASE q = r
      BY <1>2, <1>3, <2>2, <2>6, <2>8, <3>1
    <3>2. CASE q # r
      <4>1. Notices(q) \subseteq DOMAIN outbox BY DEF Notices, AnyStatus
      <4> QED BY <2>6, <2>8, <3>2, <4>1 DEF WorkflowInv, Rows
    <3> QED BY <3>1, <3>2
  <2>11. DriverOK(d)'
    <3>1. Notices(r)' # {} BY <2>8
    <3> QED BY <1>1, <1>3, <1>6, <3>1 DEF DriverOK, Recorded, lb
  <2>12. Later BY <1>1 DEF Later
  <2>13. \A q : Notices(q) \subseteq Notices(q)' BY <1>8, <2>8
  <2>14. Drivers' BY <1>6, <2>11, <2>12, <2>13, DriversStay
  <2>15. WorkflowTypeOK'
    <3>1. "sent" \in DriverPc /\ driver[d].pc # "idle" BY <1>1 DEF DriverPc
    <3>2. /\ driver' \in [Driver -> DriverType]
          /\ \A e \in Driver : driver'[e].pc # "idle" => driver'[e].row \in DOMAIN wf
      BY <1>1, <2>11, <3>1, MoveOK
    <3> QED BY <1>1, <3>2 DEF WorkflowInv, WorkflowTypeOK, DriverType
  <2> QED BY <2>7, <2>9, <2>10, <2>12, <2>14, <2>15 DEF WorkflowInv
<1> QED BY <1>7, <1>8

-----------------------------------------------------------------------------
(* Together.                                                               *)

LEMMA WorkflowStep ==
  ASSUME WorkflowInv, WorkflowNext
  PROVE  WorkflowInv' /\ Later
BY InboxOnlyStep, RequestWakeStep, CreateStep, StatusSteps, CrashStep, LoopStep, ClaimStepOK,
   ProgressSteps, WaitStep, SendFailsStep, SendStep DEF WorkflowNext, Drive

\* A program that no request has reached.
WorkflowEmpty ==
  /\ InboxEmpty
  /\ wf = <<>> /\ driver = [d \in Driver |-> Idle] /\ asked = {} /\ wfTick = FALSE
  /\ wfUp \in BOOLEAN

LEMMA WorkflowEmptyInv == WorkflowEmpty => WorkflowInv
PROOF
<1> SUFFICES ASSUME WorkflowEmpty PROVE WorkflowInv OBVIOUS
<1>1. /\ InboxEmpty /\ wf = <<>> /\ driver = [d \in Driver |-> Idle] /\ asked = {}
      /\ wfTick = FALSE /\ wfUp \in BOOLEAN
  BY DEF WorkflowEmpty
<1>2. InboxInv BY <1>1, InboxEmptyInv
<1>3. outbox = <<>> BY <1>1 DEF InboxEmpty
<1>4. \A r : Notices(r) = {} BY <1>3 DEF Notices, AnyStatus
<1>5. Idle \in DriverType /\ Idle.pc = "idle"
  BY DEF Idle, DriverType, DriverPc, Instance, WfStatus, Step, Label
<1>6. /\ driver \in [Driver -> DriverType] /\ \A d \in Driver : driver[d].pc = "idle"
  BY <1>1, <1>5
<1>7. wf \in [DOMAIN wf -> Instance] /\ DOMAIN wf = {} BY <1>1
<1>8. WorkflowTypeOK
  <2>1. wfTick \in BOOLEAN /\ wfUp \in BOOLEAN BY <1>1
  <2> QED BY <1>1, <1>6, <1>7, <2>1 DEF WorkflowTypeOK, DriverType
<1> QED BY <1>2, <1>4, <1>6, <1>7, <1>8 DEF WorkflowInv, Rows, NoticesKnown, Drivers, DriverOK

LEMMA WorkflowInitInv == WorkflowInit => WorkflowInv
BY WorkflowEmptyInv DEF WorkflowInit, WorkflowEmpty, InboxInit, InboxEmpty

LEMMA WorkflowStutter ==
  ASSUME WorkflowInv, UNCHANGED workflowVars
  PROVE  WorkflowInv' /\ UNCHANGED wf
PROOF
<1>1. DataStill /\ UNCHANGED <<wf, driver, asked, wfTick, wfUp>>
  BY DEF workflowVars, inboxVars, wfOwn, DataStill
<1>2. WorkflowTypeOK BY DEF WorkflowInv
<1> QED BY <1>1, <1>2, WfStill, RestatusStep DEF WorkflowTypeOK

LEMMA WorkflowInvariance == WorkflowSpec => []WorkflowInv
PROOF
<1>1. WorkflowInv /\ [WorkflowNext]_workflowVars => WorkflowInv' BY WorkflowStep, WorkflowStutter
<1> QED BY WorkflowInitInv, <1>1, PTL DEF WorkflowSpec

\* Types of the workflow over the inbox that it watches.
THEOREM WorkflowTypeCorrect == WorkflowSpec => [](InboxTypeOK /\ WorkflowTypeOK)
PROOF
<1>1. WorkflowInv => InboxTypeOK /\ WorkflowTypeOK
  BY InboxTypesTogether DEF WorkflowInv, InboxInv
<1> QED BY WorkflowInvariance, <1>1, PTL

\* For any number of drivers, requests and troubles: one announcement per request,
\* with the outcome that its instance recorded, and none finished without it.
THEOREM OneAnnouncement == WorkflowSpec => []AnnouncedOnce
PROOF
<1>1. WorkflowInv => AnnouncedOnce
  <2> SUFFICES ASSUME WorkflowInv, NEW r \in DOMAIN wf
               PROVE  /\ Cardinality(Notices(r)) <= 1
                      /\ \A i \in Notices(r) : outbox[i].label = wf[r].label
                      /\ wf[r].status = "done" => Notices(r) # {}
    BY DEF AnnouncedOnce
  <2>1. ASSUME NEW i \in Notices(r), NEW j \in Notices(r) PROVE i = j
    <3>1. /\ i \in DOMAIN outbox /\ j \in DOMAIN outbox /\ outbox[i].dedupe = outbox[j].dedupe
          /\ outbox[i].dedupe[1] = "workflow"
      BY DEF Notices, AnyStatus, NoticeKey
    <3>2. InboxRows /\ BoxOK(outbox) BY DEF WorkflowInv, InboxInv, InboxTypes
    <3>3. ~IsReview(outbox[i]) BY <3>1, <3>2, RowHeads DEF BoxOK
    <3> QED BY <3>1, <3>2, <3>3 DEF BoxOK
  <2>2. Cardinality(Notices(r)) <= 1
    <3>1. CASE Notices(r) = {} BY <3>1, FS_EmptySet
    <3>2. CASE Notices(r) # {}
      <4>1. PICK i : Notices(r) = {i} BY <2>1, <3>2
      <4>2. Cardinality({i}) = 1 BY FS_Singleton
      <4> QED BY <4>1, <4>2
    <3> QED BY <3>1, <3>2
  <2> QED BY <2>2 DEF WorkflowInv, Rows
<1> QED BY WorkflowInvariance, <1>1, PTL

\* And no step, of any driver with however old a copy, takes an outcome back.
THEOREM RecordedOutcomesStay == WorkflowSpec => OutcomeIsFinal
PROOF
<1> DEFINE Final == \A r \in DOMAIN wf :
                      /\ wf[r].label # "none" => wf'[r].label = wf[r].label
                      /\ wf[r].status = "done" => wf'[r].status = "done"
<1>1. WorkflowInv /\ [WorkflowNext]_workflowVars => [Final]_wf
  <2> SUFFICES ASSUME WorkflowInv, [WorkflowNext]_workflowVars, wf' # wf PROVE Final
    OBVIOUS
  <2>1. Later BY WorkflowStep, WorkflowStutter
  <2>2. \A r \in DOMAIN wf : RowFacts(wf[r]) BY DEF WorkflowInv, Rows
  <2> QED BY <2>1, <2>2 DEF Later, RowFacts
<1> QED BY WorkflowInvariance, <1>1, PTL DEF WorkflowSpec, OutcomeIsFinal
=============================================================================
