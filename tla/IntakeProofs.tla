---------------------------- MODULE IntakeProofs ----------------------------
(***************************************************************************)
(* PR discovery, for any loops, pulls, re-feeds and versions, and the      *)
(* three parts of the intake side by side.                                 *)
(*                                                                         *)
(* Discovery: nobody's copy of the row is older than the row while he may  *)
(* write it, because only the holder of the lock has one (WriteLocked);    *)
(* with it, every rewrite keeps the flag or is the command that asks for   *)
(* it (FlagIsRow, which unlike ArchiveKept also speaks of a row that is    *)
(* not there yet: the next insert must find the flag down).                *)
(***************************************************************************)
EXTENDS MCIntake, WorkflowProofs

\* Who has the lock, and only he, holds a copy of the row, and it is the row.
WriteLocked ==
  \A w \in Writer :
    /\ writer[w].stage = "loaded" <=> wlock = w
    /\ writer[w].stage = "loaded" => writer[w].copy = tracked

\* A row that is not there yet is not archived, and nothing was asked for it.
FlagIsRow == tracked.archived = flagged

DiscoveryInv == DiscoveryTypeOK /\ WriteLocked /\ FlagIsRow

\* What a writer knows and holds.
WriterState ==
  [stage : {"rest", "listed", "loaded"}, version : 0..MaxVersion, flag : BOOLEAN,
   write : WriteKind, copy : Row]
LoopState == [pc : {"none", "idle", "cycle", "exited"}, reconfigure : BOOLEAN, stop : BOOLEAN]

\* A set of schedulers has an oldest one.
LEMMA OldestLoop ==
  ASSUME NEW fresh \in SUBSET Loop, fresh # {}
  PROVE  (CHOOSE l \in fresh : \A k \in fresh : l <= k) \in fresh
PROOF
<1>1. fresh \subseteq Nat BY LoopAssumption
<1>2. PICK x \in fresh : \A y \in fresh : ~(y < x) BY <1>1, Least
<1>3. x \in Nat BY <1>1
<1>4. \A y \in fresh : x <= y BY <1>1, <1>2, <1>3
<1> QED BY <1>4

\* What the saves write.
LEMMA Written ==
  ASSUME DiscoveryTypeOK, NEW w \in Writer
  PROVE  /\ Upsert(w) \in Row /\ Upsert(w).archived = writer[w].copy.archived
         /\ SetArchived(w) \in Row
         /\ SetArchived(w).archived =
              IF writer[w].copy.seen THEN writer[w].flag ELSE writer[w].copy.archived
PROOF
<1>1. writer[w] \in WriterState BY DEF DiscoveryTypeOK, WriterState
<1>2. writer[w].copy \in Row BY <1>1 DEF WriterState
<1>3. Upsert(w) \in Row /\ Upsert(w).archived = writer[w].copy.archived
  BY <1>1, <1>2 DEF Upsert, Row, WriterState
<1>4. CASE writer[w].copy.seen
  <2>1. SetArchived(w) = [writer[w].copy EXCEPT !.archived = writer[w].flag]
    BY <1>4 DEF SetArchived
  <2> QED BY <1>1, <1>2, <1>3, <1>4, <2>1 DEF Row, WriterState
<1>5. CASE ~writer[w].copy.seen
  <2>1. SetArchived(w) = writer[w].copy BY <1>5 DEF SetArchived
  <2> QED BY <1>2, <1>3, <1>5, <2>1
<1> QED BY <1>4, <1>5

RegistryTypes ==
  /\ upstream \in 0..MaxVersion /\ tracked \in Row /\ flagged \in BOOLEAN
  /\ wlock \in Writer \cup {NoWriter} /\ writer \in [Writer -> WriterState]
SchedulerTypes ==
  /\ mapped \in Loop \cup {NoLoop} /\ pulling \in Puller \cup {NoWriter}
  /\ loop \in [Loop -> LoopState] /\ inflight \in BOOLEAN /\ changes \in 0..MaxConfig

LEMMA TypesTogether == DiscoveryTypeOK <=> RegistryTypes /\ SchedulerTypes
BY DEF DiscoveryTypeOK, RegistryTypes, SchedulerTypes, WriterState, LoopState

\* Every step keeps the types of the row and its writers.
LEMMA RegistryTypesStep ==
  ASSUME RegistryTypes, SchedulerTypes, [DiscoveryNext]_discoveryVars
  PROVE  RegistryTypes'
PROOF
<1> USE LoopAssumption
       DEF RegistryTypes, registryVars, schedulerVars
<1>1. CASE Change
  BY <1>1 DEF Change
<1>2. CASE RefeedRow
  <2>1. PICK v \in 0..upstream :
          writer' = [writer EXCEPT ![Webhook].stage = "listed", ![Webhook].version = v,
                       ![Webhook].write = IF v \in Open THEN "upsert" ELSE "present"]
    BY <1>2, Zenon DEF RefeedRow
  <2> DEFINE k == IF v \in Open THEN "upsert" ELSE "present"
  <2>5. v \in 0..MaxVersion /\ k \in WriteKind BY DEF WriteKind
  <2>6. writer[Webhook] \in WriterState BY DEF Writer
  <2>7. writer' = [writer EXCEPT ![Webhook] =
          [writer[Webhook] EXCEPT !.stage = "listed", !.version = v, !.write = k]]
    BY <2>1 DEF Writer, WriterState
  <2> HIDE DEF k
  <2>2. [writer[Webhook] EXCEPT !.stage = "listed", !.version = v, !.write = k] \in WriterState
    <3> HIDE DEF RegistryTypes
    <3> QED BY <2>5, <2>6 DEF WriterState
  <2>4. UNCHANGED <<upstream, tracked, flagged, wlock>> BY <1>2 DEF RefeedRow
  <2> QED BY <2>2, <2>4, <2>7
<1>3. CASE Archive
  <2>1. PICK b \in BOOLEAN :
          writer' = [writer EXCEPT ![Archiver].stage = "listed", ![Archiver].flag = b]
    BY <1>3 DEF Archive
  <2>2. [writer[Archiver] EXCEPT !.stage = "listed", !.flag = b] \in WriterState
    BY DEF Writer, WriterState
  <2>3. writer' = [writer EXCEPT ![Archiver] =
          [writer[Archiver] EXCEPT !.stage = "listed", !.flag = b]]
    BY <2>1 DEF Writer, WriterState
  <2>4. UNCHANGED <<upstream, tracked, flagged, wlock>> BY <1>3 DEF Archive
  <2> QED BY <2>2, <2>3, <2>4
<1>4. ASSUME NEW w \in Loop \cup Puller, List(w) PROVE RegistryTypes'
  <2> DEFINE k == IF upstream \in Open THEN "upsert" ELSE "nothing"
  <2>2. writer' = [writer EXCEPT ![w] =
          [writer[w] EXCEPT !.stage = "listed", !.version = upstream, !.write = k]]
    BY <1>4 DEF List, Writer, WriterState
  <2>4. k \in WriteKind BY DEF WriteKind
  <2> HIDE DEF k
  <2>1. [writer[w] EXCEPT !.stage = "listed", !.version = upstream, !.write = k] \in WriterState
    <3>1. writer[w] \in WriterState /\ upstream \in 0..MaxVersion BY DEF Writer
    <3> HIDE DEF RegistryTypes
    <3> QED BY <2>4, <3>1 DEF WriterState
  <2>3. UNCHANGED <<upstream, tracked, flagged, wlock>> BY <1>4 DEF List
  <2> QED BY <2>1, <2>2, <2>3
<1>12. ASSUME NEW w \in Loop \cup Puller, ListMisses(w) PROVE RegistryTypes'
  <2>1. [writer[w] EXCEPT !.stage = "listed"] \in WriterState
    <3>1. writer[w] \in WriterState BY DEF Writer
    <3> HIDE DEF RegistryTypes
    <3> QED BY <3>1 DEF WriterState
  <2>2. writer' = [writer EXCEPT ![w] = [writer[w] EXCEPT !.stage = "listed"]]
    BY <1>12 DEF ListMisses, Writer, WriterState
  <2>3. UNCHANGED <<upstream, tracked, flagged, wlock>> BY <1>12 DEF ListMisses
  <2> QED BY <2>1, <2>2, <2>3
<1>5. ASSUME NEW w \in Loop \cup Puller, SaveCycle(w) PROVE RegistryTypes'
  <2>1. Resting \in WriterState BY LoopAssumption DEF Resting, NoRow, Row, WriteKind, WriterState
  <2>2. w \in Writer BY DEF Writer
  <2>3. Upsert(w) \in Row BY <2>2, Written, TypesTogether
  <2>4. /\ writer' = [writer EXCEPT ![w] = Resting] /\ tracked' = Upsert(w)
        /\ wlock' = NoWriter /\ UNCHANGED upstream
    BY <1>5 DEF SaveCycle, Save
  <2>5. flagged' \in BOOLEAN BY <1>5 DEF SaveCycle
  <2> QED BY <2>1, <2>3, <2>4, <2>5
<1>6. CASE SaveWebhook
  <2>1. Resting \in WriterState BY LoopAssumption DEF Resting, NoRow, Row, WriteKind, WriterState
  <2>2. Webhook \in Writer BY DEF Writer
  <2>3. Upsert(Webhook) \in Row BY <2>2, Written, TypesTogether
  <2>4. /\ writer' = [writer EXCEPT ![Webhook] = Resting] /\ tracked' = Upsert(Webhook)
        /\ wlock' = NoWriter /\ UNCHANGED upstream
    BY <1>6 DEF SaveWebhook, Save
  <2>5. flagged' \in BOOLEAN BY <1>6 DEF SaveWebhook
  <2> QED BY <2>1, <2>3, <2>4, <2>5
<1>7. CASE SaveArchive
  <2>1. Resting \in WriterState BY LoopAssumption DEF Resting, NoRow, Row, WriteKind, WriterState
  <2>2. Archiver \in Writer BY DEF Writer
  <2>3. SetArchived(Archiver) \in Row BY <2>2, Written, TypesTogether
  <2>4. /\ writer' = [writer EXCEPT ![Archiver] = Resting] /\ tracked' = SetArchived(Archiver)
        /\ wlock' = NoWriter /\ UNCHANGED upstream
    BY <1>7 DEF SaveArchive, Save
  <2>5. flagged' \in BOOLEAN BY <1>7, <2>2 DEF SaveArchive, WriterState
  <2> QED BY <2>1, <2>3, <2>4, <2>5
<1>8. ASSUME NEW w \in Writer, Load(w) PROVE RegistryTypes'
  <2>1. [writer[w] EXCEPT !.stage = "loaded", !.copy = tracked] \in WriterState
    BY DEF WriterState
  <2>2. writer' = [writer EXCEPT ![w] = [writer[w] EXCEPT !.stage = "loaded", !.copy = tracked]]
    BY <1>8 DEF Load, WriterState
  <2>3. UNCHANGED <<upstream, tracked, flagged>> /\ wlock' = w BY <1>8 DEF Load
  <2> QED BY <2>1, <2>2, <2>3
<1>9. ASSUME NEW l \in Loop, Stopped(l) PROVE RegistryTypes'
  <2>1. Resting \in WriterState BY LoopAssumption DEF Resting, NoRow, Row, WriteKind, WriterState
  <2>2. writer' = [writer EXCEPT ![l] = Resting] BY <1>9 DEF Stopped
  <2>3. UNCHANGED <<upstream, tracked, flagged, wlock>> BY <1>9 DEF Stopped
  <2> QED BY <2>1, <2>2, <2>3
<1>10. ASSUME NEW p \in Puller, DropPull(p) PROVE RegistryTypes'
  <2>1. Resting \in WriterState BY LoopAssumption DEF Resting, NoRow, Row, WriteKind, WriterState
  <2>2. writer' = [writer EXCEPT ![p] = Resting] BY <1>10 DEF DropPull
  <2>3. UNCHANGED <<upstream, tracked, flagged, wlock>> BY <1>10 DEF DropPull
  <2> QED BY <2>1, <2>2, <2>3
<1>11. CASE UNCHANGED <<upstream, tracked, flagged, wlock, writer>>
  BY <1>11
<1> HIDE DEF RegistryTypes, registryVars, schedulerVars
<1> QED
  <2>1. ASSUME Eligible \/ Ineligible
       PROVE  UNCHANGED <<upstream, tracked, flagged, wlock, writer>>
    BY <2>1 DEF Eligible, Ineligible, registryVars, schedulerVars
  <2>2. ASSUME NEW w \in Loop \cup Puller,
         ListFails(w)
       PROVE  UNCHANGED <<upstream, tracked, flagged, wlock, writer>>
    BY <2>2 DEF ListFails, registryVars, schedulerVars
  <2>3. ASSUME NEW l \in Loop,
         Tick(l) \/ Reconfigured(l)
       PROVE  UNCHANGED <<upstream, tracked, flagged, wlock, writer>>
    BY <2>3 DEF Tick, Reconfigured, registryVars, schedulerVars
  <2>4. ASSUME NEW p \in Puller,
         BeginPull(p)
       PROVE  UNCHANGED <<upstream, tracked, flagged, wlock, writer>>
    BY <2>4 DEF BeginPull, registryVars, schedulerVars
  <2>5. CASE UNCHANGED discoveryVars
    BY <2>5, <1>11 DEF discoveryVars, registryVars, schedulerVars
  <2> QED BY <1>1, <1>2, <1>3, <1>4, <1>5, <1>6, <1>7, <1>8, <1>9, <1>10, <1>11, <1>12, <2>1, <2>2,
     <2>3, <2>4, <2>5 DEF DiscoveryNext

\* And of the schedulers.
LEMMA SchedulerTypesStep ==
  ASSUME SchedulerTypes, [DiscoveryNext]_discoveryVars
  PROVE  SchedulerTypes'
PROOF
<1> USE LoopAssumption
       DEF SchedulerTypes, registryVars, schedulerVars
<1>1. CASE RefeedRow
  BY <1>1 DEF RefeedRow
<1>2. CASE Archive
  BY <1>2 DEF Archive
<1>3. CASE Eligible
  <2> DEFINE fresh == {l \in Loop : loop[l].pc = "none"}
  <2>1. changes' \in 0..MaxConfig /\ UNCHANGED <<inflight, pulling>> BY <1>3 DEF Eligible
  <2>2. CASE mapped # NoLoop
    <3>1. loop' = [loop EXCEPT ![mapped].reconfigure = TRUE] /\ UNCHANGED mapped
      BY <1>3, <2>2 DEF Eligible, Permit
    <3>2. loop' \in [Loop -> LoopState] BY <3>1 DEF LoopState
    <3> QED BY <2>1, <3>1, <3>2
  <2>3. CASE mapped = NoLoop
    <3>1. /\ fresh # {} /\ mapped' = CHOOSE l \in fresh : \A k \in fresh : l <= k
          /\ loop' = [loop EXCEPT ![mapped'].pc = "idle"]
      BY <1>3, <2>3 DEF Eligible
    <3>2. mapped' \in Loop BY <3>1, OldestLoop
    <3>3. loop' \in [Loop -> LoopState] BY <3>1 DEF LoopState
    <3> QED BY <2>1, <3>2, <3>3
  <2> QED BY <2>2, <2>3
<1>4. CASE Ineligible
  <2>1. loop' = [loop EXCEPT ![mapped].stop = TRUE] BY <1>4 DEF Ineligible, Permit
  <2>2. loop' \in [Loop -> LoopState] BY <2>1 DEF LoopState
  <2> QED BY <1>4, <2>2 DEF Ineligible
<1>5. ASSUME NEW w \in Loop \cup Puller, ListFails(w) PROVE SchedulerTypes'
  <2>1. loop' \in [Loop -> LoopState]
    BY <1>5 DEF ListFails, LoopState
  <2>2. UNCHANGED mapped /\ changes' \in 0..MaxConfig BY <1>5 DEF ListFails
  <2>3. \/ UNCHANGED <<inflight, pulling>>
        \/ inflight' = FALSE /\ pulling' = NoWriter
    BY <1>5 DEF ListFails
  <2> QED BY <2>1, <2>2, <2>3
<1>6. ASSUME NEW w \in Loop \cup Puller, SaveCycle(w) PROVE SchedulerTypes'
  <2>1. loop' \in [Loop -> LoopState]
    BY <1>6 DEF SaveCycle, LoopState
  <2> QED BY <1>6, <2>1 DEF SaveCycle
<1>7. ASSUME NEW l \in Loop, Tick(l) PROVE SchedulerTypes'
  <2>1. loop' \in [Loop -> LoopState]
    BY <1>7 DEF Tick, LoopState
  <2> QED BY <1>7, <2>1 DEF Tick
<1>8. ASSUME NEW l \in Loop, Reconfigured(l) PROVE SchedulerTypes'
  <2>1. loop' \in [Loop -> LoopState]
    BY <1>8 DEF Reconfigured, LoopState
  <2> QED BY <1>8, <2>1 DEF Reconfigured
<1>9. ASSUME NEW l \in Loop, Stopped(l) PROVE SchedulerTypes'
  <2>1. loop' \in [Loop -> LoopState]
    BY <1>9 DEF Stopped, LoopState
  <2> QED BY <1>9, <2>1 DEF Stopped
<1>10. ASSUME NEW p \in Puller, BeginPull(p) PROVE SchedulerTypes'
  BY <1>10 DEF BeginPull
<1>11. ASSUME NEW p \in Puller, DropPull(p) PROVE SchedulerTypes'
  <2>1. /\ inflight' = FALSE /\ pulling' = NoWriter /\ UNCHANGED <<mapped, loop>>
        /\ changes' \in 0..MaxConfig
    BY <1>11 DEF DropPull
  <2> QED BY <2>1
<1>12. CASE UNCHANGED <<mapped, loop, inflight, pulling, changes>>
  BY <1>12
<1>13. ASSUME NEW w \in Loop \cup Puller, ListMisses(w) PROVE SchedulerTypes'
  BY <1>13 DEF ListMisses
<1> HIDE DEF SchedulerTypes, registryVars, schedulerVars
<1> QED
  <2>1. ASSUME Change \/ SaveWebhook \/ SaveArchive
       PROVE  UNCHANGED <<mapped, loop, inflight, pulling, changes>>
    BY <2>1 DEF Change, SaveWebhook, SaveArchive, registryVars, schedulerVars
  <2>2. ASSUME NEW w \in Loop \cup Puller,
         List(w)
       PROVE  UNCHANGED <<mapped, loop, inflight, pulling, changes>>
    BY <2>2 DEF List, registryVars, schedulerVars
  <2>3. ASSUME NEW w \in Writer,
         Load(w)
       PROVE  UNCHANGED <<mapped, loop, inflight, pulling, changes>>
    BY <2>3 DEF Load, registryVars, schedulerVars
  <2>4. CASE UNCHANGED discoveryVars
    BY <2>4, <1>12 DEF discoveryVars, registryVars, schedulerVars
  <2> QED BY <1>1, <1>2, <1>3, <1>4, <1>5, <1>6, <1>7, <1>8, <1>9, <1>10, <1>11, <1>12,
     <1>13, <2>1, <2>2, <2>3, <2>4 DEF DiscoveryNext

\* The lock covers a load, what is made of it and its save.
LEMMA WriteLockedStep ==
  ASSUME RegistryTypes, WriteLocked, [DiscoveryNext]_discoveryVars
  PROVE  WriteLocked'
PROOF
<1> USE LoopAssumption
       DEF RegistryTypes, WriteLocked, registryVars, schedulerVars
<1>1. CASE RefeedRow
  <2>1. Webhook \in Writer BY DEF Writer
  <2>2. /\ writer[Webhook].stage # "loaded" /\ writer'[Webhook].stage # "loaded"
        /\ \A u \in Writer : u # Webhook => writer'[u] = writer[u]
    BY <1>1, <2>1 DEF RefeedRow, Resting, WriterState
  <2>3. UNCHANGED <<tracked, wlock>> BY <1>1 DEF RefeedRow
  <2> QED BY <2>1, <2>2, <2>3
<1>2. CASE Archive
  <2>1. Archiver \in Writer BY DEF Writer
  <2>2. /\ writer[Archiver].stage # "loaded" /\ writer'[Archiver].stage # "loaded"
        /\ \A u \in Writer : u # Archiver => writer'[u] = writer[u]
    BY <1>2, <2>1 DEF Archive, Resting, WriterState
  <2>3. UNCHANGED <<tracked, wlock>> BY <1>2 DEF Archive
  <2> QED BY <2>1, <2>2, <2>3
<1>3. ASSUME NEW w \in Loop \cup Puller, List(w) \/ ListMisses(w) PROVE WriteLocked'
  <2>1. w \in Writer BY DEF Writer
  <2>2. /\ writer[w].stage # "loaded" /\ writer'[w].stage # "loaded"
        /\ \A u \in Writer : u # w => writer'[u] = writer[u]
    BY <1>3, <2>1 DEF List, ListMisses, Discovering, Resting, WriterState
  <2>3. UNCHANGED <<tracked, wlock>> BY <1>3 DEF List, ListMisses
  <2> QED BY <2>1, <2>2, <2>3
<1>4. ASSUME NEW w \in Loop \cup Puller, SaveCycle(w) PROVE WriteLocked'
  <2>1. w \in Writer BY DEF Writer
  <2>2. /\ writer[w].stage = "loaded" /\ writer'[w].stage = "rest" /\ wlock' = NoWriter
        /\ \A u \in Writer : u # w => writer'[u] = writer[u]
    BY <1>4, <2>1 DEF SaveCycle, Save, Resting
  <2>3. NoWriter \notin Writer BY LoopAssumption DEF Writer
  <2> QED BY <2>1, <2>2, <2>3
<1>5. CASE SaveWebhook
  <2>1. Webhook \in Writer BY DEF Writer
  <2>2. /\ writer[Webhook].stage = "loaded" /\ writer'[Webhook].stage = "rest" /\ wlock' = NoWriter
        /\ \A u \in Writer : u # Webhook => writer'[u] = writer[u]
    BY <1>5, <2>1 DEF SaveWebhook, Save, Resting
  <2>3. NoWriter \notin Writer BY LoopAssumption DEF Writer
  <2> QED BY <2>1, <2>2, <2>3
<1>6. CASE SaveArchive
  <2>1. Archiver \in Writer BY DEF Writer
  <2>2. /\ writer[Archiver].stage = "loaded" /\ writer'[Archiver].stage = "rest" /\ wlock' = NoWriter
        /\ \A u \in Writer : u # Archiver => writer'[u] = writer[u]
    BY <1>6, <2>1 DEF SaveArchive, Save, Resting
  <2>3. NoWriter \notin Writer BY LoopAssumption DEF Writer
  <2> QED BY <2>1, <2>2, <2>3
<1>7. ASSUME NEW w \in Writer, Load(w) PROVE WriteLocked'
  <2>1. /\ writer'[w].stage = "loaded" /\ writer'[w].copy = tracked
        /\ \A u \in Writer : u # w => writer'[u] = writer[u]
    BY <1>7 DEF Load, WriterState
  <2>2. wlock = NoWriter /\ wlock' = w /\ UNCHANGED tracked BY <1>7 DEF Load
  <2>3. NoWriter \notin Writer BY DEF Writer
  <2> QED BY <2>1, <2>2, <2>3
<1>8. ASSUME NEW l \in Loop, Stopped(l) PROVE WriteLocked'
  <2>1. l \in Writer BY DEF Writer
  <2>2. /\ writer[l].stage # "loaded" /\ writer'[l].stage # "loaded"
        /\ \A u \in Writer : u # l => writer'[u] = writer[u]
    BY <1>8, <2>1 DEF Stopped, Resting, WriterState
  <2>3. UNCHANGED <<tracked, wlock>> BY <1>8 DEF Stopped
  <2> QED BY <2>1, <2>2, <2>3
<1>9. ASSUME NEW p \in Puller, DropPull(p) PROVE WriteLocked'
  <2>1. p \in Writer BY DEF Writer
  <2>2. /\ writer[p].stage # "loaded" /\ writer'[p].stage # "loaded"
        /\ \A u \in Writer : u # p => writer'[u] = writer[u]
    BY <1>9, <2>1 DEF DropPull, Resting, WriterState
  <2>3. UNCHANGED <<tracked, wlock>> BY <1>9 DEF DropPull
  <2> QED BY <2>1, <2>2, <2>3
<1>10. CASE UNCHANGED <<tracked, wlock, writer>>
  BY <1>10
<1> HIDE DEF RegistryTypes, WriteLocked, registryVars, schedulerVars
<1> QED
  <2>1. ASSUME Change \/ Eligible \/ Ineligible
       PROVE  UNCHANGED <<tracked, wlock, writer>>
    BY <2>1 DEF Change, Eligible, Ineligible, registryVars, schedulerVars
  <2>2. ASSUME NEW w \in Loop \cup Puller,
         ListFails(w)
       PROVE  UNCHANGED <<tracked, wlock, writer>>
    BY <2>2 DEF ListFails, registryVars, schedulerVars
  <2>3. ASSUME NEW l \in Loop,
         Tick(l) \/ Reconfigured(l)
       PROVE  UNCHANGED <<tracked, wlock, writer>>
    BY <2>3 DEF Tick, Reconfigured, registryVars, schedulerVars
  <2>4. ASSUME NEW p \in Puller,
         BeginPull(p)
       PROVE  UNCHANGED <<tracked, wlock, writer>>
    BY <2>4 DEF BeginPull, registryVars, schedulerVars
  <2>5. CASE UNCHANGED discoveryVars
    BY <2>5, <1>10 DEF discoveryVars, registryVars, schedulerVars
  <2> QED BY <1>1, <1>2, <1>3, <1>4, <1>5, <1>6, <1>7, <1>8, <1>9, <1>10, <2>1, <2>2, <2>3,
     <2>4, <2>5 DEF DiscoveryNext

\* Whatever is saved keeps the flag, or is the command that asks for it.
LEMMA FlagIsRowStep ==
  ASSUME DiscoveryTypeOK, WriteLocked, FlagIsRow, [DiscoveryNext]_discoveryVars
  PROVE  FlagIsRow'
PROOF
<1> USE DEF FlagIsRow, registryVars, schedulerVars
<1>1. CASE RefeedRow
  BY <1>1 DEF RefeedRow
<1>2. CASE Archive
  BY <1>2 DEF Archive
<1>3. ASSUME NEW w \in Loop \cup Puller, SaveCycle(w) PROVE FlagIsRow'
  <2>1. w \in Writer /\ writer[w].stage = "loaded" BY <1>3 DEF SaveCycle, Save, Writer
  <2>2. writer[w].copy = tracked BY <2>1 DEF WriteLocked
  <2>3. Upsert(w).archived = tracked.archived BY <2>1, <2>2, Written
  <2> QED BY <1>3, <2>3 DEF SaveCycle, Save, FlagIsRow
<1>4. CASE SaveWebhook
  <2>1. Webhook \in Writer /\ writer[Webhook].stage = "loaded" BY <1>4 DEF SaveWebhook, Save, Writer
  <2>2. writer[Webhook].copy = tracked BY <2>1 DEF WriteLocked
  <2>3. Upsert(Webhook).archived = tracked.archived BY <2>1, <2>2, Written
  <2> QED BY <1>4, <2>3 DEF SaveWebhook, Save, FlagIsRow
<1>5. CASE SaveArchive
  <2>1. Archiver \in Writer /\ writer[Archiver].stage = "loaded"
    BY <1>5 DEF SaveArchive, Save, Writer
  <2>2. writer[Archiver].copy = tracked BY <2>1 DEF WriteLocked
  <2>3. SetArchived(Archiver).archived =
          IF tracked.seen THEN writer[Archiver].flag ELSE tracked.archived
    BY <2>1, <2>2, Written
  <2> QED BY <1>5, <2>2, <2>3 DEF SaveArchive, Save, FlagIsRow
<1>6. CASE UNCHANGED <<tracked, flagged>>
  BY <1>6
<1> HIDE DEF FlagIsRow, registryVars, schedulerVars
<1> QED
  <2>1. ASSUME Change \/ Eligible \/ Ineligible
       PROVE  UNCHANGED <<tracked, flagged>>
    BY <2>1 DEF Change, Eligible, Ineligible, registryVars, schedulerVars
  <2>2. ASSUME NEW w \in Loop \cup Puller,
         List(w) \/ ListMisses(w) \/ ListFails(w)
       PROVE  UNCHANGED <<tracked, flagged>>
    BY <2>2 DEF List, ListMisses, ListFails, registryVars, schedulerVars
  <2>3. ASSUME NEW w \in Writer,
         Load(w)
       PROVE  UNCHANGED <<tracked, flagged>>
    BY <2>3 DEF Load, registryVars, schedulerVars
  <2>4. ASSUME NEW l \in Loop,
         Tick(l) \/ Reconfigured(l) \/ Stopped(l)
       PROVE  UNCHANGED <<tracked, flagged>>
    BY <2>4 DEF Tick, Reconfigured, Stopped, registryVars, schedulerVars
  <2>5. ASSUME NEW p \in Puller,
         BeginPull(p) \/ DropPull(p)
       PROVE  UNCHANGED <<tracked, flagged>>
    BY <2>5 DEF BeginPull, DropPull, registryVars, schedulerVars
  <2>6. CASE UNCHANGED discoveryVars
    BY <2>6, <1>6 DEF discoveryVars, registryVars, schedulerVars
  <2> QED BY <1>1, <1>2, <1>3, <1>4, <1>5, <1>6, <2>1, <2>2, <2>3, <2>4, <2>5, <2>6 DEF DiscoveryNext

LEMMA DiscoveryInitInv == DiscoveryInit => DiscoveryInv
PROOF
<1> SUFFICES ASSUME DiscoveryInit PROVE DiscoveryInv OBVIOUS
<1> USE LoopAssumption DEF DiscoveryInit
<1>0. flagged = FALSE /\ inflight = FALSE OBVIOUS
<1>1. NoRow \in Row BY DEF NoRow, Row
<1>2. Resting \in WriterState
  <2> HIDE DEF DiscoveryInit
  <2> QED BY DEF Resting, NoRow, Row, WriteKind, WriterState
<1>3. RegistryTypes
  <2>1. /\ upstream \in 0..MaxVersion /\ tracked \in Row /\ wlock \in Writer \cup {NoWriter}
        /\ writer \in [Writer -> WriterState]
    BY <1>1, <1>2
  <2>2. flagged \in BOOLEAN BY <1>0
  <2> QED BY <2>1, <2>2 DEF RegistryTypes
<1>4. SchedulerTypes
  <2>1. inflight \in BOOLEAN BY <1>0
  <2>2. NewLoop \in LoopState BY DEF NewLoop, LoopState
  <2>3. loop \in [Loop -> LoopState] /\ mapped \in Loop \cup {NoLoop}
        /\ pulling \in Puller \cup {NoWriter} /\ changes \in 0..MaxConfig
    BY <2>2
  <2> HIDE DEF DiscoveryInit
  <2> QED BY <2>1, <2>3 DEF SchedulerTypes
<1>5. WriteLocked BY DEF WriteLocked, Resting, Writer
<1>6. FlagIsRow BY DEF FlagIsRow, NoRow
<1> QED BY <1>3, <1>4, <1>5, <1>6, TypesTogether DEF DiscoveryInv

LEMMA DiscoveryStep ==
  ASSUME DiscoveryInv, [DiscoveryNext]_discoveryVars
  PROVE  DiscoveryInv'
PROOF
<1>1. RegistryTypes /\ SchedulerTypes BY TypesTogether DEF DiscoveryInv
<1>2. RegistryTypes' /\ SchedulerTypes' BY <1>1, RegistryTypesStep, SchedulerTypesStep
<1>3. DiscoveryTypeOK'
  BY <1>2 DEF DiscoveryTypeOK, RegistryTypes, SchedulerTypes, WriterState, LoopState
<1>4. WriteLocked' /\ FlagIsRow'
  BY <1>1, WriteLockedStep, FlagIsRowStep DEF DiscoveryInv
<1> QED BY <1>3, <1>4 DEF DiscoveryInv

LEMMA DiscoveryInvariance == DiscoverySpec => []DiscoveryInv
BY DiscoveryInitInv, DiscoveryStep, PTL DEF DiscoverySpec

\* Types.
THEOREM DiscoveryTypeCorrect == DiscoverySpec => []DiscoveryTypeOK
PROOF
<1>1. DiscoveryInv => DiscoveryTypeOK BY DEF DiscoveryInv
<1> QED BY DiscoveryInvariance, <1>1, PTL

\* For any loops, pulls, re-feeds and versions: the archive flag is never lost.
THEOREM ArchiveFlagSurvives == DiscoverySpec => []ArchiveKept
PROOF
<1>1. DiscoveryInv => ArchiveKept BY DEF DiscoveryInv, FlagIsRow, ArchiveKept
<1> QED BY DiscoveryInvariance, <1>1, PTL

-----------------------------------------------------------------------------
(* The parts together: a step of one is a stutter of the others.           *)

IntakeInv == WorkflowInv /\ DiscoveryInv

LEMMA IntakeInitInv == IntakeInit => IntakeInv
PROOF
<1> SUFFICES ASSUME IntakeInit PROVE IntakeInv OBVIOUS
<1>1. DiscoveryInv BY DiscoveryInitInv DEF IntakeInit
<1>2. WorkflowInit \/ (InboxEmpty /\ IdleWorkflow)
  BY DEF IntakeInit, InboxInit, InboxEmpty, IdleInbox
<1>3. WorkflowInv BY <1>2, WorkflowInitInv, WorkflowEmptyInv DEF IdleWorkflow, WorkflowEmpty
<1> QED BY <1>1, <1>3 DEF IntakeInv

\* The rules' part runs the inbox without a workflow.
LEMMA RulesStep ==
  ASSUME WorkflowInv, InboxNext, UNCHANGED wfOwn
  PROVE  WorkflowInv'
PROOF
<1>1. InboxInv' /\ NoWorkflowRows
  BY InboxStep, InboxAddsNoWorkflowRow DEF WorkflowInv
<1>2. UNCHANGED <<wf, driver, asked, wfTick, wfUp>> BY DEF wfOwn
<1>3. WorkflowTypeOK' BY <1>1, <1>2 DEF WorkflowInv, WorkflowTypeOK, NoWorkflowRows
<1> QED BY <1>1, <1>2, <1>3, WfStill, RestatusedOK, WorkflowKept

LEMMA IntakeInvariance == IntakeSpec => []IntakeInv
PROOF
<1>1. IntakeInv /\ [IntakeNext]_intakeVars => IntakeInv'
  <2> SUFFICES ASSUME IntakeInv, [IntakeNext]_intakeVars PROVE IntakeInv' OBVIOUS
  <2>1. WorkflowInv /\ DiscoveryInv BY DEF IntakeInv
  <2>2. \/ InboxNext /\ UNCHANGED <<wfOwn, discoveryVars>>
        \/ WorkflowNext /\ UNCHANGED discoveryVars
        \/ DiscoveryNext /\ UNCHANGED workflowVars
        \/ UNCHANGED <<workflowVars, discoveryVars>>
    BY DEF IntakeNext, intakeVars
  <2>3. WorkflowInv' BY <2>1, <2>2, RulesStep, WorkflowStep, WorkflowStutter
  <2>4. DiscoveryInv' BY <2>1, <2>2, DiscoveryStep
  <2> QED BY <2>3, <2>4 DEF IntakeInv
<1> QED BY IntakeInitInv, <1>1, PTL DEF IntakeSpec

\* Types of everything that comes in, whichever part a behaviour is of.
THEOREM IntakeTypeCorrect == IntakeSpec => []IntakeTypeOK
PROOF
<1>1. IntakeInv => IntakeTypeOK
  BY InboxTypesTogether DEF IntakeInv, WorkflowInv, InboxInv, DiscoveryInv, IntakeTypeOK
<1> QED BY IntakeInvariance, <1>1, PTL
=============================================================================
