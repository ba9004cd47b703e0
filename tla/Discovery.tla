----------------------------- MODULE Discovery ------------------------------
(***************************************************************************)
(* PR discovery of one project: the poll loops that SchedulerSet starts,   *)
(* reconfigures and stops as the configuration changes, the manual pulls   *)
(* that run one cycle without a loop, and the persisted PR row that cycles,*)
(* webhook re-feeds and the archive command rewrite wholesale under one    *)
(* lock.                                                                   *)
(*                                                                         *)
(* A reconcile that makes the project eligible again starts a new loop,    *)
(* while the one it stopped may still be inside a cycle: a loop is named   *)
(* by its Scheduler.                                                       *)
(*                                                                         *)
(* The provider lists a pull request only while it is open and carries a   *)
(* trigger label; of any other, a project hears from webhooks alone.       *)
(***************************************************************************)
EXTENDS Naturals, FiniteSets

CONSTANTS
  Loop,        \* schedulers, in the order in which they are created
  NoLoop,      \* the map has no scheduler for the project
  Puller,      \* callers of discover_once: "pull now", the Azure refresh
  Webhook,     \* the inbox worker's re-feed of a webhook event
  Archiver,    \* the archive command
  NoWriter,    \* the lock, or the inflight mark, is free
  MaxVersion,  \* upstream changes of the PR
  Open,        \* the versions at which it is open and carries a trigger label
  MaxConfig    \* reconciles and pauses

ASSUME LoopAssumption ==
  /\ Loop \subseteq Nat /\ NoLoop \notin Loop
  /\ NoWriter \notin Loop \cup Puller \cup {Webhook, Archiver}
  /\ MaxVersion \in Nat /\ MaxConfig \in Nat /\ Open \subseteq 0..MaxVersion

VARIABLES
  upstream,  \* version of the PR at the provider
  tracked,   \* the tracked_pr row: [seen, version, archived]
  flagged,   \* the archive flag the last finished archive command asked for
  wlock,     \* who holds registry::WRITE_LOCK
  writer,    \* the read-modify-write each writer is in
  mapped,    \* the scheduler SchedulerSet.inner has for the project
  loop,      \* each loop: pc and the permits of its Notifys (see Select for wake)
  inflight,  \* manual_inflight has the project
  pulling,   \* the puller that holds the inflight guard
  changes    \* configuration changes, pulls, re-feeds, archivings and failures left

registryVars == <<tracked, flagged, wlock, writer>>
schedulerVars == <<mapped, loop, inflight, pulling, changes>>
discoveryVars == <<upstream, registryVars, schedulerVars>>

Writer == Loop \cup Puller \cup {Webhook, Archiver}
Row == [seen : BOOLEAN, version : 0..MaxVersion, archived : BOOLEAN]
NoRow == [seen |-> FALSE, version |-> 0, archived |-> FALSE]
\* A cycle that did not find the PR has no view of it to upsert.
WriteKind == {"nothing", "present", "upsert"}
NewLoop == [pc |-> "none", reconfigure |-> FALSE, stop |-> FALSE]

\* stage "listed": the writer knows what it will write; "loaded": it has the lock
\* and its copy of the row.
Resting == [stage |-> "rest", version |-> 0, flag |-> FALSE, write |-> "nothing", copy |-> NoRow]

DiscoveryInit ==
  /\ upstream = 0
  /\ tracked = NoRow /\ flagged = FALSE /\ wlock = NoWriter
  /\ writer = [w \in Writer |-> Resting]
  /\ mapped = NoLoop /\ loop = [l \in Loop |-> NewLoop]
  /\ inflight = FALSE /\ pulling = NoWriter
  /\ changes = MaxConfig

-----------------------------------------------------------------------------
(* registry::mutate_tracked: lock, load; change, save, unlock.             *)

\* Mutant: load, change and save without the lock.
LoadUnlocked(w) ==
  /\ writer[w].stage = "listed"
  /\ wlock' = w
  /\ writer' = [writer EXCEPT ![w].stage = "loaded", ![w].copy = tracked]
  /\ UNCHANGED <<upstream, tracked, flagged, schedulerVars>>

Load(w) ==
  /\ writer[w].stage = "listed" /\ wlock = NoWriter
  /\ wlock' = w
  /\ writer' = [writer EXCEPT ![w].stage = "loaded", ![w].copy = tracked]
  /\ UNCHANGED <<upstream, tracked, flagged, schedulerVars>>

\* Mutant: a known row keeps what it shows.
UpsertNew(w) ==
  IF writer[w].write # "upsert" \/ writer[w].copy.seen THEN writer[w].copy
  ELSE [seen |-> TRUE, version |-> writer[w].version, archived |-> FALSE]

\* upsert: display fields are refreshed, the archive flag is kept; a PR that was not
\* listed is not in the views and its row stays.  update_present: an unknown number
\* changes nothing.
Upsert(w) ==
  IF writer[w].write = "upsert" \/ (writer[w].write = "present" /\ writer[w].copy.seen)
  THEN [seen |-> TRUE, version |-> writer[w].version, archived |-> writer[w].copy.archived]
  ELSE writer[w].copy

\* set_archived: likewise.
SetArchived(w) ==
  IF writer[w].copy.seen THEN [writer[w].copy EXCEPT !.archived = writer[w].flag]
  ELSE writer[w].copy

Save(w, row) ==
  /\ writer[w].stage = "loaded"
  /\ tracked' = row
  /\ wlock' = NoWriter
  /\ writer' = [writer EXCEPT ![w] = Resting]

\* The rest of the cycle only inserts inbox rows; then the loop is back at its
\* select, and a pull's guard clears the mark.
SaveCycle(w) ==
  /\ Save(w, Upsert(w))
  /\ IF w \in Loop
     THEN loop' = [loop EXCEPT ![w].pc = "idle"] /\ UNCHANGED <<inflight, pulling>>
     ELSE inflight' = FALSE /\ pulling' = NoWriter /\ UNCHANGED loop
  /\ UNCHANGED <<upstream, flagged, mapped, changes>>

SaveWebhook ==
  /\ Save(Webhook, Upsert(Webhook))
  /\ UNCHANGED <<upstream, flagged, schedulerVars>>

SaveArchive ==
  /\ Save(Archiver, SetArchived(Archiver))
  /\ flagged' = IF writer[Archiver].copy.seen THEN writer[Archiver].flag ELSE flagged
  /\ UNCHANGED <<upstream, schedulerVars>>

\* A cycle or a pull awaits the provider.
Discovering(w) ==
  /\ writer[w].stage = "rest"
  /\ \/ w \in Loop /\ loop[w].pc = "cycle"
     \/ w \in Puller /\ pulling = w

\* The provider's list is read at some moment of the await; it has the PR if that is
\* open and labelled then.
List(w) ==
  /\ Discovering(w)
  /\ writer' = [writer EXCEPT ![w].stage = "listed", ![w].version = upstream,
                              ![w].write = IF upstream \in Open THEN "upsert" ELSE "nothing"]
  /\ UNCHANGED <<upstream, tracked, flagged, wlock, schedulerVars>>

\* A transient miss: one round's list lacks an open PR.
ListMisses(w) ==
  /\ changes > 0 /\ changes' = changes - 1
  /\ Discovering(w) /\ upstream \in Open
  /\ writer' = [writer EXCEPT ![w].stage = "listed"]
  /\ UNCHANGED <<upstream, tracked, flagged, wlock, mapped, loop, inflight, pulling>>

\* A listing that fails ends the cycle and leaves the row as it is.
ListFails(w) ==
  /\ changes > 0 /\ changes' = changes - 1
  /\ Discovering(w)
  /\ IF w \in Loop
     THEN loop' = [loop EXCEPT ![w].pc = "idle"] /\ UNCHANGED <<inflight, pulling>>
     ELSE inflight' = FALSE /\ pulling' = NoWriter /\ UNCHANGED loop
  /\ UNCHANGED <<upstream, registryVars, mapped>>

\* The PR changes at the provider.
Change ==
  /\ upstream < MaxVersion /\ upstream' = upstream + 1
  /\ UNCHANGED <<registryVars, schedulerVars>>

\* ingest_webhook: what the event said when it was sent, early, late or replayed; one
\* that closes the PR or takes its label away is status-only.
RefeedRow ==
  /\ changes > 0 /\ changes' = changes - 1
  /\ writer[Webhook].stage = "rest"
  /\ \E v \in 0..upstream :
       writer' = [writer EXCEPT ![Webhook].stage = "listed", ![Webhook].version = v,
                                ![Webhook].write = IF v \in Open THEN "upsert" ELSE "present"]
  /\ UNCHANGED <<upstream, tracked, flagged, wlock, mapped, loop, inflight, pulling>>

Archive ==
  /\ changes > 0 /\ changes' = changes - 1
  /\ writer[Archiver].stage = "rest"
  /\ \E b \in BOOLEAN :
       writer' = [writer EXCEPT ![Archiver].stage = "listed", ![Archiver].flag = b]
  /\ UNCHANGED <<upstream, tracked, flagged, wlock, mapped, loop, inflight, pulling>>

-----------------------------------------------------------------------------
(* SchedulerSet and run_loop.                                              *)

\* Notify::notify_one stores a permit whether or not the loop is waiting.
Permit(l, n) == loop' = [loop EXCEPT ![l][n] = TRUE]

\* reconcile, the project eligible: a mapped loop is reconfigured, else a fresh
\* scheduler is started.
Eligible ==
  /\ changes > 0 /\ changes' = changes - 1
  /\ IF mapped # NoLoop THEN Permit(mapped, "reconfigure") /\ UNCHANGED mapped
     ELSE LET fresh == {l \in Loop : loop[l].pc = "none"} IN
          /\ fresh # {}
          /\ mapped' = CHOOSE l \in fresh : \A k \in fresh : l <= k
          /\ loop' = [loop EXCEPT ![mapped'].pc = "idle"]
  /\ UNCHANGED <<upstream, registryVars, inflight, pulling>>

\* Mutant: the scheduler is dropped from the map and not told.
IneligibleUntold ==
  /\ changes > 0 /\ changes' = changes - 1
  /\ mapped # NoLoop /\ mapped' = NoLoop
  /\ UNCHANGED <<upstream, registryVars, loop, inflight, pulling>>

\* reconcile, the project not eligible, and stop_all: stop it and drop it.
Ineligible ==
  /\ changes > 0 /\ changes' = changes - 1
  /\ mapped # NoLoop
  /\ Permit(mapped, "stop") /\ mapped' = NoLoop
  /\ UNCHANGED <<upstream, registryVars, inflight, pulling>>

\* The select of an idle loop takes any branch that is ready.  The ticker may fire
\* at any time (its first tick is immediate), so a wake permit adds no behaviour; a
\* reconfigure only rebuilds the ticker.
Tick(l) ==
  /\ loop[l].pc = "idle"
  /\ loop' = [loop EXCEPT ![l].pc = "cycle"]
  /\ UNCHANGED <<upstream, registryVars, mapped, inflight, pulling, changes>>

Reconfigured(l) ==
  /\ loop[l].pc = "idle" /\ loop[l].reconfigure
  /\ loop' = [loop EXCEPT ![l].reconfigure = FALSE]
  /\ UNCHANGED <<upstream, registryVars, mapped, inflight, pulling, changes>>

\* Either select may take the stop.  In a cycle it drops the discovery at its await;
\* from the lock on the cycle is synchronous.
Stopped(l) ==
  /\ loop[l].stop /\ loop[l].pc \in {"idle", "cycle"}
  /\ writer[l].stage # "loaded"
  /\ loop' = [loop EXCEPT ![l].stop = FALSE, ![l].pc = "exited"]
  /\ writer' = [writer EXCEPT ![l] = Resting]
  /\ UNCHANGED <<upstream, tracked, flagged, wlock, mapped, inflight, pulling, changes>>

\* discover_once: one manual pull at a time; a second one returns at once.
BeginPull(p) ==
  /\ changes > 0 /\ changes' = changes - 1
  /\ ~inflight /\ inflight' = TRUE /\ pulling' = p
  /\ UNCHANGED <<upstream, registryVars, mapped, loop>>

\* The future of a pull is dropped at its await (the inbox worker is stopped).
DropPull(p) ==
  /\ changes > 0 /\ changes' = changes - 1
  /\ pulling = p /\ writer[p].stage # "loaded"
  /\ inflight' = FALSE /\ pulling' = NoWriter
  /\ writer' = [writer EXCEPT ![p] = Resting]
  /\ UNCHANGED <<upstream, tracked, flagged, wlock, mapped, loop>>

DiscoveryNext ==
  \/ Change \/ RefeedRow \/ Archive \/ Eligible \/ Ineligible
  \/ \E w \in Loop \cup Puller : List(w) \/ ListMisses(w) \/ ListFails(w) \/ SaveCycle(w)
  \/ SaveWebhook \/ SaveArchive
  \/ \E w \in Writer : Load(w)
  \/ \E l \in Loop : Tick(l) \/ Reconfigured(l) \/ Stopped(l)
  \/ \E p \in Puller : BeginPull(p) \/ DropPull(p)

DiscoverySpec == DiscoveryInit /\ [][DiscoveryNext]_discoveryVars

\* Loops and writers run, the lock goes to somebody who waits for it, a pull is not
\* passed over for ever, and a select, which chooses at random among what is ready,
\* takes the stop some time.
DiscoveryFair ==
  /\ WF_discoveryVars(\E w \in Writer : Load(w))
  /\ \A p \in Puller : SF_discoveryVars(Load(p)) /\ WF_discoveryVars(List(p) \/ SaveCycle(p))
  /\ \A l \in Loop : WF_discoveryVars(List(l) \/ SaveCycle(l) \/ Tick(l))
  /\ SF_discoveryVars(\E l \in Loop : Stopped(l))
  /\ WF_discoveryVars(SaveWebhook \/ SaveArchive)

-----------------------------------------------------------------------------
DiscoveryTypeOK ==
  /\ upstream \in 0..MaxVersion /\ tracked \in Row /\ flagged \in BOOLEAN
  /\ wlock \in Writer \cup {NoWriter}
  /\ writer \in [Writer -> [stage : {"rest", "listed", "loaded"}, version : 0..MaxVersion,
                            flag : BOOLEAN, write : WriteKind, copy : Row]]
  /\ mapped \in Loop \cup {NoLoop} /\ pulling \in Puller \cup {NoWriter}
  /\ loop \in [Loop -> [pc : {"none", "idle", "cycle", "exited"},
                        reconfigure : BOOLEAN, stop : BOOLEAN]]
  /\ inflight \in BOOLEAN /\ changes \in 0..MaxConfig

\* The user's archive flag survives every rewrite of the row: whatever cycles,
\* pulls and re-feeds load and save around the command, what it set is what the
\* row has (mutate_tracked: the closed funnel against lost updates).
ArchiveKept == tracked.seen => tracked.archived = flagged

\* No stray work: a loop that the map can no longer reach ends, even if it was told
\* in the middle of a cycle and even if its successor runs already, and a pull ends,
\* with the mark that refuses the next one.
StrayWorkEnds ==
  LET stray == {l \in Loop : loop[l].pc \in {"idle", "cycle"} /\ l # mapped}
  IN (stray # {} \/ inflight) ~> (stray = {} /\ ~inflight)

\* While a project stays polled and its PR open and labelled, the row comes to show the
\* PR as it is: a late re-feed or an overtaken listing may write an older state, or a
\* round miss the PR; a later cycle repairs it.  Of a PR that is closed or has lost its
\* label no cycle speaks again, and its row keeps what was written last.
RowCatchesUp ==
  <>[](mapped # NoLoop /\ upstream \in Open) => <>[](tracked.seen /\ tracked.version = upstream)
=============================================================================
