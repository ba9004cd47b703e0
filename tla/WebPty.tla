------------------------------- MODULE WebPty --------------------------------
(***************************************************************************)
(* Shell sessions behind a pseudo terminal: the capped registry, one reader*)
(* thread per session that keeps its output in a ring and emits it while a *)
(* panel is subscribed, the panel that comes and goes, and the teardown    *)
(* that the end of the output, a close and the exit of the program share.  *)
(***************************************************************************)
EXTENDS Naturals, Sequences, FiniteSets

CONSTANTS
  Pty,      \* sessions ever
  MaxPty,   \* MAX_CONCURRENT_SESSIONS
  RingCap,  \* SCROLLBACK_CAP, in chunks of output
  MaxChunk, \* chunks a shell ever writes
  MaxPanel  \* attachments of a panel

ASSUME PtyAssumption == {MaxPty, RingCap, MaxChunk, MaxPanel} \subseteq Nat \ {0}

VARIABLES
  ptyAt,      \* where spawn_program of each session is
  ptyMap,     \* the registry
  shell,      \* the child of each session
  tornDown,   \* torn_down
  closing,    \* closing, and whether close has come to the teardown
  ended,      \* SessionEnded events of each session
  written,    \* chunks the shell has written, and the reader has pushed
  ring,       \* the scrollback: the last chunks pushed
  ringLock,   \* who holds its mutex
  subscribed, \* the flag
  panelAt,    \* where subscribe is
  screen,     \* the chunks emitted since the replay of the last attachment
  panels      \* attachments left

registryVars == <<ptyAt, ptyMap, tornDown, closing, ended>>
outputVars == <<ring, ringLock, subscribed, panelAt, screen>>
ptyVars == <<registryVars, outputVars, shell, written, panels>>

PtyInit ==
  /\ ptyAt = [p \in Pty |-> "none"] /\ ptyMap = {} /\ shell = [p \in Pty |-> "none"]
  /\ tornDown = [p \in Pty |-> FALSE] /\ closing = [p \in Pty |-> "no"]
  /\ ended = [p \in Pty |-> 0]
  /\ written = [p \in Pty |-> [out |-> 0, in |-> 0]]
  /\ ring = [p \in Pty |-> <<>>] /\ ringLock = [p \in Pty |-> "free"]
  /\ subscribed = [p \in Pty |-> FALSE] /\ panelAt = [p \in Pty |-> "off"]
  /\ screen = [p \in Pty |-> <<>>] /\ panels = MaxPanel

PtyStep(p, from, to) == ptyAt[p] = from /\ ptyAt' = [ptyAt EXCEPT ![p] = to]
Reserved == {p \in Pty : ptyAt[p] \in {"reserved", "spawned", "registered"}}
KillShell(p) == shell' = [shell EXCEPT ![p] = "dead"]

-----------------------------------------------------------------------------
(* spawn_program                                                           *)

\* Mutant: a session that is only reserved does not count.
ReserveUncounted(p) ==
  /\ PtyStep(p, "none", "reserved") /\ Cardinality(ptyMap) < MaxPty
  /\ UNCHANGED <<ptyMap, tornDown, closing, ended, outputVars, shell, written, panels>>

\* check_session_cap counts what is registered and what is reserved.
ReservePty(p) ==
  /\ PtyStep(p, "none", "reserved")
  /\ Cardinality(ptyMap) + Cardinality(Reserved) < MaxPty
  /\ UNCHANGED <<ptyMap, tornDown, closing, ended, outputVars, shell, written, panels>>

SpawnShell(p) ==
  /\ PtyStep(p, "reserved", "spawned") /\ shell' = [shell EXCEPT ![p] = "runs"]
  /\ UNCHANGED <<ptyMap, tornDown, closing, ended, outputVars, written, panels>>

\* SpawnCleanup gives the reservation back and kills what was spawned.
SpawnPtyFails(p) ==
  /\ ptyAt[p] \in {"reserved", "spawned"} /\ ptyAt' = [ptyAt EXCEPT ![p] = "over"]
  /\ KillShell(p)
  /\ UNCHANGED <<ptyMap, tornDown, closing, ended, outputVars, written, panels>>

RegisterPty(p) ==
  /\ PtyStep(p, "spawned", "registered") /\ ptyMap' = ptyMap \cup {p}
  /\ UNCHANGED <<tornDown, closing, ended, outputVars, shell, written, panels>>

\* The reader thread runs, or could not be started; the reservation ends.
StartReader(p) ==
  /\ \/ PtyStep(p, "registered", "reading") /\ UNCHANGED <<ptyMap, shell>>
     \/ PtyStep(p, "registered", "over") /\ ptyMap' = ptyMap \ {p} /\ KillShell(p)
  /\ UNCHANGED <<tornDown, closing, ended, outputVars, written, panels>>

-----------------------------------------------------------------------------
(* subscribe and unsubscribe                                               *)

\* The event Attached; the panel has detached from it before.
Attach(p) ==
  /\ panels > 0 /\ panels' = panels - 1
  /\ p \in ptyMap /\ panelAt[p] = "off" /\ panelAt' = [panelAt EXCEPT ![p] = "attached"]
  /\ UNCHANGED <<registryVars, ring, ringLock, subscribed, screen, shell, written>>

\* Mutant: the ring is locked for the snapshot alone.
ReplayUnlocked(p) ==
  /\ panelAt[p] = "attached" /\ ringLock[p] = "free"
  /\ panelAt' = [panelAt EXCEPT ![p] = "flip"] /\ screen' = [screen EXCEPT ![p] = ring[p]]
  /\ UNCHANGED <<registryVars, ring, ringLock, subscribed, shell, written, panels>>

\* The replay of the snapshot, and then the flag, under the mutex of the ring.
ReplayRing(p) ==
  /\ panelAt[p] = "attached" /\ ringLock[p] = "free"
  /\ ringLock' = [ringLock EXCEPT ![p] = "panel"]
  /\ panelAt' = [panelAt EXCEPT ![p] = "flip"] /\ screen' = [screen EXCEPT ![p] = ring[p]]
  /\ UNCHANGED <<registryVars, ring, subscribed, shell, written, panels>>

FlipSubscribed(p) ==
  /\ panelAt[p] = "flip" /\ panelAt' = [panelAt EXCEPT ![p] = "on"]
  /\ subscribed' = [subscribed EXCEPT ![p] = TRUE] /\ ringLock' = [ringLock EXCEPT ![p] = "free"]
  /\ UNCHANGED <<registryVars, ring, screen, shell, written, panels>>

\* Without the mutex.
Detach(p) ==
  /\ p \in ptyMap /\ panelAt[p] = "on" /\ panelAt' = [panelAt EXCEPT ![p] = "off"]
  /\ subscribed' = [subscribed EXCEPT ![p] = FALSE]
  /\ UNCHANGED <<registryVars, ring, ringLock, screen, shell, written, panels>>

-----------------------------------------------------------------------------
(* reader_loop                                                             *)

ShellWrites(p) ==
  /\ shell[p] = "runs" /\ written[p].out < MaxChunk
  /\ written' = [written EXCEPT ![p].out = @ + 1]
  /\ UNCHANGED <<registryVars, outputVars, shell, panels>>

\* ScrollbackRing::push drops from the front.
PushChunk(p) ==
  LET all == Append(ring[p], written[p].in + 1) IN
  /\ ptyAt[p] = "reading" /\ ringLock[p] = "free" /\ written[p].in < written[p].out
  /\ ringLock' = [ringLock EXCEPT ![p] = "reader"]
  /\ written' = [written EXCEPT ![p].in = @ + 1]
  /\ ring' = [ring EXCEPT ![p] = IF Len(all) > RingCap THEN Tail(all) ELSE all]
  /\ UNCHANGED <<registryVars, subscribed, panelAt, screen, shell, panels>>

\* Still under the mutex.
EmitChunk(p) ==
  /\ ringLock[p] = "reader" /\ ringLock' = [ringLock EXCEPT ![p] = "free"]
  /\ screen' = IF subscribed[p] THEN [screen EXCEPT ![p] = Append(@, written[p].in)] ELSE screen
  /\ UNCHANGED <<registryVars, ring, subscribed, panelAt, shell, written, panels>>

-----------------------------------------------------------------------------
(* The end of a session                                                    *)

\* finish_session runs once.
FinishSession(p) ==
  IF tornDown[p] THEN UNCHANGED <<ptyMap, tornDown, ended>>
  ELSE /\ tornDown' = [tornDown EXCEPT ![p] = TRUE] /\ ptyMap' = ptyMap \ {p}
       /\ ended' = [ended EXCEPT ![p] = @ + 1]

\* The end of the output: the shell is gone and all it wrote is read, or the master is
\* closed.
ReaderEof(p) ==
  /\ PtyStep(p, "reading", "over") /\ ringLock[p] # "reader" /\ shell[p] = "dead"
  /\ written[p].in = written[p].out \/ tornDown[p]
  /\ FinishSession(p)
  /\ UNCHANGED <<closing, outputVars, shell, written, panels>>

ShellExits(p) ==
  /\ shell[p] = "runs" /\ KillShell(p)
  /\ UNCHANGED <<registryVars, outputVars, written, panels>>

\* close: the flag and the kill, and then the teardown.
ClosePty(p) ==
  /\ p \in ptyMap /\ closing[p] = "no" /\ closing' = [closing EXCEPT ![p] = "killed"]
  /\ KillShell(p)
  /\ UNCHANGED <<ptyAt, ptyMap, tornDown, ended, outputVars, written, panels>>

CloseFinishes(p) ==
  /\ closing[p] = "killed" /\ closing' = [closing EXCEPT ![p] = "finished"]
  /\ FinishSession(p)
  /\ UNCHANGED <<ptyAt, outputVars, shell, written, panels>>

\* shutdown: no event.
ShutdownPtys ==
  /\ ptyMap # {} /\ ptyMap' = {}
  /\ tornDown' = [p \in Pty |-> tornDown[p] \/ p \in ptyMap]
  /\ shell' = [p \in Pty |-> IF p \in ptyMap THEN "dead" ELSE shell[p]]
  /\ UNCHANGED <<ptyAt, closing, ended, outputVars, written, panels>>

PtyNext ==
  \/ \E p \in Pty :
       \/ ReservePty(p) \/ SpawnShell(p) \/ SpawnPtyFails(p) \/ RegisterPty(p) \/ StartReader(p)
       \/ Attach(p) \/ ReplayRing(p) \/ FlipSubscribed(p) \/ Detach(p)
       \/ ShellWrites(p) \/ PushChunk(p) \/ EmitChunk(p)
       \/ ReaderEof(p) \/ ShellExits(p) \/ ClosePty(p) \/ CloseFinishes(p)
  \/ ShutdownPtys

PtySpec == PtyInit /\ [][PtyNext]_ptyVars

-----------------------------------------------------------------------------
PtyTypes ==
  /\ ptyAt \in [Pty -> {"none", "reserved", "spawned", "registered", "reading", "over"}]
  /\ ptyMap \subseteq Pty
  /\ shell \in [Pty -> {"none", "runs", "dead"}] /\ tornDown \in [Pty -> BOOLEAN]
  /\ closing \in [Pty -> {"no", "killed", "finished"}] /\ ended \in [Pty -> 0..1]
  /\ written \in [Pty -> [out : 0..MaxChunk, in : 0..MaxChunk]]
  /\ ring \in [Pty -> Seq(Nat)] /\ screen \in [Pty -> Seq(Nat)]
  /\ ringLock \in [Pty -> {"free", "panel", "reader"}] /\ subscribed \in [Pty -> BOOLEAN]
  /\ panelAt \in [Pty -> {"off", "attached", "flip", "on"}] /\ panels \in 0..MaxPanel

PtyTypeOK == PtyTypes /\ Cardinality(ptyMap) <= MaxPty

\* What an attached panel has been sent since it attached is the tail of the output,
\* every chunk once and in order, up to the last one the reader is through with,
\* however the attachment fell between two chunks (subscribe: "no gap, no duplicate
\* vs live frames").
StreamIsWhole ==
  \A p \in Pty : panelAt[p] = "on" /\ ringLock[p] # "reader" =>
    LET last == written[p].in
        len == Len(screen[p]) IN
    /\ \A i \in 1..len : screen[p][i] = last - len + i
    /\ len >= Len(ring[p])
=============================================================================
