---------------------------- MODULE CodexManager ----------------------------
(***************************************************************************)
(* The resident Codex app-server (CodexManager): one child process behind  *)
(* a cell, started on demand by whoever needs it and stopped by the user.  *)
(*                                                                         *)
(* A cold start spans awaits, so it is serialised by an async lock; stop   *)
(* and the status probes are synchronous and take only the std mutex of    *)
(* the cell, which no await is ever made under.  stopped is an atomic,     *)
(* written without either lock.                                            *)
(***************************************************************************)
EXTENDS Naturals, FiniteSets

CONSTANTS
  Caller,    \* tasks that ensure the server: review starts, start, status
  NoCaller,  \* no task
  Halter,    \* threads that stop it: stop_codex, the application's exit
  Proc,      \* the children ever spawned; a bound on their number
  NoProc     \* no child

ASSUME CallerAssumption == NoCaller \notin Caller
ASSUME ProcAssumption == NoProc \notin Proc

VARIABLES
  stopped,    \* AtomicBool: the user's stop
  cell,       \* inner: Mutex<Option<CodexProcess>>
  guard,      \* who holds inner from one step to the next
  startLock,  \* start_lock: who is in the slow path
  child,      \* the life of each child process
  at,         \* where each caller is
  mine,       \* the CodexProcess value the caller owns
  stopAt,     \* where each stopper is
  victim      \* the CodexProcess value the stopper took

shared == <<stopped, cell, guard, startLock, child>>
callers == <<at, mine>>
stoppers == <<stopAt, victim>>
serverVars == <<shared, callers, stoppers>>

Slow == {"recheck", "handshake", "install", "discard", "replace", "reap"}
Owning == Slow \ {"recheck"}

ManagerTypeOK ==
  /\ stopped \in BOOLEAN
  /\ cell \in Proc \cup {NoProc}
  /\ guard \in Caller \cup {NoCaller} /\ startLock \in Caller \cup {NoCaller}
  \* "closed": its pipe is gone and is_connected() false, but nobody killed it
  /\ child \in [Proc -> {"unborn", "starting", "live", "closed", "dead"}]
  /\ at \in [Caller -> {"idle", "ask", "fast", "wait"} \cup Slow]
  /\ mine \in [Caller -> Proc \cup {NoProc}]
  /\ \A c \in Caller : mine[c] # NoProc <=> at[c] \in Owning
  /\ stopAt \in [Halter -> {"idle", "take", "kill"}]
  /\ victim \in [Halter -> Proc \cup {NoProc}]
  /\ \A s \in Halter : victim[s] # NoProc <=> stopAt[s] = "kill"

ManagerInit ==
  /\ stopped = FALSE /\ cell = NoProc /\ guard = NoCaller /\ startLock = NoCaller
  /\ child = [p \in Proc |-> "unborn"]
  /\ at = [c \in Caller |-> "idle"] /\ mine = [c \in Caller |-> NoProc]
  /\ stopAt = [s \in Halter |-> "idle"] /\ victim = [s \in Halter |-> NoProc]

Goto(c, from, to) == at[c] = from /\ at' = [at EXCEPT ![c] = to]
Unlocked == guard = NoCaller
Connected == cell # NoProc /\ child[cell] = "live"     \* live_info
Become(p, from, to) == child[p] \in from /\ child' = [child EXCEPT ![p] = to]

-----------------------------------------------------------------------------
(* Who asks for the server.                                                 *)

\* start_review and send_review_message: an explicit one clears the stop first.
Review(c) ==
  /\ Goto(c, "idle", "ask")
  /\ stopped' \in {stopped, FALSE}
  /\ UNCHANGED <<cell, guard, startLock, child, mine, stoppers>>

\* connection: refused while the user's stop stands.
Connection(c) ==
  /\ Goto(c, "ask", IF stopped THEN "idle" ELSE "fast")
  /\ UNCHANGED <<shared, mine, stoppers>>

\* status of a server that is not stopped, and start, which resumes it first.
Probe(c) ==
  /\ ~stopped /\ Goto(c, "idle", "fast")
  /\ UNCHANGED <<shared, mine, stoppers>>
Start(c) ==
  /\ Goto(c, "idle", "fast")
  /\ stopped' = FALSE
  /\ UNCHANGED <<cell, guard, startLock, child, mine, stoppers>>

-----------------------------------------------------------------------------
(* ensure_started.                                                          *)

FastPath(c) ==
  /\ Unlocked
  /\ Goto(c, "fast", IF Connected THEN "idle" ELSE "wait")
  /\ UNCHANGED <<shared, mine, stoppers>>

Lock(c) ==
  /\ startLock = NoCaller
  /\ Goto(c, "wait", "recheck")
  /\ startLock' = c
  /\ UNCHANGED <<stopped, cell, guard, child, mine, stoppers>>

\* The call returns and its guard of start_lock is dropped.
Return(c, from) ==
  /\ Goto(c, from, "idle")
  /\ startLock' = NoCaller
  /\ mine' = [mine EXCEPT ![c] = NoProc]

Spawn(c, p) ==
  /\ Goto(c, "recheck", "handshake")
  /\ Become(p, {"unborn"}, "starting")
  /\ mine' = [mine EXCEPT ![c] = p]
  /\ UNCHANGED startLock

\* Mutant: the cell is not looked at again under the start lock.
SpawnWithoutRecheck(c) ==
  /\ Unlocked
  /\ \/ Return(c, "recheck") /\ UNCHANGED child
     \/ \E p \in Proc : Spawn(c, p)
  /\ UNCHANGED <<stopped, cell, guard, stoppers>>

\* Someone else may have started the server while this caller waited; the binary
\* may be missing.
Recheck(c) ==
  /\ Unlocked
  /\ \/ Return(c, "recheck") /\ UNCHANGED child
     \/ ~Connected /\ \E p \in Proc : Spawn(c, p)
  /\ UNCHANGED <<stopped, cell, guard, stoppers>>

\* The answer to initialize; or a refusal, an exit or HANDSHAKE_TIMEOUT, and
\* kill_on_drop disposes of the child.
Handshake(c) ==
  /\ \/ /\ Goto(c, "handshake", "install")
        /\ Become(mine[c], {"starting"}, "live")
        /\ UNCHANGED <<startLock, mine>>
     \/ /\ Return(c, "handshake")
        /\ Become(mine[c], {"starting"}, "dead")
  /\ UNCHANGED <<stopped, cell, guard, stoppers>>

\* Mutant: the flag is looked at before the mutex is taken.
CheckBeforeLocking(c) ==
  /\ Goto(c, "install", IF stopped THEN "discard" ELSE "replace")
  /\ UNCHANGED <<shared, mine, stoppers>>

\* The stop is looked at again under the lock that the install keeps.
Install(c) ==
  /\ Unlocked
  /\ \/ stopped /\ Goto(c, "install", "discard") /\ UNCHANGED guard
     \/ ~stopped /\ Goto(c, "install", "replace") /\ guard' = c
  /\ UNCHANGED <<stopped, cell, startLock, child, mine, stoppers>>

\* Mutant: the child is dropped without being killed.
DiscardWithoutKill(c) ==
  /\ Return(c, "discard")
  /\ UNCHANGED <<stopped, cell, guard, child, stoppers>>

\* Mutant: the start lock is not released.
DiscardKeepingLock(c) ==
  /\ Goto(c, "discard", "idle")
  /\ mine' = [mine EXCEPT ![c] = NoProc]
  /\ child' = [child EXCEPT ![mine[c]] = "dead"]
  /\ UNCHANGED <<stopped, cell, guard, startLock, stoppers>>

\* kill_and_reap, of a child stopped while it started.
Discard(c) ==
  /\ Return(c, "discard")
  /\ child' = [child EXCEPT ![mine[c]] = "dead"]
  /\ UNCHANGED <<stopped, cell, guard, stoppers>>

\* replace returns the dead predecessor, if there was one, to be reaped outside
\* the lock.
Replace(c) ==
  /\ cell' = mine[c]
  /\ guard' = NoCaller
  /\ \/ cell = NoProc /\ Return(c, "replace")
     \/ /\ cell # NoProc /\ Goto(c, "replace", "reap")
        /\ mine' = [mine EXCEPT ![c] = cell]
        /\ UNCHANGED startLock
  /\ UNCHANGED <<stopped, child, stoppers>>

Reap(c) ==
  /\ Return(c, "reap")
  /\ child' = [child EXCEPT ![mine[c]] = "dead"]
  /\ UNCHANGED <<stopped, cell, guard, stoppers>>

-----------------------------------------------------------------------------
(* stop and shutdown, and the end of a child.                               *)

\* stop stores the flag first; shutdown, on the application's exit, does not.
Stop(s) ==
  /\ stopAt[s] = "idle"
  /\ stopAt' = [stopAt EXCEPT ![s] = "take"]
  /\ stopped' \in {TRUE, stopped}
  /\ UNCHANGED <<cell, guard, startLock, child, callers, victim>>

Take(s) ==
  /\ Unlocked /\ stopAt[s] = "take"
  /\ stopAt' = [stopAt EXCEPT ![s] = IF cell = NoProc THEN "idle" ELSE "kill"]
  /\ victim' = [victim EXCEPT ![s] = cell]
  /\ cell' = NoProc
  /\ UNCHANGED <<stopped, guard, startLock, child, callers>>

Kill(s) ==
  /\ stopAt[s] = "kill"
  /\ stopAt' = [stopAt EXCEPT ![s] = "idle"]
  /\ victim' = [victim EXCEPT ![s] = NoProc]
  /\ child' = [child EXCEPT ![victim[s]] = "dead"]
  /\ UNCHANGED <<stopped, cell, guard, startLock, callers>>

\* The pipe closes under a live connection: the reader clears is_connected.
Close(p) ==
  /\ Become(p, {"live"}, "closed")
  /\ UNCHANGED <<stopped, cell, guard, startLock, callers, stoppers>>

-----------------------------------------------------------------------------
\* What a call does by itself once it was made.
CallStep(c) ==
  \/ Connection(c) \/ FastPath(c) \/ Lock(c) \/ Recheck(c) \/ Handshake(c)
  \/ Install(c) \/ Discard(c) \/ Replace(c) \/ Reap(c)
HaltStep(s) == Take(s) \/ Kill(s)

ManagerNext ==
  \/ \E c \in Caller : Review(c) \/ Probe(c) \/ Start(c) \/ CallStep(c)
  \/ \E s \in Halter : Stop(s) \/ HaltStep(s)
  \/ \E p \in Proc : Close(p)

ManagerSpec == ManagerInit /\ [][ManagerNext]_serverVars

\* Tasks run, the handshake is timed, and start_lock is a FIFO lock, so whoever
\* waits for it gets it if it is released again and again.
ManagerFair ==
  /\ \A c \in Caller : WF_serverVars(CallStep(c)) /\ SF_serverVars(Lock(c))
  /\ \A s \in Halter : WF_serverVars(HaltStep(s))

-----------------------------------------------------------------------------
(* Properties.                                                              *)

\* No child outlives its owner: whoever has not been killed is in the cell, or
\* somebody still holds it, to install it or to kill it (ensure_started, stop).
NoOrphan ==
  \A p \in Proc :
    child[p] \in {"starting", "live", "closed"} =>
      \/ p = cell
      \/ \E c \in Caller : mine[c] = p
      \/ \E s \in Halter : victim[s] = p

\* A child that is up or coming up and that nobody is about to kill.
Serving(p) ==
  /\ child[p] \in {"starting", "live"}
  /\ \A c \in Caller : mine[c] = p => at[c] \notin {"discard", "reap"}
  /\ \A s \in Halter : victim[s] # p

\* However many calls find the server down at once, one app-server is started
\* (start_lock and the re-check under it).
OneServer == \A p, q \in Proc : Serving(p) /\ Serving(q) => p = q

\* Unless a stop is between its store and its take, a stopped manager holds no
\* child: a cold start that was under way when the user stopped cannot leave the
\* server running behind the stop (the re-check in ensure_started).
StopEmpties ==
  stopped /\ (\A s \in Halter : stopAt[s] # "take") => cell = NoProc

\* Every call returns: the two locks never hold each other up and no way out of
\* ensure_started keeps start_lock.
EveryCallReturns == \A c \in Caller : at[c] # "idle" ~> at[c] = "idle"
=============================================================================
