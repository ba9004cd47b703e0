------------------------------- MODULE Remote -------------------------------
(***************************************************************************)
(* Remote access: HTTP entrypoints on ports, and tunnels to them, which    *)
(* ListenerSupervisor.reconcile brings in line with each saved             *)
(* configuration.  set_config runs it to its end on the main thread, so    *)
(* saves do not overlap; servers, children and the tasks that own them do  *)
(* as they please meanwhile.  All listeners are on one host: a port is     *)
(* free, or somebody's.                                                    *)
(***************************************************************************)
EXTENDS Naturals, FiniteSets

CONSTANTS
  Entry,      \* entrypoints
  Tunnel,     \* tunnels
  Port,       \* ports
  Nobody,     \* no owner, no port, no target
  Plan,       \* configurations: records of entry and tunnel, see below
  NoPlan,     \* nothing configured
  MaxPlan,    \* bound on the configurations saved
  MaxDeath    \* bound on the servers and children that die, or are dropped late

\* validate_remote_access: enabled listeners have ports, and of their own, and an
\* enabled tunnel an enabled target.
Wanted(plan, e) == plan.entry[e]
ListensAt(plan, t) == IF plan.tunnel[t].mode = "lan" THEN plan.tunnel[t].port ELSE Nobody
PlanIsValid(plan) ==
  LET at(x) == IF x \in Entry THEN Wanted(plan, x).port ELSE ListensAt(plan, x) IN
  /\ \A x, y \in Entry \cup Tunnel : x # y /\ at(x) # Nobody => at(x) # at(y)
  /\ \A t \in Tunnel :
       /\ plan.tunnel[t].mode # "off" =>
            plan.tunnel[t].target \in Entry /\ Wanted(plan, plan.tunnel[t].target).port # Nobody
       /\ plan.tunnel[t].mode = "lan" => plan.tunnel[t].port # Nobody

Mode == {"off", "lan", "quick", "listener"}
EntryPlan == [port : Port \cup {Nobody}, rev : Nat]
TunnelPlan == [mode : Mode, target : Entry \cup {Nobody}, port : Port \cup {Nobody}]

ASSUME RemoteAssumption ==
  /\ Entry \cap Tunnel = {} /\ Nobody \notin Entry \cup Tunnel \cup Port
  /\ NoPlan \in Plan /\ MaxPlan \in Nat /\ MaxDeath \in Nat
  /\ \A plan \in Plan :
       /\ plan.entry \in [Entry -> EntryPlan] /\ plan.tunnel \in [Tunnel -> TunnelPlan]
       /\ PlanIsValid(plan)

VARIABLES
  remotePlan,  \* the remote_access of the saved configuration
  plansSaved,  \* configurations saved so far
  reconciling, \* where reconcile is
  todo,        \* what it still has to bind or to start
  made,        \* what it has started and not yet put into the map
  entries,     \* the map of bound entrypoints
  tunnels,     \* the map of tunnels
  holder,      \* who listens at each port, and whether it is being aborted
  tunnelProc,  \* the processes of each tunnel
  remoteDeaths \* deaths and late drops so far

remoteVars ==
  <<remotePlan, plansSaved, reconciling, todo, made, entries, tunnels, holder, tunnelProc,
    remoteDeaths>>

Unbound == [port |-> Nobody, rev |-> 0]
NoTunnel == [mode |-> "off", target |-> Nobody, port |-> Nobody, to |-> Unbound,
             state |-> "stopped", url |-> FALSE]
Free == [by |-> Nobody, rev |-> 0, aborted |-> FALSE]

TunnelEntry ==
  [mode : Mode, target : Entry \cup {Nobody}, port : Port \cup {Nobody}, to : EntryPlan,
   state : {"stopped", "running", "error"}, url : BOOLEAN]
Listener == [by : Entry \cup Tunnel \cup {Nobody}, rev : Nat, aborted : BOOLEAN]

RemoteTypeOK ==
  /\ remotePlan \in Plan /\ plansSaved \in 0..MaxPlan
  /\ reconciling \in {"idle", "bind", "tunnels", "start"}
  /\ todo \subseteq Entry \cup Tunnel /\ made \subseteq Entry \cup Tunnel
  /\ entries \in [Entry -> EntryPlan]
  /\ tunnels \in [Tunnel -> TunnelEntry] /\ holder \in [Port -> Listener]
  /\ tunnelProc \in [Tunnel -> [now : {"none", "up", "exited"}, dying : BOOLEAN]]
  /\ remoteDeaths \in 0..MaxDeath

RemoteInit ==
  /\ remotePlan = NoPlan /\ plansSaved = 0 /\ reconciling = "idle" /\ todo = {} /\ made = {}
  /\ entries = [e \in Entry |-> Unbound] /\ tunnels = [t \in Tunnel |-> NoTunnel]
  /\ holder = [p \in Port |-> Free]
  /\ tunnelProc = [t \in Tunnel |-> [now |-> "none", dying |-> FALSE]]
  /\ remoteDeaths = 0

-----------------------------------------------------------------------------
(* reconcile, first half: the entrypoints.                                  *)

\* The server task of a bound entrypoint, or of a LAN tunnel, has not finished.
Serves(x, p) == p # Nobody /\ holder[p].by = x /\ ~holder[p].aborted
Finished(e) == entries[e].port # Nobody /\ ~Serves(e, entries[e].port)
Abort(xs) == [p \in Port |->
  IF holder[p].by \in xs THEN [holder[p] EXCEPT !.aborted = TRUE] ELSE holder[p]]

\* Mutant: only the port is compared.
RemovedByPort(plan) == {e \in Entry :
  entries[e] # Unbound /\ (entries[e].port # Wanted(plan, e).port \/ Finished(e))}

\* The difference to the plan; what is removed is aborted, what is dead replaced.
Removed(plan) == {e \in Entry :
  entries[e] # Unbound /\ (entries[e] # Wanted(plan, e) \/ Finished(e))}
Reconcile(plan) ==
  /\ reconciling = "idle" /\ plansSaved < MaxPlan
  /\ remotePlan' = plan /\ plansSaved' = plansSaved + 1
  /\ entries' = [e \in Entry |-> IF e \in Removed(plan) THEN Unbound ELSE entries[e]]
  /\ holder' = Abort(Removed(plan))
  /\ todo' = {e \in Entry : Wanted(plan, e).port # Nobody /\ entries'[e] = Unbound}
  /\ made' = {} /\ reconciling' = "bind"
  /\ UNCHANGED <<tunnels, tunnelProc, remoteDeaths>>

\* bind_std_with_retry: its tries run out while somebody else listens at the port.  They
\* are meant to outlast a listener that is being dropped; that one takes longer than
\* BIND_RETRIES * BIND_RETRY_DELAY counts as a failure.
TriesRunOut(p) ==
  /\ holder[p] # Free
  /\ IF holder[p].aborted THEN remoteDeaths < MaxDeath /\ remoteDeaths' = remoteDeaths + 1
     ELSE UNCHANGED remoteDeaths

BindEntry(e) ==
  LET p == Wanted(remotePlan, e).port IN
  /\ reconciling = "bind" /\ e \in todo /\ todo' = todo \ {e}
  /\ \/ /\ holder[p] = Free
        /\ made' = made \cup {e}
        /\ holder' = [holder EXCEPT ![p] =
             [by |-> e, rev |-> Wanted(remotePlan, e).rev, aborted |-> FALSE]]
        /\ UNCHANGED remoteDeaths
     \/ TriesRunOut(p) /\ UNCHANGED <<made, holder>>
  /\ UNCHANGED <<remotePlan, plansSaved, reconciling, entries, tunnels, tunnelProc>>

InsertEntries ==
  /\ reconciling = "bind" /\ todo = {} /\ reconciling' = "tunnels" /\ made' = {}
  /\ entries' = [e \in Entry |-> IF e \in made THEN Wanted(remotePlan, e) ELSE entries[e]]
  /\ UNCHANGED <<remotePlan, plansSaved, todo, tunnels, holder, tunnelProc, remoteDeaths>>

-----------------------------------------------------------------------------
(* reconcile_tunnels.                                                       *)

\* TunnelDesired: only a tunnel whose target has a live server, and that server's
\* address and signature are part of it.
Target(t) == remotePlan.tunnel[t].target
Desired(t) ==
  remotePlan.tunnel[t].mode # "off" /\ entries[Target(t)].port # Nobody /\ ~Finished(Target(t))
\* Mutant: what the target is bound with is not compared.
AsPlanned(t) ==
  LET want == remotePlan.tunnel[t] IN
  /\ tunnels[t].mode = want.mode /\ tunnels[t].target = want.target
  /\ tunnels[t].port = want.port
AsDesired(t) ==
  LET want == remotePlan.tunnel[t] IN
  /\ tunnels[t].mode = want.mode /\ tunnels[t].target = want.target
  /\ tunnels[t].port = want.port /\ tunnels[t].to = entries[want.target]

NeedsRestart(t) ==
  \/ tunnels[t].mode = "lan" /\ ~Serves(t, tunnels[t].port)
  \/ tunnels[t].mode = "quick" /\ tunnelProc[t].now # "up"

Kept(t) == Desired(t) /\ AsDesired(t) /\ ~NeedsRestart(t)

PlanTunnels ==
  LET out == {t \in Tunnel : tunnels[t] # NoTunnel /\ ~Kept(t)} IN
  /\ reconciling = "tunnels" /\ reconciling' = "start"
  /\ tunnels' = [t \in Tunnel |-> IF t \in out THEN NoTunnel ELSE tunnels[t]]
  /\ holder' = Abort(out)
  /\ tunnelProc' = [t \in Tunnel |->
       IF t \in out THEN [now |-> "none", dying |-> tunnelProc[t].dying \/ tunnelProc[t].now = "up"]
       ELSE tunnelProc[t]]
  /\ todo' = {t \in Tunnel : Desired(t) /\ ~Kept(t)}
  /\ UNCHANGED <<remotePlan, plansSaved, made, entries, remoteDeaths>>

Started(t, state, url) ==
  tunnels' = [tunnels EXCEPT ![t] =
    [mode |-> remotePlan.tunnel[t].mode, target |-> Target(t), port |-> remotePlan.tunnel[t].port,
     to |-> entries[Target(t)], state |-> state, url |-> url]]

\* BoundTunnel::start; what is entered into the map once all have been started is entered
\* at once here, under the same reconcile lock.  What could not be started stays in the
\* map as an error.
StartListener(t) ==
  /\ remotePlan.tunnel[t].mode = "listener"
  /\ Started(t, "running", TRUE) /\ UNCHANGED <<holder, tunnelProc, remoteDeaths>>
StartLan(t) ==
  LET p == remotePlan.tunnel[t].port IN
  /\ remotePlan.tunnel[t].mode = "lan" /\ UNCHANGED tunnelProc
  /\ \/ /\ holder[p] = Free
        /\ Started(t, "running", TRUE)
        /\ holder' = [holder EXCEPT ![p] =
             [by |-> t, rev |-> entries[Target(t)].rev, aborted |-> FALSE]]
        /\ UNCHANGED remoteDeaths
     \/ TriesRunOut(p) /\ Started(t, "error", FALSE) /\ UNCHANGED holder
StartProcess(t) ==
  /\ remotePlan.tunnel[t].mode = "quick" /\ UNCHANGED <<holder, remoteDeaths>>
  /\ \/ \E url \in BOOLEAN :
          Started(t, "running", url) /\ tunnelProc' = [tunnelProc EXCEPT ![t].now = "up"]
     \/ Started(t, "error", FALSE) /\ UNCHANGED tunnelProc

StartTunnel(t) ==
  /\ reconciling = "start" /\ t \in todo /\ todo' = todo \ {t}
  /\ StartListener(t) \/ StartLan(t) \/ StartProcess(t)
  /\ UNCHANGED <<remotePlan, plansSaved, reconciling, made, entries>>

Reconciled ==
  /\ reconciling = "start" /\ todo = {} /\ reconciling' = "idle"
  /\ UNCHANGED <<remotePlan, plansSaved, todo, made, entries, tunnels, holder, tunnelProc,
                 remoteDeaths>>

-----------------------------------------------------------------------------
(* Servers, children and the tasks that own them.                           *)

\* An aborted server drops its listener; a live one may fail by itself.
DropListener(p) ==
  /\ holder[p].aborted /\ holder' = [holder EXCEPT ![p] = Free]
  /\ UNCHANGED <<remotePlan, plansSaved, reconciling, todo, made, entries, tunnels, tunnelProc,
                 remoteDeaths>>
ServerFails(p) ==
  /\ holder[p].by # Nobody /\ ~holder[p].aborted /\ remoteDeaths < MaxDeath
  /\ remoteDeaths' = remoteDeaths + 1 /\ holder' = [holder EXCEPT ![p] = Free]
  /\ UNCHANGED <<remotePlan, plansSaved, reconciling, todo, made, entries, tunnels, tunnelProc>>

\* The drain task reads the URL, even one the child printed before it ended.
UrlRead(t) ==
  /\ tunnels[t].mode = "quick" /\ tunnelProc[t].now # "none" /\ ~tunnels[t].url
  /\ tunnels' = [tunnels EXCEPT ![t].url = TRUE]
  /\ UNCHANGED <<remotePlan, plansSaved, reconciling, todo, made, entries, holder, tunnelProc,
                 remoteDeaths>>
\* The owner task: a child that ends takes its URL along; one that is torn down is
\* killed and reaped.
ChildExits(t) ==
  /\ tunnelProc[t].now = "up" /\ remoteDeaths < MaxDeath /\ remoteDeaths' = remoteDeaths + 1
  /\ tunnelProc' = [tunnelProc EXCEPT ![t].now = "exited"]
  /\ tunnels' = [tunnels EXCEPT ![t].state = "error", ![t].url = FALSE]
  /\ UNCHANGED <<remotePlan, plansSaved, reconciling, todo, made, entries, holder>>
ChildKilled(t) ==
  /\ tunnelProc[t].dying /\ tunnelProc' = [tunnelProc EXCEPT ![t].dying = FALSE]
  /\ UNCHANGED <<remotePlan, plansSaved, reconciling, todo, made, entries, tunnels, holder,
                 remoteDeaths>>

-----------------------------------------------------------------------------
ReconcileStep ==
  \/ InsertEntries \/ PlanTunnels \/ Reconciled
  \/ \E e \in Entry : BindEntry(e)
  \/ \E t \in Tunnel : StartTunnel(t)

RemoteNext ==
  \/ \E plan \in Plan : Reconcile(plan)
  \/ ReconcileStep
  \/ \E p \in Port : DropListener(p) \/ ServerFails(p)
  \/ \E t \in Tunnel : UrlRead(t) \/ ChildExits(t) \/ ChildKilled(t)

RemoteSpec == RemoteInit /\ [][RemoteNext]_remoteVars

-----------------------------------------------------------------------------
\* Whatever listens once a save has been reconciled is in the maps, with the routes and
\* the port of that configuration: no old gate, no old token and no listener of a
\* removed entrypoint or LAN tunnel stays open (reconcile, teardown).
NoStrayListener ==
  reconciling = "idle" => \A p \in Port :
    \/ holder[p].by = Nobody \/ holder[p].aborted
    \/ \E e \in Entry :
         /\ holder[p].by = e /\ entries[e] = Wanted(remotePlan, e)
         /\ entries[e] = [port |-> p, rev |-> holder[p].rev]
    \/ \E t \in Tunnel :
         /\ holder[p].by = t /\ ListensAt(remotePlan, t) = p
         /\ tunnels[t].mode = "lan" /\ tunnels[t].to.rev = holder[p].rev

\* A tunnel that runs leads to where its target is bound, under the signature it is
\* bound with, so that a public URL never reaches a port that has become another
\* entrypoint's (TunnelDesired).
TunnelsFollow ==
  reconciling = "idle" => \A t \in Tunnel :
    tunnels[t] # NoTunnel =>
      /\ remotePlan.tunnel[t].mode = tunnels[t].mode
      /\ tunnels[t].to.port # Nobody
      /\ tunnels[t].to = entries[Target(t)] /\ tunnels[t].to = Wanted(remotePlan, Target(t))

\* "A save takes effect on the Remote Access listener runtime immediately" (set_config):
\* when nothing has failed by itself and no listener was dropped late, every entrypoint of
\* a valid configuration is bound once its reconciliation is over.
SaveTakesEffect ==
  (reconciling = "idle" /\ remoteDeaths = 0) =>
    \A e \in Entry : Wanted(remotePlan, e).port # Nobody => entries[e] = Wanted(remotePlan, e)
=============================================================================
