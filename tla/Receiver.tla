------------------------------ MODULE Receiver ------------------------------
(***************************************************************************)
(* The webhook receiver: one local HTTP server and, by mode, a tunnel child*)
(* in front of it.  Starting, stopping and replacing them awaits the end of*)
(* the server, the probe of cloudflared and its URL, all under start_lock; *)
(* a status poll, the end of the application and the deliveries come in    *)
(* between.  All receivers want the one configured port.                   *)
(***************************************************************************)
EXTENDS Naturals, FiniteSets

CONSTANTS
  StartCall,   \* start_webhook commands; each names the runtime that it makes
  StopCall,    \* stop_webhook commands
  NoCall,      \* nobody
  Setting,     \* configurations the user may save
  TunnelMode,  \* the tunnel mode of each setting: quick, command or listener
  Routes,      \* the projects a setting has a route for
  Delivery,    \* requests of the platforms
  ProjectOf,   \* the project each is about
  Forged,      \* deliveries that do not authenticate
  OffTopic,    \* events that are ignored, and payloads that do not parse
  MaxSetting,  \* bound on the configurations saved
  MaxRefusal   \* bound on the deliveries that cannot be persisted

ASSUME ReceiverAssumption ==
  /\ NoCall \notin StartCall \cup StopCall /\ StartCall \cap StopCall = {}
  /\ Setting # {} /\ TunnelMode \in [Setting -> {"quick", "command", "listener"}]
  /\ MaxSetting \in Nat /\ MaxRefusal \in Nat

VARIABLES
  setting,    \* the saved configuration
  edits,      \* configurations saved so far
  startAt,    \* where each start_webhook command is
  startCfg,   \* the configuration and routes it loaded
  haltAt,     \* where each stop_webhook command is
  runtimeLock, \* the holder of start_lock
  newest,     \* the last command that got start_lock
  prior,      \* the runtime the holder has taken out and tears down
  receiver,   \* WebhookManager.runtime
  httpServer, \* the server task of each runtime; it owns the listener
  tunnelChild,\* the tunnel child of each runtime
  request,    \* each delivery, from the platform to its answer
  handledBy,  \* the runtime whose handler has it
  inboxed,    \* the deliveries persisted in the inbox
  refusals,   \* inserts that failed so far
  quit        \* the application has exited

callVars == <<startAt, startCfg, haltAt, runtimeLock, newest, prior>>
runtimeVars == <<receiver, httpServer, tunnelChild>>
requestVars == <<request, handledBy, inboxed, refusals>>
receiverVars == <<setting, edits, callVars, runtimeVars, requestVars, quit>>

ReceiverTypeOK ==
  /\ setting \in Setting /\ edits \in 0..MaxSetting
  /\ startAt \in [StartCall -> {"idle", "lock", "teardown", "probe", "spawn", "scan",
                                "abandon", "over"}]
  /\ startCfg \in [StartCall -> Setting]
  /\ haltAt \in [StopCall -> {"idle", "lock", "teardown", "over"}]
  /\ runtimeLock \in StartCall \cup StopCall \cup {NoCall}
  /\ newest \in StartCall \cup StopCall \cup {NoCall}
  /\ prior \in StartCall \cup {NoCall} /\ receiver \in StartCall \cup {NoCall}
  /\ httpServer \in [StartCall -> {"none", "serving", "closing", "aborted", "closed"}]
  /\ tunnelChild \in [StartCall -> {"none", "up", "exited", "gone"}]
  /\ request \in [Delivery -> {"sent", "ingest", "persisted", "kept", "unauthorized",
                               "ignored", "wrongRepo", "failed"}]
  /\ handledBy \in [Delivery -> StartCall \cup {NoCall}]
  /\ inboxed \subseteq Delivery /\ refusals \in 0..MaxRefusal /\ quit \in BOOLEAN

ReceiverInit ==
  /\ setting = (CHOOSE s \in Setting : TRUE) /\ edits = 0
  /\ startAt = [c \in StartCall |-> "idle"] /\ startCfg = [c \in StartCall |-> setting]
  /\ haltAt = [c \in StopCall |-> "idle"]
  /\ runtimeLock = NoCall /\ newest = NoCall /\ prior = NoCall /\ receiver = NoCall
  /\ httpServer = [c \in StartCall |-> "none"] /\ tunnelChild = [c \in StartCall |-> "none"]
  /\ request = [d \in Delivery |-> "sent"] /\ handledBy = [d \in Delivery |-> NoCall]
  /\ inboxed = {} /\ refusals = 0 /\ quit = FALSE

-----------------------------------------------------------------------------
(* set_config: the hook that follows a save reaches the listeners and the   *)
(* messaging connections, not the receiver.                                 *)

SaveSetting(s) ==
  /\ ~quit /\ s # setting /\ edits < MaxSetting
  /\ setting' = s /\ edits' = edits + 1
  /\ UNCHANGED <<callVars, runtimeVars, requestVars, quit>>

-----------------------------------------------------------------------------
(* start_webhook and WebhookManager::start.                                 *)

\* The configuration and the routes are loaded before the lock is awaited.
StartWebhook(c) ==
  /\ ~quit /\ startAt[c] = "idle"
  /\ startAt' = [startAt EXCEPT ![c] = "lock"]
  /\ startCfg' = [startCfg EXCEPT ![c] = setting]
  /\ UNCHANGED <<setting, edits, haltAt, runtimeLock, newest, prior, runtimeVars, requestVars,
                 quit>>

Occupied == \E r \in StartCall : httpServer[r] \in {"serving", "closing", "aborted"}
ModeOf(c) == TunnelMode[startCfg[c]]

\* A command that owns a managed cloudflared and cannot resolve it ends before it has
\* touched the prior runtime.
CloudflaredUnresolved(c) ==
  /\ ~quit /\ startAt[c] = "lock" /\ runtimeLock = NoCall /\ ModeOf(c) # "listener"
  /\ newest' = c /\ startAt' = [startAt EXCEPT ![c] = "over"]
  /\ UNCHANGED <<setting, edits, startCfg, haltAt, runtimeLock, prior, runtimeVars, requestVars,
                 quit>>

\* Mutant: a stop does not wait for start_lock.
TakeRuntimeUnlocked(h) ==
  /\ ~quit /\ (h \in StartCall => runtimeLock = NoCall)
  /\ runtimeLock' = (IF runtimeLock = NoCall THEN h ELSE runtimeLock) /\ newest' = h
  /\ prior' = receiver /\ receiver' = NoCall
  /\ httpServer' = [r \in StartCall |-> IF r = receiver THEN "closing" ELSE httpServer[r]]
  /\ UNCHANGED <<setting, edits, startCfg, tunnelChild, requestVars, quit>>

\* take, and the first half of teardown_awaiting: the signal of the graceful shutdown.
TakeRuntime(h) ==
  /\ ~quit /\ runtimeLock = NoCall
  /\ runtimeLock' = h /\ newest' = h /\ prior' = receiver /\ receiver' = NoCall
  /\ httpServer' = [r \in StartCall |-> IF r = receiver THEN "closing" ELSE httpServer[r]]
  /\ UNCHANGED <<setting, edits, startCfg, tunnelChild, requestVars, quit>>

EnterStart(c) ==
  /\ startAt[c] = "lock" /\ TakeRuntime(c)
  /\ startAt' = [startAt EXCEPT ![c] = "teardown"] /\ UNCHANGED haltAt

\* Mutant: the end of the server is signalled, not awaited.
PriorIsSignalled == TRUE

\* The server task has ended, so the port is free: kill and reap the child.
PriorIsDown == prior # NoCall => httpServer[prior] = "closed"
ReapPrior ==
  /\ PriorIsDown
  /\ tunnelChild' = [r \in StartCall |->
       IF r = prior /\ tunnelChild[r] # "none" THEN "gone" ELSE tunnelChild[r]]
  /\ prior' = NoCall

TornDown(c) ==
  /\ ~quit /\ runtimeLock = c /\ startAt[c] = "teardown" /\ ReapPrior
  /\ startAt' = [startAt EXCEPT ![c] = "probe"]
  /\ UNCHANGED <<setting, edits, startCfg, haltAt, runtimeLock, newest, receiver, httpServer,
                 requestVars, quit>>

\* Every way out of start releases the lock.
Leave(c) == startAt' = [startAt EXCEPT ![c] = "over"] /\ runtimeLock' = NoCall

\* cloudflared is not installed, or the port stays taken for all the retries.
GiveUpStart(c) ==
  /\ ~quit /\ startAt[c] = "probe" /\ (ModeOf(c) # "listener" \/ Occupied)
  /\ Leave(c)
  /\ UNCHANGED <<setting, edits, startCfg, haltAt, newest, prior, runtimeVars, requestVars, quit>>

BindPort(c) ==
  /\ ~quit /\ startAt[c] = "probe" /\ ~Occupied
  /\ httpServer' = [httpServer EXCEPT ![c] = "serving"]
  /\ startAt' = [startAt EXCEPT ![c] = "spawn"]
  /\ UNCHANGED <<setting, edits, startCfg, haltAt, runtimeLock, newest, prior, receiver,
                 tunnelChild, requestVars, quit>>

InstallRuntime(c) == receiver' = c /\ Leave(c)

\* listener: no child; command: the child and the runtime in one step; quick: the
\* child is in this command's hands while its URL is awaited.
SpawnTunnel(c) ==
  /\ ~quit /\ startAt[c] = "spawn"
  /\ \/ ModeOf(c) = "listener" /\ InstallRuntime(c) /\ UNCHANGED tunnelChild
     \/ /\ ModeOf(c) = "command" /\ InstallRuntime(c)
        /\ tunnelChild' = [tunnelChild EXCEPT ![c] = "up"]
     \/ /\ ModeOf(c) = "quick" /\ startAt' = [startAt EXCEPT ![c] = "scan"]
        /\ tunnelChild' = [tunnelChild EXCEPT ![c] = "up"]
        /\ UNCHANGED <<receiver, runtimeLock>>
  /\ UNCHANGED <<setting, edits, startCfg, haltAt, newest, prior, httpServer, requestVars, quit>>

\* The URL has been printed, or the scan timed out, or it met the end of the pipe
\* before the exit of the child could be seen.
UrlScanned(c) ==
  /\ ~quit /\ startAt[c] = "scan" /\ InstallRuntime(c)
  /\ UNCHANGED <<setting, edits, startCfg, haltAt, newest, prior, httpServer, tunnelChild,
                 requestVars, quit>>

\* The spawn failed, or the child ended before a URL: the server is shut down.
SpawnFailed(c) ==
  /\ ~quit
  /\ \/ startAt[c] = "spawn" /\ ModeOf(c) # "listener"
     \/ startAt[c] = "scan" /\ tunnelChild[c] = "exited"
  /\ startAt' = [startAt EXCEPT ![c] = "abandon"]
  /\ tunnelChild' = [tunnelChild EXCEPT ![c] = IF @ = "exited" THEN "gone" ELSE @]
  /\ httpServer' = [httpServer EXCEPT ![c] = "closing"]
  /\ UNCHANGED <<setting, edits, startCfg, haltAt, runtimeLock, newest, prior, receiver,
                 requestVars, quit>>

Abandoned(c) ==
  /\ ~quit /\ startAt[c] = "abandon" /\ httpServer[c] = "closed"
  /\ Leave(c)
  /\ UNCHANGED <<setting, edits, startCfg, haltAt, newest, prior, runtimeVars, requestVars, quit>>

-----------------------------------------------------------------------------
(* stop_webhook, the poll of webhook_status and the end of the application. *)

StopWebhook(p) ==
  /\ ~quit /\ haltAt[p] = "idle"
  /\ haltAt' = [haltAt EXCEPT ![p] = "lock"]
  /\ UNCHANGED <<setting, edits, startAt, startCfg, runtimeLock, newest, prior, runtimeVars,
                 requestVars, quit>>

EnterStop(p) ==
  /\ haltAt[p] = "lock" /\ TakeRuntime(p)
  /\ haltAt' = [haltAt EXCEPT ![p] = "teardown"] /\ UNCHANGED startAt

StopDone(p) ==
  /\ ~quit /\ haltAt[p] = "teardown" /\ ReapPrior
  /\ haltAt' = [haltAt EXCEPT ![p] = "over"]
  /\ runtimeLock' = (IF runtimeLock = p THEN NoCall ELSE runtimeLock)
  /\ UNCHANGED <<setting, edits, startAt, startCfg, newest, receiver, httpServer, requestVars,
                 quit>>

\* WebhookRuntime::teardown, which does not wait: the server is aborted, the child killed.
Teardown(r) ==
  /\ receiver' = NoCall
  /\ httpServer' = [httpServer EXCEPT ![r] = "aborted"]
  /\ tunnelChild' = [tunnelChild EXCEPT ![r] = IF @ = "none" THEN @ ELSE "gone"]

\* status: a runtime whose child has exited is torn down, without start_lock.
HealStatus ==
  /\ ~quit /\ receiver # NoCall /\ tunnelChild[receiver] = "exited"
  /\ Teardown(receiver)
  /\ UNCHANGED <<setting, edits, callVars, requestVars, quit>>

\* RunEvent::Exit: shutdown, and then the process is gone with every task.
Quit ==
  /\ ~quit /\ quit' = TRUE
  /\ IF receiver = NoCall THEN UNCHANGED runtimeVars ELSE Teardown(receiver)
  /\ UNCHANGED <<setting, edits, callVars, requestVars>>

-----------------------------------------------------------------------------
(* The server task, the child, and the deliveries.                          *)

InHand(r) == {d \in Delivery : handledBy[d] = r /\ request[d] \in {"ingest", "persisted"}}

\* A graceful shutdown lets the handlers finish; an abort does not stop them.
ServerEnds(r) ==
  /\ ~quit
  /\ httpServer[r] = "aborted" \/ (httpServer[r] = "closing" /\ InHand(r) = {})
  /\ httpServer' = [httpServer EXCEPT ![r] = "closed"]
  /\ UNCHANGED <<setting, edits, callVars, receiver, tunnelChild, requestVars, quit>>

TunnelExits(r) ==
  /\ ~quit /\ tunnelChild[r] = "up"
  /\ tunnelChild' = [tunnelChild EXCEPT ![r] = "exited"]
  /\ UNCHANGED <<setting, edits, callVars, receiver, httpServer, requestVars, quit>>

\* handle_webhook: authentication, the kind of the event, the routes this server was
\* started with.  Only what is routable goes on to the inbox; everything else is
\* answered, and recorded as a diagnostic, at once.
Authentic(d) == d \notin Forged
Routed(d, routes) == ProjectOf[d] \in routes
Verdict(d, routes) ==
  IF ~Authentic(d) THEN "unauthorized" ELSE IF d \in OffTopic THEN "ignored"
  ELSE IF Routed(d, routes) THEN "ingest" ELSE "wrongRepo"

Handle(d, r) ==
  /\ ~quit /\ request[d] \in {"sent", "failed"} /\ httpServer[r] = "serving"
  /\ request' = [request EXCEPT ![d] = Verdict(d, Routes[startCfg[r]])]
  /\ handledBy' = [handledBy EXCEPT ![d] = r]
  /\ UNCHANGED <<setting, edits, callVars, runtimeVars, inboxed, refusals, quit>>

\* Mutant: the answer does not depend on the insert.
IngestUngated(d) ==
  /\ ~quit /\ request[d] = "ingest"
  /\ \/ inboxed' = inboxed \cup {d} /\ UNCHANGED refusals
     \/ refusals < MaxRefusal /\ refusals' = refusals + 1 /\ UNCHANGED inboxed
  /\ request' = [request EXCEPT ![d] = "persisted"]
  /\ UNCHANGED <<setting, edits, callVars, runtimeVars, handledBy, quit>>

\* The ingestor or the refresher: the durable insert, which gates the answer.
Ingest(d) ==
  /\ ~quit /\ request[d] = "ingest"
  /\ \/ /\ inboxed' = inboxed \cup {d} /\ UNCHANGED refusals
        /\ request' = [request EXCEPT ![d] = "persisted"]
     \/ /\ refusals < MaxRefusal /\ refusals' = refusals + 1 /\ UNCHANGED inboxed
        /\ request' = [request EXCEPT ![d] = "failed"]
  /\ UNCHANGED <<setting, edits, callVars, runtimeVars, handledBy, quit>>

Acknowledge(d) ==
  /\ ~quit /\ request[d] = "persisted"
  /\ request' = [request EXCEPT ![d] = "kept"]
  /\ UNCHANGED <<setting, edits, callVars, runtimeVars, handledBy, inboxed, refusals, quit>>

-----------------------------------------------------------------------------
StartStep(c) ==
  \/ CloudflaredUnresolved(c) \/ EnterStart(c) \/ TornDown(c) \/ GiveUpStart(c)
  \/ BindPort(c) \/ SpawnTunnel(c) \/ UrlScanned(c) \/ SpawnFailed(c) \/ Abandoned(c)
StopStep(p) == EnterStop(p) \/ StopDone(p)
DeliveryStep(d) == Ingest(d) \/ Acknowledge(d)

ReceiverNext ==
  \/ \E s \in Setting : SaveSetting(s)
  \/ \E c \in StartCall :
       StartWebhook(c) \/ StartStep(c) \/ ServerEnds(c) \/ TunnelExits(c)
  \/ \E p \in StopCall : StopWebhook(p) \/ StopStep(p)
  \/ \E d \in Delivery : DeliveryStep(d) \/ \E r \in StartCall : Handle(d, r)
  \/ HealStatus \/ Quit

\* The commands, the servers and the handlers run; status is polled while the panel is
\* open, which nothing promises.
ReceiverFair ==
  /\ \A c \in StartCall :
       WF_receiverVars(StartStep(c)) /\ WF_receiverVars(ServerEnds(c))
  /\ \A p \in StopCall : WF_receiverVars(StopStep(p))
  /\ \A d \in Delivery : WF_receiverVars(DeliveryStep(d))

ReceiverSpec == ReceiverInit /\ [][ReceiverNext]_receiverVars /\ ReceiverFair

-----------------------------------------------------------------------------
\* While the program runs, no live tunnel child is without an owner, and the port is
\* held by nobody but the runtime, the start or the teardown under start_lock, or a
\* server that a status poll aborted: a restart never meets the port of the receiver it
\* replaced (teardown_awaiting), a failed start leaks neither, and nothing is left behind
\* by a poll that comes between.
ReceiverOwned ==
  ~quit => \A r \in StartCall :
    (tunnelChild[r] \in {"up", "exited"} \/ httpServer[r] \in {"serving", "closing"}) =>
      r \in {receiver, prior, runtimeLock}

\* A stop that comes while a start is in flight is not lost: once the stop has its turn,
\* nothing runs until another start has had one (stop waits for start_lock).
StopIsHonoured ==
  (newest \in StopCall /\ haltAt[newest] = "over") =>
    /\ receiver = NoCall
    /\ \A r \in StartCall : httpServer[r] # "serving" /\ tunnelChild[r] # "up"

\* An authentic event of a project that every saved configuration enables is never
\* acknowledged without being in the inbox, whichever receivers come and go meanwhile
\* (handle_webhook: the answer waits for the durable insert).
AcknowledgedIsKept ==
  \A d \in Delivery \ (Forged \cup OffTopic) :
    /\ request[d] \in {"kept", "persisted"} => d \in inboxed
    /\ (\A s \in Setting : ProjectOf[d] \in Routes[s]) => request[d] # "wrongRepo"

\* The receiver serves the routes of the saved configuration, after a restart that
\* follows the save if need be ("a project add/remove requires a webhook restart (the
\* composition root wires that on `set_config`)", start_webhook).
Current == receiver = NoCall \/ Routes[startCfg[receiver]] = Routes[setting]
RoutesCatchUp == ~Current ~> (Current \/ quit)
=============================================================================
