----------------------------- MODULE MCServices -----------------------------
(***************************************************************************)
(* The engines and the edges of the program, each on a small instance, that*)
(* one run explores side by side: the start of a review from the outbox,   *)
(* the app-server's manager, the JSON-RPC client, the Claude and Cursor    *)
(* engines, the human input broker, a long connection, the web terminal,   *)
(* the webhook receiver, remote access and the upgrade of the database.    *)
(* They share no state; which one a behaviour is of is chosen at its start,*)
(* and the others stay as they began.                                      *)
(***************************************************************************)
EXTENDS ReviewStart, Rpc, Claude, Cursor, HumanInput, LongConnection, WebPty, MCReceiver,
        MCRemote, MCMigrations, CodexManager

VARIABLE part
servicesVars ==
  <<startVars, rpcVars, claudeVars, cursorVars, humanVars, connectionVars, ptyVars,
    receiverVars, remoteVars, upgradeVars, serverVars, part>>

\* Two rows of different heads of one pull request.
MCRow == {"a", "b"}
MCHead == "a" :> "h1" @@ "b" :> "h2"

\* s1 and s3 want one model, s2 another.
MCAcp == {"s1", "s2", "s3"}
MCModel == "s1" :> "m1" @@ "s2" :> "m2" @@ "s3" :> "m1"

\* An answer and a cancel of the first question; the second only meets the cap.
MCAsk == {"q1", "q2"}
MCMessage == {"answer", "cancel"}
MCAskOf == "answer" :> "q1" @@ "cancel" :> "q1"
MCCommandOf == "answer" :> "answered" @@ "cancel" :> "cancelled"

\* The second shell only meets the cap.
MCPty == {"p1", "p2"}

\* The third Cursor session starts after the first and leaves an event for others.
OfCursor == acpAt'["s3"] # "idle" => acpEvents' >= 1 /\ acpAt'["s1"] # "idle"
OfHuman ==
  /\ askAt'["q2"] # askAt["q2"] => askAt'["q2"] = "over" /\ upsets = 0
  /\ message'["cancel"] # "none" => message'["answer"] # "none"
OfPty ==
  /\ ptyAt'["p2"] # "none" => ptyAt'["p1"] # "none"
  /\ panelAt'["p2"] = "off" /\ written'["p2"].out = 0

ServicesInit ==
  /\ part \in {"start", "rpc", "claude", "cursor", "human", "connection", "pty", "receiver",
               "remote", "upgrade", "server"}
  /\ ReviewStartInit /\ (part # "start" => kind = CHOOSE k \in Kind : TRUE)
  /\ RpcInit /\ ClaudeInit /\ CursorInit /\ HumanInit /\ ConnectionInit /\ PtyInit
  /\ ReceiverInit /\ RemoteInit /\ ManagerInit
  /\ UpgradeInit /\ (part # "upgrade" => origin = 0)

OthersThan(p) ==
  /\ p # "start" => UNCHANGED startVars
  /\ p # "rpc" => UNCHANGED rpcVars
  /\ p # "claude" => UNCHANGED claudeVars
  /\ p # "cursor" => UNCHANGED cursorVars
  /\ p # "human" => UNCHANGED humanVars
  /\ p # "connection" => UNCHANGED connectionVars
  /\ p # "pty" => UNCHANGED ptyVars
  /\ p # "receiver" => UNCHANGED receiverVars
  /\ p # "remote" => UNCHANGED remoteVars
  /\ p # "upgrade" => UNCHANGED upgradeVars
  /\ p # "server" => UNCHANGED serverVars

ServicesNext ==
  /\ \/ part = "start" /\ ReviewStartNext
     \/ part = "rpc" /\ RpcNext
     \/ part = "claude" /\ ClaudeNext
     \/ part = "cursor" /\ CursorNext /\ OfCursor
     \/ part = "human" /\ HumanNext /\ OfHuman
     \/ part = "connection" /\ ConnectionNext
     \/ part = "pty" /\ PtyNext /\ OfPty
     \/ part = "receiver" /\ ReceiverNext
     \/ part = "remote" /\ RemoteNext
     \/ part = "upgrade" /\ UpgradeNext
     \/ part = "server" /\ ManagerNext
  /\ OthersThan(part)
  /\ UNCHANGED part

\* In a part that is not explored, nothing is enabled that its fairness speaks of.
ServicesSpec ==
  /\ ServicesInit /\ [][ServicesNext]_servicesVars
  /\ ClaudeFair /\ CursorFair /\ ManagerFair

ServicesTypeOK ==
  /\ ReviewStartTypeOK /\ RpcTypeOK /\ ClaudeTypeOK /\ CursorTypeOK
  /\ HumanTypeOK /\ ConnectionTypeOK /\ PtyTypeOK /\ ReceiverTypeOK /\ RemoteTypeOK
  /\ UpgradeTypeOK

\* A stop takes effect in both engines that have their own: a Claude turn that a stop
\* has signalled ends, even while its child is still starting and has said nothing,
\* and a Cursor session that is being interrupted does not stay so when its process
\* takes the cancel and never answers.
StopsTakeEffect ==
  ~(SignalledEnded /\ NoneInterrupting) ~> (SignalledEnded /\ NoneInterrupting)
=============================================================================
