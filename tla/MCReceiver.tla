----------------------------- MODULE MCReceiver -----------------------------
(* An instance of Receiver for TLC: two starts and a stop; the user may change *)
(* the kind of tunnel and the projects that have a route.                      *)
EXTENDS Receiver, TLC

MCTunnelMode == "quickA" :> "quick" @@ "commandA" :> "command" @@ "listenB" :> "listener"
MCRoutes == "quickA" :> {"p"} @@ "commandA" :> {"p"} @@ "listenB" :> {"p", "q"}
\* The second does not authenticate.
MCProjectOf == "d1" :> "p" @@ "d2" :> "q"
=============================================================================
