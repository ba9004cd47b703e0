------------------------------ MODULE MCRemote ------------------------------
(* An instance of Remote for TLC: two entrypoints that may swap their ports, a *)
(* LAN tunnel whose port an entrypoint may take over, a quick tunnel that may  *)
(* become a plain listener, and a token that is rotated (rev).                 *)
EXTENDS Remote, TLC

CONSTANTS e1, e2, lan, quick

EntryAt(port, rev) == [port |-> port, rev |-> rev]
EntryOff == [port |-> Nobody, rev |-> 0]
TunnelOff == [mode |-> "off", target |-> Nobody, port |-> Nobody]
Lan(e, port) == [mode |-> "lan", target |-> e, port |-> port]
Toward(e, mode) == [mode |-> mode, target |-> e, port |-> Nobody]
PlanOf(a, b, l, q) == [entry |-> e1 :> a @@ e2 :> b, tunnel |-> lan :> l @@ quick :> q]

MCNoPlan == PlanOf(EntryOff, EntryOff, TunnelOff, TunnelOff)
MCPlan ==
  {MCNoPlan,
   PlanOf(EntryAt(1, 1), EntryAt(2, 1), Lan(e1, 3), Toward(e1, "quick")),
   PlanOf(EntryAt(2, 1), EntryAt(1, 1), Lan(e2, 3), Toward(e1, "quick")),
   PlanOf(EntryAt(3, 1), EntryOff, TunnelOff, Toward(e1, "quick")),
   PlanOf(EntryAt(1, 2), EntryAt(2, 1), Lan(e1, 3), Toward(e1, "listener"))}
=============================================================================
