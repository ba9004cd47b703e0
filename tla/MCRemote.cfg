SPECIFICATION RemoteSpec
CONSTANTS
  e1 = e1
  e2 = e2
  lan = lan
  quick = quick
  Entry = {e1, e2}
  Tunnel = {lan, quick}
  Port = {1, 2, 3}
  Nobody = Nobody
  Plan <- MCPlan
  NoPlan <- MCNoPlan
  MaxPlan = 3
  MaxDeath = 1
INVARIANT SaveTakesEffect
CHECK_DEADLOCK FALSE
