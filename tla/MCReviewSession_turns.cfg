SPECIFICATION Spec
CONSTANTS
  Thread = {"t1"}
  NoThread = "none"
  Pair = {"pair"}
  PairOf <- SamePair
  Sender = {"s1", "s2"}
  Stopper = {}
  MaxTurn = 3
  MaxDeath = 0
  MaxCrash = 0
INVARIANTS
  OneTurnAtATime
CHECK_DEADLOCK FALSE
