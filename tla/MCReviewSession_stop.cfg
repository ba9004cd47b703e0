SPECIFICATION Spec
CONSTANTS
  Thread = {"t1"}
  NoThread = "none"
  Pair = {"pair"}
  PairOf <- SamePair
  Sender = {}
  Stopper = {"c1"}
  MaxTurn = 1
  MaxDeath = 0
  MaxCrash = 0
INVARIANTS
  StopTakesHold
CHECK_DEADLOCK FALSE
