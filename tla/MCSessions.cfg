SPECIFICATION SessionsSpec
CONSTANTS
  Thread = {"t1", "t2"}
  NoThread = "none"
  Pair = {"pair"}
  PairOf <- SamePair
  Sender = {"s"}
  Stopper = {"c1", "c2"}
  MaxTurn = 2
  MaxDeath = 1
  MaxCrash = 1
INVARIANTS
  NoDoubleStart
  NoLeakedReservation
  SettledAgree
PROPERTIES
  EndedStaysEnded
  EndIsSeen
CHECK_DEADLOCK FALSE
