SPECIFICATION Spec
CONSTANTS
  codex = codex
  c1 = c1
  Row <- DeliveryRows
  Engine = {codex}
  Command = {c1}
  KindOf <- DeliveryKinds
  EngineOf <- OneEngine
  Started = {1}
  Corrupt = {}
  MaxAttempts = 2
  ClaimLimit = 1
  MaxCrash = 1
  MaxStop = 0
  MaxRequeue = 0
  MaxResume = 0
  MaxReplay = 1
PROPERTY NoStartedAfterEnd
