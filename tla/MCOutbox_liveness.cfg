SPECIFICATION FairSpec
CONSTANTS
  codex = codex
  c1 = c1
  Row <- LiveRows
  Engine = {codex}
  Command = {c1}
  KindOf <- LiveKinds
  EngineOf <- OneEngine
  Started = {}
  Corrupt = {2}
  MaxAttempts = 2
  ClaimLimit = 1
  MaxCrash = 0
  MaxStop = 1
  MaxRequeue = 0
  MaxResume = 1
  MaxReplay = 0
PROPERTY EverySettled
