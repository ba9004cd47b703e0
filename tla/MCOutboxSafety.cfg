SPECIFICATION Spec
CONSTANTS
  codex = codex
  Row <- MCRow
  Engine = {codex}
  Command = {"command"}
  KindOf <- MCKind
  EngineOf <- OneEngine
  Started = {3}
  Corrupt = {}
  MaxAttempts = 2
  ClaimLimit = 1
  MaxCrash = 1
  MaxStop = 1
  MaxRequeue = 1
  MaxResume = 1
  MaxReplay = 1
INVARIANTS
  RetryLeft
  NoStrandedBlock
  PromptWake
ACTION_CONSTRAINT WithinOnePair
PROPERTY ImplementsDurableAction
