SPECIFICATION IntakeSpec
CONSTANTS
  Event <- MCEvent
  ClassOf <- MCClassOf
  HeadOf <- MCHeadOf
  RuleSeq <- MCRuleSeq
  MaxInbox = 1
  PageLimit = 1
  MaxDeliver = 3
  WorkflowBudget = 3
  MaxTrouble = 2
  RulesTrouble = 1
  d1 = d1
  d2 = d2
  Driver = {d1, d2}
  Loop = {1, 2}
  NoLoop = NoLoop
  p1 = p1
  Puller = {p1}
  Webhook = Webhook
  Archiver = Archiver
  NoWriter = NoWriter
  MaxVersion = 2
  Open = {0, 2}
  MaxConfig = 4
INVARIANTS
  IntakeTypeOK
  PlansWhole
  OneNotice
  AnnouncedOnce
  ArchiveKept
PROPERTIES
  OutcomeIsFinal
  EveryEventHandled
  EveryReceiptAnnounced
  StrayWorkEnds
  RowCatchesUp
CHECK_DEADLOCK FALSE
