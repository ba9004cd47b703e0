SPECIFICATION ServicesSpec
CONSTANTS
  ReviewRow <- MCRow
  NoReviewRow = "manual"
  HeadOfRow <- MCHead
  Kind = {"codex", "claude", "cursor"}
  MaxSession = 2
  MaxMishap = 2
  r1 = r1
  r2 = r2
  Request = {r1, r2}
  x1 = x1
  ServerAsk = {x1}
  NoHolder = NoHolder
  MaxClaudeTurn = 3
  MaxStop = 2
  Acp <- MCAcp
  ModelOf <- MCModel
  NoAcp = "nobody"
  MaxProcess = 2
  MaxAcpEvent = 2
  Ask <- MCAsk
  Message <- MCMessage
  AskOf <- MCAskOf
  CommandOf <- MCCommandOf
  MaxPending = 1
  MaxUpset = 1
  Config = {"c1", "c2"}
  Off = "off"
  MaxGeneration = 5
  MaxSave = 3
  Pty <- MCPty
  MaxPty = 1
  RingCap = 1
  MaxChunk = 3
  MaxPanel = 1
  StartCall = {"a", "b"}
  StopCall = {"x"}
  NoCall = "none"
  Setting = {"quickA", "listenB", "commandA"}
  TunnelMode <- MCTunnelMode
  Routes <- MCRoutes
  Delivery = {"d1", "d2"}
  ProjectOf <- MCProjectOf
  Forged = {"d2"}
  OffTopic = {}
  MaxSetting = 1
  MaxRefusal = 1
  e1 = e1
  e2 = e2
  lan = lan
  quick = quick
  Entry = {e1, e2}
  Tunnel = {lan, quick}
  Port = {1, 2, 3}
  Nobody = Nobody
  Plan <- MCPlan
  NoPlan <- MCNoPlan
  MaxPlan = 3
  MaxDeath = 1
  Origin = {0, 1, 2, 3, 4, 5, 6, 7, 8, 9, 10, 11, 12, 13, 14, 15, 16, 17, 18, 19}
  MaxCut = 2
  Caller = {"a", "b"}
  NoCaller = "none"
  Halter = {"x"}
  Proc = {"p1", "p2", "p3"}
  NoProc = "none"
INVARIANTS
  ServicesTypeOK
  OneRecordedReview
  LedgerMeansReviewed
  NoneStranded
  BoundToItsProcess
  OneWinner
  OneConnection
  StreamIsWhole
  ReceiverOwned
  StopIsHonoured
  AcknowledgedIsKept
  NoStrayListener
  TunnelsFollow
  UpgradeIsSound
  NoOrphan
  OneServer
  StopEmpties
PROPERTIES
  StopsTakeEffect
  EveryCallReturns
CHECK_DEADLOCK FALSE
