SPECIFICATION ReceiverSpec
CONSTANTS
  StartCall = {"a", "b"}
  StopCall = {"x"}
  NoCall = "none"
  Setting = {"quickA", "listenB", "commandA"}
  TunnelMode <- MCTunnelMode
  Routes <- MCRoutes
  Delivery = {"d1", "d2"}
  ProjectOf <- MCProjectOf
  Forged = {"d2"}
  OffTopic = {}
  MaxSetting = 1
  MaxRefusal = 1
PROPERTY RoutesCatchUp
CHECK_DEADLOCK FALSE
