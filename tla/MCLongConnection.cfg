SPECIFICATION ConnectionSpec
CONSTANTS
  Config <- MCConfig
  Off = "off"
  MaxGeneration = 3
  MaxSave = 2
PROPERTY ReconcileReturns
CHECK_DEADLOCK FALSE
