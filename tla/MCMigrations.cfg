SPECIFICATION UpgradeSpec
CONSTANTS
  Origin = {0, 1, 2, 3, 4, 5, 6, 7, 8, 9, 10, 11, 12, 13, 14, 15, 16, 17, 18, 19}
  MaxCut = 2
INVARIANT UpgradeIsTransaction
CHECK_DEADLOCK FALSE
