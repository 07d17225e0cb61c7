SPECIFICATION Spec
CONSTANTS
  Records = {"short", "long"}
  Size <- Sizes
  SegmentMax = 3
  RecoverMax = 2
  AlwaysSync = FALSE
  MaxAppends = 4
  MaxCrashes = 2
  MaxFaults = 1
INVARIANTS AckedRecoverable ReadBack AlwaysOpens SegmentsBounded
PROPERTIES ImplementsLog AckedStays
