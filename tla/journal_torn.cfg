SPECIFICATION Spec
CONSTANTS
  Records = {"short", "long"}
  Size <- Sizes
  SegmentMax = 3
  RecoverMax = 2
  AlwaysSync = FALSE
  MaxAppends = 3
  MaxCrashes = 0
  MaxFaults = 1
INVARIANTS RamIsDurable
