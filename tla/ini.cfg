SPECIFICATION Spec
CONSTANTS
  Char <- Characters
  Files <- AllFiles
  Wanted <- Wishes
INVARIANTS LastValueKept SettingsComplete
CHECK_DEADLOCK FALSE
