SPECIFICATION Spec
CONSTANTS
  None = None
  Ok = Ok
  Err = Err
  Databases <- TwoLevelDatabase
  Filters <- ScanFilters
  Indexed = {FALSE}
  Keys = {0}
INVARIANT NoneIsFinal
CHECK_DEADLOCK FALSE
