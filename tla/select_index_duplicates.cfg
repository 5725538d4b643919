SPECIFICATION Spec
CONSTANTS
  None = None
  Ok = Ok
  Err = Err
  Databases <- TwoLevelDatabase
  Filters <- ColumnFilters
  Indexed = {TRUE}
  Keys = {2}
INVARIANT ResultIsQueryAnswer
