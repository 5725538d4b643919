SPECIFICATION Spec
CONSTANTS
  None = None
  Ok = Ok
  Err = Err
  Databases <- AllDatabases
  Filters <- LookupFilters
  Indexed = {TRUE}
  Keys <- LookupKeys
INVARIANT NoneIsFinal
