SPECIFICATION Spec
CONSTANTS
  None = None
  Ok = Ok
  Err = Err
  Databases <- AllDatabases
  Filters <- AllFilters
  Indexed = {TRUE, FALSE}
  Keys <- AnswerKeys
INVARIANT ResultIsQueryAnswer
PROPERTY ReachesEnd
\* A full scan of the two-level table aborts at its next call after the
\* end (cursor.rs:356), after which no call is made.
CHECK_DEADLOCK FALSE
