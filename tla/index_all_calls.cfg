CONSTANTS
  None = None
  Ok = Ok
  Err = Err
  Kind = "index"
  Root = 2
  InitTrees <- IndexTrees
  SeekKeys <- IndexThreeSeekKeys
  InsertKeys = {3}
  Payloads = {1}
SPECIFICATION AllCallsSpec
CONSTRAINT IdxBounded
INVARIANT TypeOK
INVARIANT PanicsOnlyAfterMisuse
\* After a failed table_move_to or insert, move_next can fail its assert!
\* (cursor.rs:369) and the program aborts, after which no call is made.
CHECK_DEADLOCK FALSE
