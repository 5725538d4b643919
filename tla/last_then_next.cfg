CONSTANTS
  None = None
  Ok = Ok
  Err = Err
  Kind = "table"
  Root = 2
  InitTrees <- TwoLevelTables
  SeekKeys <- TableSeekKeys
  InsertKeys = {3, 6, 8}
  Payloads = {1, 2}
SPECIFICATION LastClientSpec
PROPERTY CursorRefinesSpec
\* insert's todo!() paths and move_next's assert! abort the program.
CHECK_DEADLOCK FALSE
