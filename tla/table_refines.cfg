CONSTANTS
  None = None
  Ok = Ok
  Err = Err
  Kind = "table"
  Root = 2
  InitTrees <- TableClientTrees
  SeekKeys <- TableSeekKeys
  InsertKeys = {0, 3, 5, 6, 8}
  Payloads = {1, 2}
SPECIFICATION TableClientSpec
PROPERTY CursorRefinesSpec
INVARIANT CellAreaDisjoint
\* insert's todo!() paths and move_next's assert! abort the program.
CHECK_DEADLOCK FALSE
