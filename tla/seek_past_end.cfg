CONSTANTS
  None = None
  Ok = Ok
  Err = Err
  Kind = "table"
  Root = 2
  InitTrees <- OneLeafTables
  SeekKeys = {0, 2, 4}
  InsertKeys = {}
  Payloads = {}
SPECIFICATION SeekThenNextSpec
INVARIANT NeverPanics
