CONSTANTS
  None = None
  Ok = Ok
  Err = Err
  Kind = "table"
  Root = 2
  InitTrees <- StaleDividerTables
  SeekKeys = {3}
  InsertKeys = {}
  Payloads = {}
SPECIFICATION TableClientSpec
PROPERTY CursorRefinesSpec
