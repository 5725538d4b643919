CONSTANTS
  None = None
  Ok = Ok
  Err = Err
  Kind = "index"
  Root = 2
  InitTrees <- TwoLevelIndexes
  SeekKeys <- IndexSeekKeysSmall
  InsertKeys = {}
  Payloads = {}
SPECIFICATION WrongKindSpec
PROPERTY CursorRefinesSpec
