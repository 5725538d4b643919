CONSTANTS
  None = None
  Ok = Ok
  Err = Err
  Kind = "index"
  Root = 2
  InitTrees <- IndexTrees
  SeekKeys <- IndexThreeSeekKeys
  InsertKeys = {}
  Payloads = {}
SPECIFICATION FairIndexClientSpec
PROPERTY CursorRefinesSpec
PROPERTY ScanEnds
INVARIANT IndexRestsOnCell
