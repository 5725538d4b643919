CONSTANTS
  None = None
  Ok = Ok
  Err = Err
  Handles = {h1, h2}
  Values = {1, 2}
  RowIdExprs = {None, 1, 3, NotInteger}
  NotInteger = NotInteger
  MaxRowid = 3
  MaxRecords = 2
SPECIFICATION Spec
INVARIANT RefCountMatchesOpenRows
INVARIANT IndexMatchesTable
PROPERTY StatementAtomic
\* An automatic rowid after MAX_ROWID (lib.rs:889) and a DELETE with a
\* WHERE clause (lib.rs:406) reach todo!(), which aborts the program; no
\* call follows.
CHECK_DEADLOCK FALSE
