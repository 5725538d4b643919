----------------------------- MODULE Connection -----------------------------
(***************************************************************************)
(* The Connection of src/lib.rs and the transactions its statements take: *)
(* the ref_count reader/writer exclusion (start_read, start_write, the     *)
(* Drop of ReadTransaction and WriteTransaction) and the write statements *)
(* InsertStatement::execute and DeleteStatement::execute, each one step,   *)
(* as the client of a connection is a single thread and a statement runs  *)
(* to completion inside its call.                                          *)
(*                                                                         *)
(* A table with one column and one index on it is abstracted to its rows  *)
(* <<rowid, v>> and its index records <<v, rowid>>.  The pager (not in     *)
(* src/, spec.md section 2) is two copies of them: `pager` is what the     *)
(* pages read now, dirty pages included, and `disk` what the file holds;  *)
(* commit() writes `pager` to `disk`, abort() discards the dirty pages.   *)
(* A pager call inside a statement may fail with an I/O error: FailPoints *)
(* names the cursor call that fails, if one does.                         *)
(***************************************************************************)
EXTENDS Integers, Sequences, SequencesExt, FiniteSets, BtreeKeys

CONSTANTS
  Handles,     \* the Rows a client may hold at once
  Values,      \* column values
  RowIdExprs,  \* rowid expressions of INSERT ... VALUES: integers, None (absent or
               \* NULL: an automatic rowid) or NotInteger
  NotInteger,  \* a rowid expression with no integer value under numeric affinity
  MaxRowid,    \* MAX_ROWID (i64::MAX), scaled down
  MaxRecords   \* the most records one INSERT carries

VARIABLES
  refCount,    \* Connection.ref_count
  open,        \* the handles whose Rows (holding a ReadTransaction) are alive
  pager,       \* [table, index] as read through the pager
  disk,        \* [table, index] as committed to the file
  result,      \* what the last call returned
  panicked,    \* a todo!() aborted the program
  schema,      \* Connection.schema is Some: the schema cache is loaded
  prepared     \* the kinds of the Statements the client has prepared

vars == <<refCount, open, pager, disk, result, panicked, schema, prepared>>

Kinds == {"select", "insert", "delete"}

\* The calls whose pager access may fail: table_insert / index_insert of
\* the i-th record, the clear of the table or of the index, and the
\* pager's commit (as <<call, record>> pairs, <<"none", 0>> when no call
\* fails).  The pager commits atomically (spec.md section 5): a failed
\* commit writes nothing to the file.
FailPoints == {<<"none", 0>>, <<"clear_table", 0>>, <<"clear_index", 0>>, <<"commit", 0>>}
                \cup ({"table_insert", "index_insert"} \X (1..MaxRecords))

Record == [rowid : RowIdExprs, v : Values]

Empty == [table |-> {}, index |-> {}]

RowIds(w) == {e[1] : e \in w.table}

Init ==
  /\ refCount = 0
  /\ open = {}
  /\ pager = Empty
  /\ disk = Empty
  /\ result = None
  /\ panicked = FALSE
  /\ schema = FALSE
  /\ prepared = {}

-----------------------------------------------------------------------------
\* Connection::start_read / start_write: the ref_count test and update.
CanRead(rc) == rc >= 0

CanWrite(rc) == rc = 0

\* Drop for ReadTransaction: ref_count -= 1.
ReadTxnDropLeak(rc) == rc

ReadTxnDrop(rc) == rc - 1

\* The end of a write statement: WriteTransaction::commit when the body
\* returned Ok, which sets do_commit only once pager.commit() succeeded,
\* then Drop for WriteTransaction, which aborts the pager unless committed
\* and sets ref_count to 0.  Returns [pager, disk, rc, res].
\* Fault variant: the drop does not abort the pager.
WriteTxnEndNoAbort(res, w, fail) ==
  IF res = "ok" /\ fail # <<"commit", 0>> THEN [pager |-> w, disk |-> w, rc |-> 0, res |-> "ok"]
  ELSE [pager |-> w, disk |-> disk, rc |-> 0, res |-> IF res = "ok" THEN "io" ELSE res]

WriteTxnEnd(res, w, fail) ==
  IF res = "ok" /\ fail # <<"commit", 0>> THEN [pager |-> w, disk |-> w, rc |-> 0, res |-> "ok"]
  ELSE [pager |-> disk, disk |-> disk, rc |-> 0, res |-> IF res = "ok" THEN "io" ELSE res]

\* The index record index_insert writes for a row: the column value and
\* the rowid the row was stored under.
\* Fault variant: the rowid expression of the record (None for an
\* automatic rowid) instead of the generated rowid.
IndexRecordOfExpr(rec, rowid) == <<rec.v, rec.rowid>>

IndexRecord(rec, rowid) == <<rec.v, rowid>>

\* The loop of InsertStatement::execute over its records, from record i,
\* on the pages w: evaluate the rowid expression (DataTypeMismatch when it
\* is no integer), choose the rowid (move_to_last and get_table_key when
\* the record has none), reject a rowid in use (table_move_to), then
\* table_insert and index_insert.  Returns the pages and "ok", "unique",
\* "datatype", "io" or "panic".
RECURSIVE InsertLoop(_, _, _, _)
InsertLoop(recs, i, w, fail) ==
  IF i > Len(recs) THEN [w |-> w, res |-> "ok"]
  ELSE
    LET rec   == recs[i]
        last  == IF w.table = {} THEN 0 ELSE Max(RowIds(w))
        rowid == IF rec.rowid # None THEN rec.rowid ELSE last + 1
        w1    == [w EXCEPT !.table = @ \cup {<<rowid, rec.v>>}]
    IN CASE rec.rowid = NotInteger              -> [w |-> w, res |-> "datatype"]
         [] rec.rowid = None /\ last = MaxRowid -> [w |-> w, res |-> "panic"]
         [] rowid \in RowIds(w)                -> [w |-> w, res |-> "unique"]
         [] fail = <<"table_insert", i>>       -> [w |-> w, res |-> "io"]
         [] fail = <<"index_insert", i>>       -> [w |-> w1, res |-> "io"]
         [] OTHER -> InsertLoop(recs, i + 1,
                       [w1 EXCEPT !.index = @ \cup {IndexRecord(rec, rowid)}], fail)

\* The body of DeleteStatement::execute: clear the table, then the index,
\* and fail when they deleted different numbers of entries.
DeleteBody(w, fail) ==
  LET w1 == [w EXCEPT !.table = {}]
  IN CASE fail = <<"clear_table", 0>>              -> [w |-> w, res |-> "io"]
       [] fail = <<"clear_index", 0>>              -> [w |-> w1, res |-> "io"]
       [] Cardinality(w.index) # Cardinality(w.table) -> [w |-> Empty, res |-> "mismatch"]
       [] OTHER                                     -> [w |-> Empty, res |-> "ok"]

-----------------------------------------------------------------------------
\* load_schema: Schema::generate over a SELECT of sqlite_schema, whose
\* Rows takes a ReadTransaction and drops it when the scan ends or fails;
\* ok is FALSE when a read of the scan fails with an I/O error.
LoadSchema(rc, fail) == [rc |-> ReadTxnDrop(rc + 1), ok |-> ~fail]

\* What prepare_select / prepare_insert / prepare_delete make of a
\* statement once the schema is loaded: an error when it names a table
\* or column the schema lacks or (INSERT) gives a number of values other
\* than its columns; todo!("filter") for a DELETE with a WHERE clause.
PrepareOutcome(kind, known, where) ==
  CASE ~known                   -> "error"
    [] kind = "delete" /\ where -> "panic"
    [] OTHER                    -> "ok"

\* Connection::prepare of a statement of the kind: the prepare_* first
\* load the schema cache when it is empty (a failed load leaves it
\* empty, for the next prepare to retry), then resolve the statement.
Prepare(kind, known, where, fail) ==
  /\ ~panicked
  /\ LET ls == IF schema THEN [rc |-> refCount, ok |-> TRUE] ELSE LoadSchema(refCount, fail)
     IN CASE ~schema /\ ~CanRead(refCount) -> /\ result' = Err
                                             /\ UNCHANGED <<refCount, schema, prepared, panicked>>
          [] ~ls.ok                         -> /\ refCount' = ls.rc
                                             /\ result' = "io"
                                             /\ UNCHANGED <<schema, prepared, panicked>>
          [] PrepareOutcome(kind, known, where) = "error" ->
                                                /\ refCount' = ls.rc
                                                /\ schema' = TRUE
                                                /\ result' = Err
                                                /\ UNCHANGED <<prepared, panicked>>
          [] PrepareOutcome(kind, known, where) = "panic" ->
                                                /\ panicked' = TRUE
                                             /\ refCount' = ls.rc
                                             /\ schema' = TRUE
                                             /\ UNCHANGED <<prepared, result>>
          [] OTHER                          -> /\ refCount' = ls.rc
                                             /\ schema' = TRUE
                                             /\ prepared' = prepared \cup {kind}
                                             /\ result' = Ok
                                             /\ UNCHANGED panicked
  /\ UNCHANGED <<open, pager, disk>>

\* Statement::query on an INSERT or DELETE and Statement::execute on a
\* SELECT fail without running anything.
Misuse(kind) ==
  /\ ~panicked /\ kind \in prepared
  /\ result' = IF kind = "select" THEN "unsupported" ELSE Err
  /\ UNCHANGED <<refCount, open, pager, disk, panicked, schema, prepared>>

\* SelectStatement::query: start_read, then the cursors are opened and
\* positioned; a Rows keeps the ReadTransaction until it is dropped.  When
\* a cursor call fails (fail), the ? returns and the ReadTransaction is
\* dropped on the way out.
Query(h, fail) ==
  /\ ~panicked /\ h \notin open /\ "select" \in prepared
  /\ CASE ~CanRead(refCount) -> /\ result' = Err
                                /\ UNCHANGED <<refCount, open>>
       [] fail               -> /\ refCount' = ReadTxnDrop(refCount + 1)
                                /\ result' = "io"
                                /\ UNCHANGED open
       [] OTHER              -> /\ refCount' = refCount + 1
                                /\ open' = open \cup {h}
                                /\ result' = Ok
  /\ UNCHANGED <<pager, disk, panicked, schema, prepared>>

\* The client drops a Rows, and with it its ReadTransaction.
DropRows(h) ==
  /\ ~panicked /\ h \in open
  /\ refCount' = ReadTxnDrop(refCount)
  /\ open' = open \ {h}
  /\ UNCHANGED <<pager, disk, result, panicked, schema, prepared>>

\* A write statement: start_write, its body, then commit or abort.
Write(body, fail) ==
  /\ ~panicked
  /\ UNCHANGED <<schema, prepared>>
  /\ IF ~CanWrite(refCount)
       THEN /\ result' = "busy"
            /\ UNCHANGED <<refCount, open, pager, disk, panicked>>
       ELSE IF body.res = "panic"
       THEN /\ panicked' = TRUE
            /\ refCount' = -1
            /\ UNCHANGED <<open, pager, disk, result>>
       ELSE LET e == WriteTxnEnd(body.res, body.w, fail) IN
            /\ pager' = e.pager
            /\ disk' = e.disk
            /\ refCount' = e.rc
            /\ result' = e.res
            /\ UNCHANGED <<open, panicked>>

\* InsertStatement::execute of INSERT INTO t VALUES <recs>.
ExecuteInsert(recs, fail) == "insert" \in prepared /\ Write(InsertLoop(recs, 1, pager, fail), fail)

\* DeleteStatement::execute of DELETE FROM t.
ExecuteDelete(fail) == "delete" \in prepared /\ Write(DeleteBody(pager, fail), fail)

Next ==
  \/ \E k \in Kinds, known, where, fail \in BOOLEAN : Prepare(k, known, where, fail)
  \/ \E k \in Kinds : Misuse(k)
  \/ \E h \in Handles : DropRows(h) \/ \E fail \in BOOLEAN : Query(h, fail)
  \/ \E n \in 1..MaxRecords, f \in FailPoints :
       \E recs \in [1..n -> Record] : ExecuteInsert(recs, f)
  \/ \E f \in FailPoints : ExecuteDelete(f)

Spec == Init /\ [][Next]_vars

-----------------------------------------------------------------------------
\* Between the client's calls, ref_count counts the Rows the client still
\* holds: every start_read is undone by a ReadTransaction drop, and a
\* write statement, which runs only when no Rows is open, leaves it at 0
\* whether it committed or failed.
RefCountMatchesOpenRows == ~panicked => refCount = Cardinality(open)

\* The index holds exactly one record <<v, rowid>> per row <<rowid, v>>,
\* in the pages read through the pager and in the committed file, after
\* any sequence of INSERT and DELETE statements, failed ones included.
IndexMatchesTable ==
  \A w \in {pager, disk} : w.index = {<<e[2], e[1]>> : e \in w.table}

\* A write statement that fails (rowid conflict, a rowid that is no
\* integer, I/O error in a cursor call or in the commit, count mismatch) changes neither the pages the connection reads nor the file:
\* WriteTransaction's drop aborts every change the statement made.
StatementAtomic ==
  [][result' \in {"unique", "datatype", "io", "mismatch"} => pager' = pager /\ disk' = disk]_vars

=============================================================================
