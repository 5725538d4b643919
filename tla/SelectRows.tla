----------------------------- MODULE SelectRows -----------------------------
(***************************************************************************)
(* A SELECT of src/lib.rs: SelectStatement::query and the Rows it returns  *)
(* (next_row, move_next), driving a table cursor T and, for an indexed     *)
(* filter, an index cursor I.  Both are instances of BtreeCursor, applied *)
(* through its call functions (TableMoveToR, MoveNextR, ...), so each      *)
(* client call of next_row is one step that runs the whole loop of cursor *)
(* calls it makes.                                                         *)
(*                                                                         *)
(* The statement is `SELECT * FROM t WHERE <filter>` on a table whose row *)
(* <<rowid, v>> has one column of value v, with or without an index on   *)
(* it; the filter is absent or an equality between two of the rowid, the  *)
(* column and an integer constant, in either order, which decides the    *)
(* plan (rowid lookup, index lookup or full scan).  The index holds       *)
(* records <<v, rowid>>.  A row is read from its record (Payload): from   *)
(* the cell's local bytes, or through load() from its overflow pages when *)
(* the file's usable size leaves the content off the page.  Expression    *)
(* evaluation is reduced to the equality of integers.                    *)
(***************************************************************************)
EXTENDS Integers, Sequences, SequencesExt, BtreeKeys, Payload

CONSTANTS
  Databases,  \* the files: [table, index |-> pages (root page 2), local, cap,
              \* broken], local and cap the payload bytes a page and an overflow
              \* page hold, broken a rowid whose overflow chain ends one page
              \* early (a corrupt file; 0 for none)
  Filters,    \* WHERE clauses: NoFilter or [l, r] (see below)
  Indexed,    \* whether the column has an index: a subset of BOOLEAN
  Keys        \* the constant of the WHERE clause

VARIABLES
  stmt,       \* the prepared SelectStatement [filter, indexed, key]
  usable,     \* [local, cap, broken] of the file
  tpages, tcur, tparents, tinit, tret, tpanicked,  \* the table cursor
  ipages, icur, iparents, iinit, iret, ipanicked,  \* the index cursor
  queried,    \* query() returned the Rows
  first,      \* Rows.is_first_row
  completed,  \* Rows.completed
  out,        \* what the last next_row returned: a row, None or Err
  returned,   \* the rows <<rowid, v>> returned so far
  repeated,   \* some rowid was returned twice
  ended,      \* next_row has returned Ok(None) at least once
  calls       \* the parity of the number of next_row calls

tvars == <<tpages, tcur, tparents, tinit, tret, tpanicked>>
ivars == <<ipages, icur, iparents, iinit, iret, ipanicked>>
vars == <<stmt, usable, tvars, ivars, queried, first, completed, out, returned, repeated, ended, calls>>

T == INSTANCE BtreeCursor WITH Kind <- "table", Root <- 2, pages <- tpages, cur <- tcur,
       parents <- tparents, initialized <- tinit, ret <- tret, panicked <- tpanicked,
       InitTrees <- {}, SeekKeys <- {}, InsertKeys <- {}, Payloads <- {}

I == INSTANCE BtreeCursor WITH Kind <- "index", Root <- 2, pages <- ipages, cur <- icur,
       parents <- iparents, initialized <- iinit, ret <- iret, panicked <- ipanicked,
       InitTrees <- {}, SeekKeys <- {}, InsertKeys <- {}, Payloads <- {}

\* A WHERE clause is NoFilter or an equality l = r of two of "rowid" (the
\* rowid column), "col" (the column) and "key" (an integer constant).
NoFilter == [l |-> "none", r |-> "none"]

\* prepare_select's index choice: the filter is column = constant and an
\* index of the table starts with that column.
IndexPlanned(s) == s.filter.l = "col" /\ s.filter.r = "key" /\ s.indexed

\* SelectStatement::new: the filter is rowid = integer or integer = rowid.
RowidPlanned(s) == {s.filter.l, s.filter.r} = {"rowid", "key"}

\* The plan prepare_select sets up: with_index for an index, otherwise new,
\* which takes the rowid lookup or else a full scan.
Plan(s) ==
  CASE IndexPlanned(s) -> "index"
    [] RowidPlanned(s) -> "rowid"
    [] OTHER           -> "scan"

\* The value of one side of the filter on the row <<rowid, v>>.
Side(s, x, row) == CASE x = "rowid" -> row[1] [] x = "col" -> row[2] [] OTHER -> s.key

\* The filter of next_row: a row is skipped unless the WHERE clause holds.
\* Fault variant: the filter is not applied.
RowMatchesAny(s, row) == TRUE

RowMatches(s, row) == s.filter = NoFilter \/ Side(s, s.filter.l, row) = Side(s, s.filter.r, row)

\* The state next_row and move_next work on: the two cursors as call
\* records of BtreeCursor, is_first_row and completed.
RowsState == [t |-> [cur |-> tcur, parents |-> tparents, init |-> tinit, ret |-> tret,
                     panic |-> tpanicked],
              i |-> [cur |-> icur, parents |-> iparents, init |-> iinit, ret |-> iret,
                     panic |-> ipanicked],
              first |-> first, completed |-> completed]

Aborted(r) == r.t.panic \/ r.i.panic

\* The index lookup of move_next: the record under the index cursor must
\* start with the key, and its rowid is sought in the table.
IndexLookup(r) ==
  LET ip == I!GetIndexPayloadR(r.i)
      r2 == [r EXCEPT !.i = ip]
  IN IF ip.ret = None \/ ip.ret[1] # stmt.key THEN [r |-> r2, res |-> "none"]
     ELSE [r |-> [r2 EXCEPT !.t = T!TableMoveToR(r.t, ip.ret[Len(ip.ret)])], res |-> "row"]

\* Fault variant of RowsMoveNext: the rowid plan does not stop after its
\* one row.
RowsMoveNextNoRowidStop(r) ==
  LET a == CASE r.first                -> [r EXCEPT !.first = FALSE]
             [] Plan(stmt) = "index"   -> [r EXCEPT !.i = I!MoveNextR(r.i)]
             [] OTHER                  -> [r EXCEPT !.t = T!MoveNextR(r.t)]
  IN CASE Aborted(a)             -> [r |-> a, res |-> "abort"]
       [] Plan(stmt) = "index"   -> IndexLookup(a)
       [] OTHER                  -> [r |-> a, res |-> "row"]

\* Fault variant of RowsMoveNext: the index plan does not advance the
\* index cursor.
RowsMoveNextNoAdvance(r) ==
  LET a == CASE r.first                -> [r EXCEPT !.first = FALSE]
             [] Plan(stmt) = "index"   -> r
             [] OTHER                  -> [r EXCEPT !.t = T!MoveNextR(r.t)]
  IN CASE ~r.first /\ Plan(stmt) = "rowid" -> [r |-> r, res |-> "none"]
       [] Aborted(a)             -> [r |-> a, res |-> "abort"]
       [] Plan(stmt) = "index"   -> IndexLookup(a)
       [] OTHER                  -> [r |-> a, res |-> "row"]

\* Rows::move_next: Ok(true) ("row") when a row is to be read from the table
\* cursor, Ok(false) ("none") when the rows are exhausted, "abort" when a
\* cursor call aborted the program.
RowsMoveNext(r) ==
  LET a == CASE r.first                -> [r EXCEPT !.first = FALSE]
             [] Plan(stmt) = "index"   -> [r EXCEPT !.i = I!MoveNextR(r.i)]
             [] OTHER                  -> [r EXCEPT !.t = T!MoveNextR(r.t)]
  IN CASE ~r.first /\ Plan(stmt) = "rowid" -> [r |-> r, res |-> "none"]
       [] Aborted(a)             -> [r |-> a, res |-> "abort"]
       [] Plan(stmt) = "index"   -> IndexLookup(a)
       [] OTHER                  -> [r |-> a, res |-> "row"]

\* A table cell <<rowid, v>> as next_row reads it: its record laid out
\* on the page and the overflow pages of the file (the last one missing
\* for the broken row), then its column.
RowRead(cell) ==
  LET pl == Layout(RecordBytes(cell[2]), usable.local, usable.cap)
      d  == ReadColumn(IF cell[1] = usable.broken THEN [pl EXCEPT !.chain = Front(@)] ELSE pl)
  IN IF d.res = "ok" THEN [d EXCEPT !.v = <<cell[1], @>>] ELSE d

\* Fault variant of NextRowLoop: a record that cannot be loaded ends the
\* rows (completed is set with the Err).
RECURSIVE NextRowLoopErrCompletes(_)
NextRowLoopErrCompletes(r) ==
  LET m == RowsMoveNext(r)
      p == T!TableReadR(m.r.t, "row")
      r2 == [m.r EXCEPT !.t = p]
      d == RowRead(p.ret)
  IN CASE m.res = "abort"   -> [r |-> m.r, out |-> None]
       [] m.res = "none"    -> [r |-> [m.r EXCEPT !.completed = TRUE], out |-> None]
       [] p.panic           -> [r |-> r2, out |-> None]
       [] p.ret = None      -> [r |-> r2, out |-> None]
       [] d.res = "panic"   -> [r |-> [r2 EXCEPT !.t.panic = TRUE], out |-> None]
       [] d.res = "err"     -> [r |-> [r2 EXCEPT !.completed = TRUE], out |-> Err]
       [] ~RowMatches(stmt, d.v) -> NextRowLoopErrCompletes(r2)
       [] OTHER             -> [r |-> r2, out |-> d.v]

\* The loop of next_row: move_next, read the row under the table cursor
\* and its record, skip it if the filter rejects it.  A record that
\* cannot be loaded returns Err (leaving completed unset); a record whose
\* header claims more than the payload fails the assert! and aborts.  A move_next returning false sets
\* completed; a table cursor with no row under it returns Ok(None) and
\* leaves completed unset.  The second get_table_payload after the loop
\* reads the same cell, as nothing moves the cursor in between.
RECURSIVE NextRowLoop(_)
NextRowLoop(r) ==
  LET m == RowsMoveNext(r)
      p == T!TableReadR(m.r.t, "row")
      r2 == [m.r EXCEPT !.t = p]
      d == RowRead(p.ret)
  IN CASE m.res = "abort"   -> [r |-> m.r, out |-> None]
       [] m.res = "none"    -> [r |-> [m.r EXCEPT !.completed = TRUE], out |-> None]
       [] p.panic           -> [r |-> r2, out |-> None]
       [] p.ret = None      -> [r |-> r2, out |-> None]
       [] d.res = "panic"   -> [r |-> [r2 EXCEPT !.t.panic = TRUE], out |-> None]
       [] d.res = "err"     -> [r |-> r2, out |-> Err]
       [] ~RowMatches(stmt, d.v) -> NextRowLoop(r2)
       [] OTHER             -> [r |-> r2, out |-> d.v]

-----------------------------------------------------------------------------
Init ==
  /\ \E db \in Databases : /\ tpages = db.table /\ ipages = db.index
                           /\ usable = [local |-> db.local, cap |-> db.cap, broken |-> db.broken]
  /\ stmt \in [filter : Filters, indexed : Indexed, key : Keys]
  /\ tcur = T!Frame(2) /\ tparents = <<>> /\ tinit = FALSE /\ tret = None /\ tpanicked = FALSE
  /\ icur = I!Frame(2) /\ iparents = <<>> /\ iinit = FALSE /\ iret = None /\ ipanicked = FALSE
  /\ queried = FALSE
  /\ first = TRUE
  /\ completed = FALSE
  /\ out = None
  /\ returned = {}
  /\ repeated = FALSE
  /\ ended = FALSE
  /\ calls = 0

IsRow(o) == o \notin {None, Err}

\* Sets the variables from a Rows state.
Store(r) ==
  /\ tcur' = r.t.cur /\ tparents' = r.t.parents /\ tinit' = r.t.init /\ tret' = r.t.ret
  /\ tpanicked' = r.t.panic
  /\ icur' = r.i.cur /\ iparents' = r.i.parents /\ iinit' = r.i.init /\ iret' = r.i.ret
  /\ ipanicked' = r.i.panic
  /\ first' = r.first
  /\ completed' = r.completed

\* SelectStatement::query: open the table cursor and position it by the
\* plan (table_move_to the rowid, index_move_to the key on a fresh index
\* cursor, or move_to_first); none of these calls fails on a well-formed
\* tree of the right kind.
Query ==
  /\ ~queried
  /\ LET r == RowsState
         q == CASE Plan(stmt) = "rowid" -> [r EXCEPT !.t = T!TableMoveToR(r.t, stmt.key)]
                [] Plan(stmt) = "index" -> [r EXCEPT !.i = I!IndexMoveToR(r.i, <<stmt.key>>)]
                [] OTHER                -> [r EXCEPT !.t = T!MoveToFirstR(r.t)]
     IN Store(q)
  /\ queried' = TRUE
  /\ UNCHANGED <<stmt, usable, tpages, ipages, out, returned, repeated, ended, calls>>

\* Rows::next_row, called by the client on a Rows that has not aborted.
NextRow ==
  /\ queried /\ ~tpanicked /\ ~ipanicked
  /\ IF completed
       THEN /\ out' = None
            /\ UNCHANGED <<tcur, tparents, tinit, tret, tpanicked, ivars, first, completed>>
       ELSE LET n == NextRowLoop(RowsState) IN
            /\ Store(n.r)
            /\ out' = n.out
  /\ returned' = IF IsRow(out') THEN returned \cup {out'} ELSE returned
  /\ repeated' = (repeated \/ (IsRow(out') /\ out'[1] \in {e[1] : e \in returned}))
  /\ ended' = (ended \/ (out' = None /\ ~tpanicked' /\ ~ipanicked'))
  /\ calls' = 1 - calls
  /\ UNCHANGED <<stmt, usable, tpages, ipages, queried>>

Next == Query \/ NextRow

Spec == Init /\ [][Next]_vars

-----------------------------------------------------------------------------
\* The table's rows <<rowid, v>> that satisfy the WHERE clause, as SQL
\* defines it: both sides of the equality have the same value.
Selects(e) ==
  LET val(x) == CASE x = "rowid" -> e[1] [] x = "col" -> e[2] [] OTHER -> stmt.key
  IN stmt.filter = NoFilter \/ val(stmt.filter.l) = val(stmt.filter.r)

Answer == {e \in Range(T!EntriesOf(tpages, 2)) : Selects(e)}

\* The row of a corrupt file whose record reaches past the page into the
\* missing overflow page.
Unreadable(e) == e[1] = usable.broken /\ Len(RecordBytes(e[2])) > usable.local

\* Once next_row has returned Ok(None), the rows it returned before are
\* exactly the readable rows the WHERE clause selects, each once and with
\* the column value stored in the table, whichever plan (rowid lookup,
\* index lookup, scan) prepare_select chose and whether the record was
\* read from the page or loaded from its overflow pages.  A client that
\* calls next_row again after the Err of a record load (lib.rs:680, which
\* leaves completed unset after the cursor has moved) loses only the
\* unreadable row: the rows after it still come, and none comes twice.
ResultIsQueryAnswer == ended => returned = {e \in Answer : ~Unreadable(e)} /\ ~repeated

\* The client can make a call: query, or next_row on a Rows that has not
\* aborted.  Every such call changes the state (calls flips), so this is
\* ENABLED <<Next>>_vars.
Callable == ~tpanicked /\ ~ipanicked

\* A client that keeps calling next_row eventually receives Ok(None):
\* every plan's loop (the scan skipping filtered rows across leaves, the
\* index walk and its table lookups, the single rowid lookup) ends.  The
\* client's weak fairness, WF_vars(Next), is the antecedent.
ReachesEnd == (<>[]Callable => []<><<Next>>_vars) => <>ended

\* After next_row has returned Ok(None), every later next_row returns
\* Ok(None) again and never aborts the program: the Rows of lib.rs stays
\* usable after it is exhausted.
NoneIsFinal == ended => out = None /\ ~tpanicked /\ ~ipanicked

=============================================================================
