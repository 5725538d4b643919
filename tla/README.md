# TLA+ models of prsqlite

These modules model the B-tree cursor of prsqlite (`src/src/cursor.rs`) and its overflow-payload reader, the SELECT path of the statement layer (`src/src/lib.rs`), which drives two cursors and reads each row's record, and the connection's transactions with INSERT and DELETE. Every action is translated from the Rust source. Code that is not under `src/` is modelled from `spec.md` and marked `spec_modelled` in `PROJECT.json`. That code is the pager, the page and record formats, and the varint helpers.

## 1. Inventory of the system

| Part | Source | State | Operations | Status |
|---|---|---|---|---|
| Pager | `pager.rs` (not in src/) | the page cache, dirty pages, the file | `get_page`, `make_page_mut`, `commit`, `abort` | its commit/abort contract only, in `Connection` (from `spec.md`) |
| Page layout, record, varint | `btree.rs`, `record.rs`, `utils.rs` (not in src/) | none (pure) | cell key parsers, `compare_record`, `put_varint`, `i64_to_u64` | the parts the cursor uses are in `BtreeKeys` |
| B-tree cursor | `cursor.rs:111-618` | `current_page` and the `parent_pages` stack of `CursorPage {idx_cell, n_cells, is_leaf}`, `initialized`, the pages it writes | `new`, `table_move_to`, `index_move_to`, `move_to_first`, `move_to_last`, `move_next`, `insert`, `get_table_key`, `get_table_payload`, `get_index_payload` | modelled: `BtreeCursor` |
| Cursor contract | `spec.md` 4.4, 7, 8 | a position over the entries in key order | the same calls | modelled: `CursorSpec` |
| Payload / overflow | `cursor.rs:39-108` | none (reads a page chain) | `BtreePayload::load` | modelled: `Payload`, composed into `SelectRows` |
| Connection, transactions | `lib.rs:134-487` | `ref_count` (>0 readers, -1 writer), the pager's dirty pages | `start_read`, `start_write`, `ReadTransaction::drop`, `WriteTransaction::commit` / `drop` | modelled: `Connection` |
| Statements | `lib.rs:489-972` | `Rows {is_first_row, completed}`, the table and index cursors | `SelectStatement::query`, `Rows::next_row` / `move_next`, `InsertStatement::execute`, `DeleteStatement::execute` | SELECT modelled: `SelectRows`; INSERT and DELETE: `Connection` |
| Parser, expressions, schema | `lib.rs:180-420`, `495-527`, other files | the cached schema | `prepare`, `load_schema`, parsing, planning, evaluation | partly: the schema cache, the `prepare` and `Statement` dispatch and `prepare_delete`'s `todo!` are in `Connection`; the plan choice is in `SelectRows`; parsing and evaluation are not modelled (pure data transformation) |

**How the parts interact.** A statement first takes a transaction from the connection. Then it opens one cursor per tree it touches. Each cursor reads pages through the pager.
- A `Rows` object keeps its read transaction and its cursors alive across calls of the client. Other statements can be prepared and executed while it is open.
- `InsertStatement::execute` works only through the table cursor and a fresh index cursor per index: `move_to_last`, `get_table_key`, `table_move_to`, then `table_insert` / `index_insert`.
- Every error returns early. Dropping the `WriteTransaction` then aborts the pager.

**Hard behaviours.**
- **Stateful iteration.** The cursor is a path of frames whose `idx_cell` values outlive the calls that set them. `move_to_root` reuses the old root frame.
- **Sentinel encoding.** Completion is encoded as `idx_cell == n_cells + 1` on the root, and several loops increment `idx_cell`.
- **Cached counts.** Frames cache `n_cells`, and `insert` grows a page under the cursor.
- **Layout boundaries.** The free-space boundary between the cell pointer array and the cell content area.
- **Asserts and `todo!`.** Calls that are legal per the spec can reach them.
- In `lib.rs`:
  - the `ref_count` protocol across open `Rows`;
  - aborting a multi-row insert;
  - automatic rowids at `MAX_ROWID`;
  - the index/table count check of DELETE.

## 2. Modules

- **`BtreeKeys`** holds the comparators and cell-size arithmetic: `IntCmp`, `CompareRecord` (prefix comparison of a search key against a record), `TableCellKey`, `I64ToU64` (zigzag) and `VarintLen`.
- **`BtreeCursor`** is the cursor over one tree, using the variables below.
  - `pages` maps a page id to `[leaf, cells, child, right, ccao, fragmented]`. Cells are tuples: `<<rowid, payload_len>>` on table leaves, `<<rowid>>` on table interior pages, and a record `<<value, rowid>>` in index trees.
  - `cur` and `parents` are the frames `[page, idx, n]`. These are `current_page` and `parent_pages`, with `n` being the cached `n_cells`.
  - `initialized` is the cursor's own field.
  - `ret` is what the last call returned: `None`, `Ok`, `Err`, `<<rowid>>` for `Some(rowid)`, a row or a record.
  - `panicked` records that an `assert!` or `todo!` aborted the program.

  Each public method is a function from a call record `c = [cur, parents, init, ret, panic]` to the record after the call, for example `TableMoveToR`, `MoveNextR` and `TableReadR`. The action `Call(c)` applies it, so `MoveNext == Call(MoveNextR(Here))`. The same functions are reused by `SelectRows`, which runs several cursor calls inside one statement step. The descent and ascent loops are RECURSIVE operators, for example `TableSeek`, `IndexSeek`, `AscendPastEnd`, `TableAdvance`, `DescendLeftMost` and `DescendRightMost`. The cursor is single-threaded and no code runs inside a call, so one call is one step. Each early return is a branch:
  - `bail!` before any change is `RejectR`;
  - `bail!` after `move_to_root` is `FailAtRootR`;
  - `assert!` and `todo!` are `PanicR`.

  `insert` keeps the control and the arithmetic of `cursor.rs:392-481`. Those are the duplicate-key `todo!`, the freeblock asserts, the `free_size < cell_size + 2` test, the content-area offset, `n_cells += 1`, and the pointer slot. The byte copies are abstracted to inserting the cell tuple at the pointer slot.

  `ScanEnds` is the cursor's liveness property. `MCBtreeCursor` states the fairness as `FairIndexClientSpec == IndexClientSpec /\ WF_vars(MoveNext)`.
- **`CursorSpec`** is the abstract cursor: a sequence `entries` in key order and a position `pos`. `BtreeCursor` maps onto it through `Abs == INSTANCE CursorSpec WITH ...`.
  - `entries` is the in-order traversal of the page tree. Index trees include their interior cells.
  - `pos` counts the entries before the cursor. It is computed from the children the path really descends to plus `idx_cell` on the current page.
  - `CursorRefinesSpec == Abs!Spec` is checked as a PROPERTY.
- **`SelectRows`** is a SELECT of `lib.rs`, covering `SelectStatement::query` (`Query`) and `Rows::next_row` (`NextRow`). It composes two instances of the cursor, `T == INSTANCE BtreeCursor WITH Kind <- "table", pages <- tpages, ...` and `I` for the index, with variables of their own.
  - The statement is `SELECT * FROM t WHERE <filter>` on a one-column table, with or without an index on `col`. The filter is absent or an equality between two of `rowid`, `col` and an integer constant, in either order.
  - `Plan` is the choice `prepare_select` makes. `IndexPlanned` is its index test (`col = constant` on an indexed column). `RowidPlanned` is the rowid test of `SelectStatement::new` (`rowid = integer` either way round). Anything else is a full scan. For example, `5 = col` takes the scan plan even when `col` is indexed.
  - A row is read through its record. `RowRead` lays the record out over the page and the file's overflow pages (`Payload`), and `ReadColumn` takes the content from the page or loads it (`next_row` lines 666-684, `get_column_value`). The returned row carries the decoded value.
  - `RowsMoveNext` and `IndexLookup` are `Rows::move_next`. `NextRowLoop` is the loop of `next_row`, which skips rows the filter rejects, as a RECURSIVE operator over the cursor functions. A whole `next_row` is one step.
  - `usable` is the file's `[local, cap, broken]`: the payload bytes a page keeps, the bytes an overflow page holds, and the rowid whose overflow chain ends one page early in a corrupt file (0 for none).
  - `first`, `completed`, `out` (what `next_row` returned), `returned` (the set of rows returned so far), `repeated` (a rowid was returned twice), `ended` (an `Ok(None)` was returned) and `calls` (the parity of the number of `next_row` calls) are observation variables. `calls` makes every client call a change of state. This lets the client's weak fairness be written without `ENABLED`.
  - Expression evaluation is abstracted to comparing integers. None of the cursor calls of this path can fail with `bail!` (the cursors are initialised and of the right kind), so only their aborts are modelled. A record that cannot be loaded makes `next_row` return `Err`. This happens with a missing overflow page, which the corrupt files have for the `broken` row. The client may call `next_row` again after an `Err`.
- **`Payload`** is `BtreePayload::load` and the read of a row's record.
  - A payload handle is `[size, local, chain]`: the logical size, the local prefix, and each overflow page's bytes in chain order.
  - `Load` is `load(offset, buf)`: its offset checks and the copy from the local prefix. `LoadChain` is its `while` loop over the chain, a RECURSIVE operator that carries `cur`, `offset`, the room left in `buf` and the bytes copied. It fails on a missing page after the bytes already copied.
  - `Layout` is `PayloadInfo` (btree.rs, from the spec): at most `localMax` bytes on the page, then pages of `cap` bytes.
  - `RecordBytes` and `ParseValue` are the one-column record (record.rs, from the spec). The serial types are 8/9 for 0/1 (no content bytes) and 1 or 2 for one or two big-endian two's complement bytes.
  - `ReadColumn` is `next_row`'s `use_local_buffer` decision and the `load` into `tmp_buf` with its "not enough size" check.
- **`Connection`** holds the connection's `ref_count`, the schema cache (`schema`, loaded or not), the kinds of statement the client has `prepared`, the set `open` of `Rows` the client still holds, and the pager as two copies of an abstract table and index: `pager` (what the pages read now, dirty pages included) and `disk` (the file).
  - `Prepare(kind, known, where, fail)` is `Connection::prepare`. On the first use it loads the schema (`LoadSchema`, a SELECT of `sqlite_schema` that takes and drops a read transaction and may fail, leaving the cache empty). It then resolves the statement (`PrepareOutcome`). A table or column the schema lacks, or an INSERT whose value count differs from its column count, is an error (`known` is FALSE). `prepare_delete` reaches `todo!("filter")` for a WHERE clause. `Misuse(kind)` is `Statement::query` on an INSERT or DELETE and `Statement::execute` on a SELECT, which fail without effect. `Query`, `ExecuteInsert` and `ExecuteDelete` need a prepared statement of their kind.
  - Actions: `Query(h, fail)` (start_read, then the cursor calls of `query`, which may fail with an I/O error, dropping the `ReadTransaction`), `DropRows(h)` (the `ReadTransaction` drop), `ExecuteInsert(recs, fail)` and `ExecuteDelete(fail)`. Each statement is one step, because the client is one thread and `execute` runs to its end.
  - `Write` is the shared frame of both statements: `start_write`, the body, then `WriteTxnEnd`. That is the commit on success, which may itself fail in `pager.commit()`, then the `Drop` that aborts the pager unless committed and sets `ref_count` to 0. The pager's commit is atomic, as the spec says.
  - `InsertLoop` is the record loop of `InsertStatement::execute`. It evaluates the rowid expression (`DataTypeMismatch` when it has no integer value, the model value `NotInteger`), chooses the automatic rowid (last + 1, with the `todo!()` at `MAX_ROWID`), rejects a rowid in use, then runs `table_insert` and `index_insert`. `DeleteBody` clears the table, then the index, and compares their counts.
  - `table_insert`, `index_insert` and `clear` are not in `cursor.rs`, so they are abstracted to adding or removing a row and its index record. An I/O error of the pager inside any of them is the nondeterministic `fail` point.
- **`BtreePages`** holds the builders of page records (`Leaf`, `IndexLeaf`, `Interior`) used by both MC modules.
- **`MCBtreeCursor`** holds the cursor's model instances. These are the trees (empty, one leaf, two and three levels, a fragmented leaf, a stale divider, and six index shapes up to three levels with duplicates), the key sets, and the client call mixes of the statement layer. It also holds the state constraint `IdxBounded`.
- **`MCIndexCalls`** extends `MCBtreeCursor` with the history variable `misused` for `index_all_calls`: it is set by a call of the table kind on the index cursor and never reset.
- **`MCSelectRows`** holds a table of five rows on three leaves, where one value occurs three times and one (300) needs two content bytes, its index on two leaves, and a one-leaf table with a negative value, with its index. Each is opened as a file that keeps 3 payload bytes on a page and as one that keeps 2, with one-byte overflow pages. The big table is also opened as a corrupt file, where the overflow chain of row 2 or of row 5 is one page short.

Trees are scaled down: a leaf has 24 usable bytes, so two or three inserts fill it and the `balance` path is reached. The header sizes (8 bytes for a leaf, 12 for an interior page) and the 2-byte pointers are real.

## 3. Runs

| Run | Expect | Properties | What it shows |
|---|---|---|---|
| `table_refines` | pass | `CursorRefinesSpec`, `CellAreaDisjoint` | Scans, seeks, reads and inserts on the empty, one-leaf, two-level, three-level and fragmented tables follow CursorSpec. The three-level scan climbs two levels at once. Reads after an insert must see the new cell count that `insert` caches in its frame (`cursor.rs:453`). Inserts never overlap the pointer array with the content area. |
| `index_refines` | pass | `CursorRefinesSpec`, `ScanEnds`, `IndexRestsOnCell` | Index seeks and scans follow CursorSpec and rest on a cell until the end. Under weak fairness of `move_next`, a cursor that is only moved forward from some point on reaches the completed state on every index tree, up to three levels, and stays there. |
| `index_all_calls` | pass | `TypeOK`, `PanicsOnlyAfterMisuse` | Every call in any order on index trees of up to three levels, in `MCIndexCalls`, whose history variable `misused` records a call of the table kind (`table_move_to`, `insert`). An index cursor aborts in `move_next` (`cursor.rs:367`, `369-372`) only after such a call has moved it to the root (`wrong_kind`); `index_move_to`, `move_to_first`, `move_to_last` and `move_next` never leave it where those asserts fail. `idx_cell` never underflows. |
| `select_answers` | pass | `ResultIsQueryAnswer`, `ReachesEnd` | Under every filter shape and plan, with unique or absent keys, the rows `next_row` returns before `Ok(None)` are exactly the selected rows, each once and with the stored value. This holds whether the record is read from the page, straddles the page and an overflow page, or lies on two overflow pages. When one row's chain is cut, a client that calls again after the `Err` loses only that row. A client that keeps calling reaches `Ok(None)`. |
| `select_none_final` | pass | `NoneIsFinal` | With a rowid or index lookup, `next_row` keeps returning `Ok(None)` after it first has. |
| `connection_txn` | pass | `RefCountMatchesOpenRows`, `IndexMatchesTable`, `StatementAtomic` | Prepares that load the schema cache (and may fail doing so), queries (which may fail after `start_read`), dropped `Rows`, and INSERT and DELETE statements, with rowid conflicts and I/O errors at any cursor call or in the commit, keep `ref_count` equal to the open `Rows`. They keep the index equal to the table, and a failing statement changes neither the pages nor the file. |
| `seek_past_end` | violation | `NeverPanics` | `table_move_to` past the last key, then `move_next`, aborts (`cursor.rs:352`). |
| `last_then_next` | violation | `CursorRefinesSpec` | `move_next` after `move_to_last` revisits rows (stale root `idx_cell`). |
| `stale_divider_seek` | violation | `CursorRefinesSpec` | `table_move_to` returns `None` although larger rowids exist. |
| `wrong_kind` | violation | `CursorRefinesSpec` | A wrong-kind call fails but moves the cursor. |
| `select_rescan_after_end` | violation | `NoneIsFinal` | After a full scan of a two-level table, `next_row` returns `Ok(None)` without setting `completed` (`lib.rs:662`). The cursor sits on the root with `idx_cell` = `n_cells` + 2 (the second increment at `cursor.rs:356`), which the completion test does not accept, so the next call's `move_next` fails `assert!(is_leaf)` at `cursor.rs:351`. |
| `select_index_duplicates` | violation | `ResultIsQueryAnswer` | `SELECT * WHERE col = 2` through the index returns rowids 2 and 4 but not 1: `index_move_to` stops on the root record `<<2, 2>>`, and the equal record `<<2, 1>>` before it is never visited (`lib.rs:613`). |

The findings behind the violations are listed in `PROJECT.json`. Every property of a passing run has a mutant in `PROJECT.json`: a fault variant defined next to the definition it replaces, which TLC must catch.

**Bounds.**
- Trees have at most three levels and nine entries. That is enough for every branch of the loops:
  - ascending over one and over two exhausted parents;
  - an exact match on an interior page;
  - a miss at the end of a leaf;
  - the right child;
  - an empty root.
- Insert keys and payload sizes are chosen so that every outcome of `insert` occurs: append, insertion between cells, a duplicate key, a fragmented leaf, and a full leaf.
- The SELECT table has three leaves, so a scan crosses two leaf boundaries, and value 2 is on both index leaves and in the root cell. `select_answers` uses keys that are unique or absent, so it separates the duplicate bug (`select_index_duplicates`) from the rest. Seek keys include one below, between and above the rows.
- The SELECT files keep 2 or 3 payload bytes on the page, and records are 2 to 4 bytes. So `next_row` meets a record held locally, content of 0 bytes (values 0 and 1), content split between the page and the chain, and content over two chain pages. These are the boundaries of `use_local_buffer` and of `load`'s two copies.
- `connection_txn` uses two `Rows` handles, so a write is tried both with readers open and after they are dropped. It uses INSERTs of one or two records, with explicit rowids 1 and 3, a non-integer rowid, or automatic ones, and `MAX_ROWID` scaled to 3. So the following all occur: a conflict or a datatype mismatch on the second record after the first was written, a failure between `table_insert` and `index_insert`, and the `todo!()`.
- `idx_cell` is bounded by `MaxIdx = 6` (a state constraint). The real counter is a `u16` that repeated `move_to_last` / `move_next` rounds push up without limit.

**Fairness.** The cursor is driven by its caller, which may stop at any time, so most cursor runs and the connection run check only safety. `ScanEnds` (`index_refines`) assumes weak fairness of `move_next` only. That is the client that iterates: `Rows::move_next` calls it once for every `next_row`. The property's antecedent also requires that, from some point on, the client makes only forward calls on an initialized cursor. `ReachesEnd` assumes a client that keeps calling `query`/`next_row` while the Rows has not aborted, i.e. WF_vars(Next). It is stated as the antecedent `<>[]Callable => []<><<Next>>_vars`, where `Callable` is exactly `ENABLED <<Next>>_vars` (every call flips `calls`). TLC cannot evaluate `ENABLED` of the recursive `next_row` loop in reasonable time. Runs that can reach a panic say `CHECK_DEADLOCK FALSE`, because after an abort no call is made. `select_none_final` checks deadlock: `next_row` stays callable forever once the rows are exhausted.

## 4. What remains open

- **The cursor side of INSERT.** `Connection`'s `InsertLoop` could be composed with a table cursor instance, so that the automatic rowid would come from `move_to_last` / `get_table_key` on real trees. `lib.rs` calls `table_insert`, `index_insert` and `clear`, which this `cursor.rs` does not define, so the composition cannot be translated from the source.
- **Two hazards have no property.**
  - `cursor.rs:359`: the `u16` wrap of `idx_cell` takes 65536 calls, so the models bound `idx_cell` by `MaxIdx` instead.
  - `lib.rs:888`: the `todo!()` for an automatic rowid after `MAX_ROWID` is an unimplemented path. `connection_txn` reaches it and stops.

## 5. Not modelled

- The parser, expression evaluation and the contents of the schema. These are pure data transformations. Only the schema cache's loaded/empty state is modelled.
- File I/O.
- `prepare_select`'s `todo!("ResultColumn::AllOfTable")` (`lib.rs:234`) for a `t.*` result column. Result columns are data the model does not carry, so `PrepareOutcome` has no input that selects this path.
- `BtreePayload::buf` and `size` (plain accessors, part of `Layout`).
- The byte layout of cells, beyond their sizes.
- The bytes of `table_insert`, `index_insert` and `clear`, which `lib.rs` calls but `cursor.rs` does not define. `Connection` keeps only their effect on the rows.
- Multi-process locking. The `ref_count` guards a single connection, and the code marks cross-process locking as a TODO.
