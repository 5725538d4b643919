---------------------------- MODULE BtreeCursor ----------------------------
(***************************************************************************)
(* BtreeCursor of src/cursor.rs over one table or index B-tree.           *)
(*                                                                         *)
(* The pager's copy of the tree is `pages`: page id -> page record with   *)
(* the fields the cursor decodes (leaf flag, cells in pointer-array order, *)
(* left children, right child, cell content area offset, and whether the  *)
(* page has freeblocks or fragmented bytes).  The cursor's own state is   *)
(* `cur` and `parents`, the CursorPage frames [page, idx, n] of the path  *)
(* from the root (n is the n_cells cached when the frame was created),    *)
(* and `initialized`.  `ret` is what the last call returned, `panicked`   *)
(* records that a call hit assert!/todo! and aborted the program.         *)
(*                                                                         *)
(* Every public method is one action: its descent and ascent loops are    *)
(* computed by the RECURSIVE operators below, since no other code runs    *)
(* while a call is in progress.                                           *)
(***************************************************************************)
EXTENDS Integers, Sequences, SequencesExt, BtreeKeys

CONSTANTS
  Kind,        \* "table" or "index": the page type of every page of the tree
  Root,        \* the root page id given to BtreeCursor::new
  InitTrees,   \* the trees the file may hold: page id -> page record
  SeekKeys,    \* keys passed to table_move_to / index_move_to
  InsertKeys,  \* rowids passed to insert
  Payloads     \* payloads passed to insert (a payload is its length)

VARIABLES pages, cur, parents, initialized, ret, panicked

vars == <<pages, cur, parents, initialized, ret, panicked>>

\* MemPage::header_offset: page 1 starts with the 100-byte file header.
HeaderOffset(p) == IF p = 1 THEN 100 ELSE 0

\* BtreePageHeader::header_size.
HeaderSize(p) == IF pages[p].leaf THEN 8 ELSE 12

\* CursorPage::new: a frame on page p with idx_cell 0 and n_cells cached.
Frame(p) == [page |-> p, idx |-> 0, n |-> Len(pages[p].cells)]

IsLeaf(f) == pages[f.page].leaf

\* The child a frame descends to at idx i: the left child of cell i, or
\* the right page id when i = n_cells.
ChildAt(f, i) == IF i = f.n THEN pages[f.page].right ELSE pages[f.page].child[i + 1]

CellCmp(k, cell) ==
  IF Kind = "table" THEN IntCmp(k, TableCellKey(cell)) ELSE CompareRecord(k, cell)

\* The binary search of table_move_to / index_move_to over [lo, hi): stops
\* on Equal, and `last` is the key of the last cell that was not smaller
\* than k (table_move_to's max_cell_key).
RECURSIVE Search(_, _, _, _, _)
Search(cells, k, lo, hi, last) ==
  IF lo >= hi THEN [idx |-> lo, eq |-> FALSE, last |-> last]
  ELSE LET mid == (lo + hi) \div 2
           c   == cells[mid + 1]
       IN CASE CellCmp(k, c) = Less    -> Search(cells, k, lo, mid, Some(TableCellKey(c)))
            [] CellCmp(k, c) = Equal   -> [idx |-> mid, eq |-> TRUE, last |-> Some(TableCellKey(c))]
            [] CellCmp(k, c) = Greater -> Search(cells, k, mid + 1, hi, last)

\* move_to_root on cursor state c: the first frame of the path, with the
\* idx_cell it had.
RootFrame(c) == IF c.parents = <<>> THEN c.cur ELSE c.parents[1]

\* The descent loop of table_move_to from frame f.
RECURSIVE TableSeek(_, _, _)
TableSeek(f, ps, k) ==
  LET r == Search(pages[f.page].cells, k, 0, f.n, None)
      g == [f EXCEPT !.idx = r.idx]
  IN IF IsLeaf(g) THEN [cur |-> g, parents |-> ps, key |-> r.last]
     ELSE TableSeek(Frame(ChildAt(g, r.idx)), Append(ps, g), k)

\* Fault variant of AscendPastEnd: returns to the parent without the
\* `continue` that skips a parent which is itself at n_cells.
AscendPastEndOnce(f, ps) ==
  IF ps = <<>> THEN [cur |-> [f EXCEPT !.idx = @ + 1], parents |-> ps]
  ELSE [cur |-> Last(ps), parents |-> Front(ps)]

\* Fault variant of AscendPastEnd: the parent is taken back fresh from
\* its page (idx_cell 0) instead of the CursorPage saved on the stack.
RECURSIVE AscendPastEndReload(_, _)
AscendPastEndReload(f, ps) ==
  IF ps = <<>> THEN [cur |-> [f EXCEPT !.idx = @ + 1], parents |-> ps]
  ELSE IF Last(ps).idx = Last(ps).n THEN AscendPastEndReload(Last(ps), Front(ps))
  ELSE [cur |-> Frame(Last(ps).page), parents |-> Front(ps)]

\* The back_to_parent loop run when a leaf is exhausted on an index tree:
\* pop while the parent is also at n_cells; with no parent left, mark the
\* top frame completed by one more increment.
RECURSIVE AscendPastEnd(_, _)
AscendPastEnd(f, ps) ==
  IF ps = <<>> THEN [cur |-> [f EXCEPT !.idx = @ + 1], parents |-> ps]
  ELSE IF Last(ps).idx = Last(ps).n THEN AscendPastEnd(Last(ps), Front(ps))
  ELSE [cur |-> Last(ps), parents |-> Front(ps)]

\* Fault variant of IndexSeek: leaves the cursor past the end of the leaf
\* instead of climbing to the parent cell that follows it.
RECURSIVE IndexSeekNoAscent(_, _, _)
IndexSeekNoAscent(f, ps, k) ==
  LET r == Search(pages[f.page].cells, k, 0, f.n, None)
      g == [f EXCEPT !.idx = r.idx]
  IN CASE r.eq       -> [cur |-> g, parents |-> ps]
       [] ~IsLeaf(g) -> IndexSeekNoAscent(Frame(ChildAt(g, r.idx)), Append(ps, g), k)
       [] IsLeaf(g)  -> [cur |-> g, parents |-> ps]

\* The descent loop of index_move_to from frame f.
RECURSIVE IndexSeek(_, _, _)
IndexSeek(f, ps, k) ==
  LET r == Search(pages[f.page].cells, k, 0, f.n, None)
      g == [f EXCEPT !.idx = r.idx]
  IN CASE r.eq                         -> [cur |-> g, parents |-> ps]
       [] ~IsLeaf(g)                   -> IndexSeek(Frame(ChildAt(g, r.idx)), Append(ps, g), k)
       [] IsLeaf(g) /\ g.idx = g.n     -> AscendPastEnd(g, ps)
       [] IsLeaf(g) /\ g.idx < g.n     -> [cur |-> g, parents |-> ps]

\* The loop of move_to_left_most following cell 0's left child.
RECURSIVE DescendLeftMost(_, _)
DescendLeftMost(f, ps) ==
  IF IsLeaf(f) THEN [cur |-> f, parents |-> ps]
  ELSE DescendLeftMost(Frame(pages[f.page].child[1]), Append(ps, f))

\* Fault variant of MoveToLeftMost: treats idx = n_cells (the right child)
\* as past the end.
MoveToLeftMostSkipsRight(f, ps) ==
  IF f.idx >= f.n THEN [ok |-> FALSE, cur |-> f, parents |-> ps]
  ELSE LET d == DescendLeftMost(Frame(ChildAt(f, f.idx)), Append(ps, f))
       IN [ok |-> TRUE, cur |-> d.cur, parents |-> d.parents]

\* move_to_left_most on interior frame f; ok is FALSE when idx > n_cells.
MoveToLeftMost(f, ps) ==
  IF f.idx > f.n THEN [ok |-> FALSE, cur |-> f, parents |-> ps]
  ELSE LET d == DescendLeftMost(Frame(ChildAt(f, f.idx)), Append(ps, f))
       IN [ok |-> TRUE, cur |-> d.cur, parents |-> d.parents]

\* Fault variant of TableAdvance: the loop breaks after the first parent
\* whose next child does not exist instead of climbing on.
TableAdvanceOnce(f, ps) ==
  IF ps = <<>> THEN [cur |-> [f EXCEPT !.idx = @ + 1], parents |-> ps]
  ELSE LET p == [Last(ps) EXCEPT !.idx = @ + 1]
           r == MoveToLeftMost(p, Front(ps))
       IN [cur |-> r.cur, parents |-> r.parents]

\* The loop of move_next on an exhausted table leaf f: back to the parent,
\* advance it, and descend to the left-most leaf of its next child; with
\* no parent left, increment the current frame once more.
RECURSIVE TableAdvance(_, _)
TableAdvance(f, ps) ==
  IF ps = <<>> THEN [cur |-> [f EXCEPT !.idx = @ + 1], parents |-> ps]
  ELSE LET p == [Last(ps) EXCEPT !.idx = @ + 1]
           r == MoveToLeftMost(p, Front(ps))
       IN IF r.ok THEN [cur |-> r.cur, parents |-> r.parents]
          ELSE TableAdvance(p, Front(ps))

\* The loop of move_to_last following right page ids down to a leaf.
RECURSIVE DescendRightMost(_, _)
DescendRightMost(f, ps) ==
  IF IsLeaf(f) THEN [cur |-> [f EXCEPT !.idx = f.n - 1], parents |-> ps]
  ELSE DescendRightMost(Frame(pages[f.page].right), Append(ps, f))

-----------------------------------------------------------------------------
(***************************************************************************)
(* The calls.  Each public method is a function from the cursor state c   *)
(* [cur, parents, init, ret, panic] before the call to the state after it, *)
(* so that the statement layer can chain the calls one of its methods     *)
(* makes; the actions below apply one call to the variables.  The pages  *)
(* are only read by these calls.                                          *)
(***************************************************************************)

\* The cursor state held in the variables.
Here == [cur |-> cur, parents |-> parents, init |-> initialized, ret |-> ret, panic |-> panicked]

\* BtreeCursor::new: the root page with idx_cell 0, not initialized.
Opened == [cur |-> Frame(Root), parents |-> <<>>, init |-> FALSE, ret |-> None, panic |-> FALSE]

\* A call that reached assert! or todo!: the program aborts, and nothing
\* observes the cursor afterwards.
PanicR(c) == [c EXCEPT !.panic = TRUE]

\* A call that returned r after moving the cursor to path p.
MovedR(c, p, r) == [c EXCEPT !.cur = p.cur, !.parents = p.parents, !.ret = r]

\* A call that failed with bail! after move_to_root.
FailAtRootR(c) == MovedR(c, [cur |-> RootFrame(c), parents |-> <<>>], Err)

\* A call that failed with bail! before touching the cursor.
RejectR(c) == [c EXCEPT !.ret = Err]

\* A positioning call that succeeded: initialized is set.
PositionedR(c, p, r) == [MovedR(c, p, r) EXCEPT !.init = TRUE]

TableMoveToR(c, k) ==
  IF Kind # "table" THEN FailAtRootR(c)
  ELSE LET r == TableSeek(RootFrame(c), <<>>, k) IN PositionedR(c, r, r.key)

IndexMoveToR(c, k) ==
  IF Kind # "index" THEN FailAtRootR(c)
  ELSE PositionedR(c, IndexSeek(RootFrame(c), <<>>, k), Ok)

MoveToFirstR(c) ==
  LET f == [RootFrame(c) EXCEPT !.idx = 0]
  IN PositionedR(c, IF IsLeaf(f) THEN [cur |-> f, parents |-> <<>>]
                    ELSE MoveToLeftMost(f, <<>>), Ok)

\* Fault variant of MoveToLastR: no special case for an empty root page.
MoveToLastNoEmptyCheck(c) == PositionedR(c, DescendRightMost(RootFrame(c), <<>>), Ok)

MoveToLastR(c) ==
  LET f == RootFrame(c)
  IN PositionedR(c, IF f.n = 0 THEN [cur |-> [f EXCEPT !.idx = 0], parents |-> <<>>]
                    ELSE DescendRightMost(f, <<>>), Ok)

\* move_next's test for a completed cursor.
Completed(c) == c.parents = <<>> /\ (c.cur.idx = c.cur.n + 1 \/ c.cur.n = 0)

\* move_next: after idx_cell += 1, a leaf still below n_cells is done; a
\* table leaf at n_cells climbs with the table loop and an index page with
\* the index loop; anything else fails one of the asserts.
MoveNextR(c) ==
  LET f == [c.cur EXCEPT !.idx = @ + 1]
  IN CASE ~c.init                                     -> RejectR(c)
       [] Completed(c)                                -> [c EXCEPT !.ret = Ok]
       [] IsLeaf(f) /\ f.idx < f.n                    -> MovedR(c, [cur |-> f, parents |-> c.parents], Ok)
       [] Kind = "table" /\ IsLeaf(f) /\ f.idx = f.n  -> MovedR(c, TableAdvance(f, c.parents), Ok)
       [] Kind = "index" /\ ~IsLeaf(f) /\ f.idx <= f.n -> MovedR(c, MoveToLeftMost(f, c.parents), Ok)
       [] Kind = "index" /\ IsLeaf(f) /\ f.idx = f.n  -> MovedR(c, AscendPastEnd(f, c.parents), Ok)
       [] OTHER                                       -> PanicR(c)

\* What get_table_key ("key": Some(rowid)) and get_table_payload ("row":
\* the rowid and the payload) return for a cell.
TableCellValue(field, cell) == IF field = "key" THEN Some(TableCellKey(cell)) ELSE cell

\* get_table_key / get_table_payload: the cell under the cursor, None past
\* the cells of the current page; assert!(is_leaf) fails when a failed call
\* left the cursor on an interior root below its n_cells.
TableReadR(c, field) ==
  CASE ~c.init \/ Kind # "table" -> RejectR(c)
    [] c.cur.idx >= c.cur.n      -> [c EXCEPT !.ret = None]
    [] ~IsLeaf(c.cur)            -> PanicR(c)
    [] OTHER -> [c EXCEPT !.ret = TableCellValue(field, pages[c.cur.page].cells[c.cur.idx + 1])]

GetIndexPayloadR(c) ==
  CASE ~c.init \/ Kind # "index" -> RejectR(c)
    [] c.cur.idx >= c.cur.n      -> [c EXCEPT !.ret = None]
    [] OTHER                     -> [c EXCEPT !.ret = pages[c.cur.page].cells[c.cur.idx + 1]]

-----------------------------------------------------------------------------
Init ==
  /\ pages \in InitTrees
  /\ cur = Frame(Root)
  /\ parents = <<>>
  /\ initialized = FALSE
  /\ ret = None
  /\ panicked = FALSE

\* One call on a cursor that has not aborted, leaving the pages alone.
Call(c) ==
  /\ ~panicked
  /\ cur' = c.cur
  /\ parents' = c.parents
  /\ initialized' = c.init
  /\ ret' = c.ret
  /\ panicked' = c.panic
  /\ UNCHANGED pages

TableMoveTo(k) == Call(TableMoveToR(Here, k))

IndexMoveTo(k) == Call(IndexMoveToR(Here, k))

MoveToFirst == Call(MoveToFirstR(Here))

MoveToLast == Call(MoveToLastR(Here))

MoveNext == Call(MoveNextR(Here))

GetTableKey == Call(TableReadR(Here, "key"))

GetTablePayload == Call(TableReadR(Here, "row"))

GetIndexPayload == Call(GetIndexPayloadR(Here))

\* Fault variant of HasRoom: forgets the 2-byte cell pointer.
HasRoomNoPointer(free, size) == free >= size

\* insert's test that the unallocated space holds the cell and its pointer.
HasRoom(free, size) == free >= size + 2

\* Fault variant of InsertSlot: always appends the pointer.
InsertSlotAppend(f, key) == f.n

\* Where insert puts the new cell pointer: at idx_cell when table_move_to
\* stopped on a larger key, appended to the array when it returned None.
InsertSlot(f, key) == IF key = None THEN f.n ELSE f.idx

\* Fault variant of GrownFrame: the cached n_cells is not bumped.
GrownFrameStale(f) == f

\* self.current_page.n_cells += 1 after the cell is added.
GrownFrame(f) == [f EXCEPT !.n = @ + 1]

\* insert(key, payload) on a table: table_move_to(key), then the cell
\* varint(len) . varint(zigzag(key)) . payload is allocated below the cell
\* content area of the leaf and its pointer put at idx_cell, or appended
\* when the key is past the last cell.  The asserts on offset hold because
\* free >= size + 2 and the content area starts at most at 65536.
Insert(k, p) ==
  LET r    == TableSeek(RootFrame(Here), <<>>, k)
      f    == r.cur
      pg   == pages[f.page]
      size == VarintLen(p) + VarintLen(I64ToU64(k)) + p
      free == pg.ccao - (HeaderOffset(f.page) + HeaderSize(f.page) + 2 * f.n)
      slot == InsertSlot(f, r.key)
  IN IF Kind # "table" THEN Call(FailAtRootR(Here))   \* table_move_to(key)?
     ELSE
       \* todo!("update the payload")
       \/ r.key = Some(k) /\ Call(PanicR(Here))
       \* assert_eq!(first_freeblock_offset, 0), assert_eq!(fragmented_free_bytes, 0)
       \/ r.key # Some(k) /\ pg.fragmented /\ Call(PanicR(Here))
       \* todo!("balance the btree")
       \/ r.key # Some(k) /\ ~pg.fragmented /\ ~HasRoom(free, size) /\ Call(PanicR(Here))
       \/ /\ r.key # Some(k) /\ ~pg.fragmented /\ HasRoom(free, size)
          /\ ~panicked
          /\ pages' = [pages EXCEPT ![f.page].cells = InsertAt(@, slot + 1, <<k, p>>),
                                    ![f.page].ccao = @ - size]
          /\ cur' = GrownFrame(f)
          /\ parents' = r.parents
          /\ initialized' = TRUE
          /\ ret' = Ok
          /\ UNCHANGED panicked

\* The calls a client can make on a cursor.
Next ==
  \/ MoveToFirst
  \/ MoveToLast
  \/ MoveNext
  \/ \E k \in SeekKeys : TableMoveTo(k) \/ IndexMoveTo(k)
  \/ GetTableKey \/ GetTablePayload \/ GetIndexPayload
  \/ \E k \in InsertKeys, p \in Payloads : Insert(k, p)

Spec == Init /\ [][Next]_vars

-----------------------------------------------------------------------------
(***************************************************************************)
(* Refinement of CursorSpec.  The entries of a subtree are taken in key   *)
(* order: a table tree yields its leaf cells, an index tree also yields   *)
(* each interior cell between its left child and the next child.  The     *)
(* cursor's position is read off the pages of its path (which child each  *)
(* frame actually descended to) and the idx_cell of the current frame.    *)
(***************************************************************************)
RECURSIVE EntriesOf(_, _)
EntriesOf(pgs, p) ==
  IF pgs[p].leaf THEN pgs[p].cells
  ELSE LET n    == Len(pgs[p].cells)
           kid  == [i \in 1..n + 1 |-> IF i = n + 1 THEN pgs[p].right ELSE pgs[p].child[i]]
           cell == [i \in 1..n + 1 |->
                      IF Kind = "index" /\ i <= n THEN <<pgs[p].cells[i]>> ELSE <<>>]
       IN FlattenSeq([i \in 1..n + 1 |-> EntriesOf(pgs, kid[i]) \o cell[i]])

Size(p) == Len(EntriesOf(pages, p))

\* Entries of the frame's page before its child j.
EntriesBeforeChild(f, j) ==
  SumFunction([m \in 0..j - 1 |-> Size(ChildAt(f, m))]) + (IF Kind = "index" THEN j ELSE 0)

\* Entries of the current frame's page before the cursor.
EntriesBeforeCursor(f) ==
  CASE IsLeaf(f)      -> f.idx
    [] f.idx > f.n    -> Size(f.page)
    [] OTHER          -> EntriesBeforeChild(f, f.idx) + Size(ChildAt(f, f.idx))

ChildIndex(f, q) == CHOOSE j \in 0..f.n : ChildAt(f, j) = q

CursorPosition ==
  LET path == Append(parents, cur)
      raw  == SumFunction([i \in 1..Len(parents) |->
                             EntriesBeforeChild(path[i], ChildIndex(path[i], path[i + 1].page))])
              + EntriesBeforeCursor(cur)
  IN IF raw < Size(Root) THEN raw ELSE Size(Root)

Abs == INSTANCE CursorSpec
         WITH entries <- EntriesOf(pages, Root),
              pos <- IF initialized THEN CursorPosition ELSE 0,
              InitEntries <- {EntriesOf(t, Root) : t \in InitTrees}

\* The cursor behaves as CursorSpec says: every call of BtreeCursor moves
\* over the tree's entries in key order and returns what the abstract
\* cursor returns (move_next, table_move_to, index_move_to, the readers
\* and insert of src/cursor.rs).
CursorRefinesSpec == Abs!Spec

-----------------------------------------------------------------------------
TypeOK ==
  /\ \A p \in DOMAIN pages : pages[p].ccao \in Nat /\ pages[p].cells \in Seq(Seq(Int))
  /\ cur \in [page : DOMAIN pages, idx : Nat, n : Nat]
  /\ \A i \in 1..Len(parents) : parents[i] \in [page : DOMAIN pages, idx : Nat, n : Nat]
  /\ initialized \in BOOLEAN
  /\ panicked \in BOOLEAN

\* The cell pointer array and the cell content area of a leaf never
\* overlap (spec.md section 3, invariant 4): insert checks the free space
\* before allocating a cell and its 2-byte pointer.
CellAreaDisjoint ==
  \A p \in DOMAIN pages :
    pages[p].leaf => pages[p].ccao >= HeaderOffset(p) + HeaderSize(p) + 2 * Len(pages[p].cells)

\* On an index tree the cursor rests on a cell of its current page unless
\* it is completed: index_move_to and move_next leave an exhausted leaf
\* through the back_to_parent loop, which skips parents that are also
\* exhausted, so get_index_payload returns None only at the end of the tree.
IndexRestsOnCell ==
  (Kind = "index" /\ initialized /\ ~Completed(Here)) => cur.idx < cur.n

\* No call of the cursor reaches an assert! or todo!.
NeverPanics == ~panicked

\* The calls that leave the position to move_next: move_next itself and
\* the readers.
ForwardCalls == MoveNext \/ GetTableKey \/ GetTablePayload \/ GetIndexPayload

\* A cursor that is initialized and, from some point on, is only moved by
\* move_next (weakly fair: a client iterating rows keeps calling it)
\* reaches the completed state and stays there: the climb of move_next
\* through back_to_parent, with the index loop's continue past parents
\* at n_cells and the final idx_cell += 1 at the root (cursor.rs:364-385),
\* ends on every tree.
ScanEnds == (<>[]initialized /\ <>[][ForwardCalls]_vars) => <>[]Completed(Here)

=============================================================================
