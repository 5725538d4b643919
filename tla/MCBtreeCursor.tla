--------------------------- MODULE MCBtreeCursor ---------------------------
(***************************************************************************)
(* Model-checking instances of BtreeCursor: small trees of the shapes      *)
(* SQLite writes (a root interior page over three leaves, a single leaf,   *)
(* and an index whose interior cells hold records), and the sets of calls *)
(* the statement layer of src/lib.rs makes on a table or an index cursor. *)
(* The pages are built with BtreePages.                                    *)
(***************************************************************************)
EXTENDS BtreeCursor, BtreePages

\* A table of rowids 1 2 | 4 5 | 7 under root page 2; each divider is the
\* largest rowid of its left child, as SQLite writes it when splitting.
TableTwoLevel ==
  2 :> Interior(<<<<2>>, <<5>>>>, <<3, 4>>, 5)
  @@ 3 :> Leaf(<<<<1, 1>>, <<2, 1>>>>, FALSE)
  @@ 4 :> Leaf(<<<<4, 1>>, <<5, 1>>>>, FALSE)
  @@ 5 :> Leaf(<<<<7, 1>>>>, FALSE)

\* A table of rowids 1 2 | 3 4 | 5 6 | 8 three levels deep: exhausting
\* leaf 6 climbs to page 3, whose next child does not exist
\* (move_to_left_most fails), and on to the root, which descends through
\* page 4 to leaf 7.
TableThreeLevel ==
  2 :> Interior(<<<<4>>>>, <<3>>, 4)
  @@ 3 :> Interior(<<<<2>>>>, <<5>>, 6)
  @@ 4 :> Interior(<<<<6>>>>, <<7>>, 8)
  @@ 5 :> Leaf(<<<<1, 1>>, <<2, 1>>>>, FALSE)
  @@ 6 :> Leaf(<<<<3, 1>>, <<4, 1>>>>, FALSE)
  @@ 7 :> Leaf(<<<<5, 1>>, <<6, 1>>>>, FALSE)
  @@ 8 :> Leaf(<<<<8, 1>>>>, FALSE)

\* The same shape where leaf 4 has freeblocks left by deleted rows.
TableTwoLevelFragmented ==
  [TableTwoLevel EXCEPT ![4].fragmented = TRUE]

\* A freshly created table: its root leaf has no cells.
TableEmpty == 2 :> Leaf(<<>>, FALSE)

\* A table whose rows fit in its root leaf.
TableOneLeaf == 2 :> Leaf(<<<<1, 1>>, <<3, 1>>>>, FALSE)

\* A table where rowid 4, the divider, was deleted from leaf 3 after the
\* split: the divider is larger than every rowid left of it.
TableStaleDivider ==
  2 :> Interior(<<<<4>>>>, <<3>>, 4)
  @@ 3 :> Leaf(<<<<1, 1>>, <<2, 1>>>>, FALSE)
  @@ 4 :> Leaf(<<<<5, 1>>>>, FALSE)

\* An index on one column with records <<value, rowid>>; value 2 occurs in
\* a leaf, in the root and in the next leaf.
IndexTwoLevel ==
  2 :> Interior(<<<<2, 30>>, <<3, 60>>>>, <<3, 4>>, 5)
  @@ 3 :> IndexLeaf(<<<<1, 10>>, <<2, 20>>>>)
  @@ 4 :> IndexLeaf(<<<<2, 40>>, <<3, 50>>>>)
  @@ 5 :> IndexLeaf(<<<<4, 70>>>>)

\* idx_cell is a u16: a root frame left stale by move_to_root gains two
\* per move_to_last / move_next round past the end, with no bound short of
\* the u16 overflow.  The models explore idx_cell up to MaxIdx.
MaxIdx == 6

IdxBounded == \A f \in {cur} \cup Range(parents) : f.idx <= MaxIdx

\* A three-level index: exhausting leaf 6 climbs past page 3 (itself at its
\* end) to the root cell, and exhausting leaf 8 climbs out of the tree.
\* Value 2 occurs on page 3 and on leaf 6.
IndexThreeLevel ==
  2 :> Interior(<<<<5, 50>>>>, <<3>>, 4)
  @@ 3 :> Interior(<<<<2, 20>>>>, <<5>>, 6)
  @@ 4 :> Interior(<<<<7, 70>>>>, <<7>>, 8)
  @@ 5 :> IndexLeaf(<<<<1, 10>>>>)
  @@ 6 :> IndexLeaf(<<<<2, 25>>, <<4, 40>>>>)
  @@ 7 :> IndexLeaf(<<<<6, 60>>>>)
  @@ 8 :> IndexLeaf(<<<<8, 80>>, <<9, 90>>>>)

\* Value 2 on both leaves and in the root cell between them.
IndexDuplicates ==
  2 :> Interior(<<<<2, 30>>>>, <<3>>, 4)
  @@ 3 :> IndexLeaf(<<<<2, 10>>, <<2, 20>>>>)
  @@ 4 :> IndexLeaf(<<<<2, 40>>, <<3, 50>>>>)

\* A leaf beside a subtree: the root cell is reached by climbing out of a
\* leaf that is a direct child of the root.
IndexLeafBesideSubtree ==
  2 :> Interior(<<<<3, 30>>>>, <<3>>, 4)
  @@ 3 :> IndexLeaf(<<<<1, 10>>, <<2, 20>>>>)
  @@ 4 :> Interior(<<<<5, 50>>>>, <<5>>, 6)
  @@ 5 :> IndexLeaf(<<<<4, 40>>>>)
  @@ 6 :> IndexLeaf(<<<<6, 60>>, <<7, 70>>>>)

\* An index on a table whose records fit in the root leaf, and the index
\* of an empty table.
IndexOneLeaf == 2 :> IndexLeaf(<<<<1, 10>>, <<3, 30>>>>)
IndexEmpty == 2 :> IndexLeaf(<<>>)

\* The sets of trees a model opens its cursor on.
TableTrees == {TableEmpty, TableOneLeaf, TableTwoLevel}
SingleLeafTables == {TableEmpty, TableOneLeaf}
TwoLevelTables == {TableTwoLevel}
OneLeafTables == {TableOneLeaf}
FragmentedTables == {TableTwoLevelFragmented}
TableClientTrees == TableTrees \cup FragmentedTables \cup {TableThreeLevel}
StaleDividerTables == {TableStaleDivider}
IndexTrees == {IndexEmpty, IndexOneLeaf, IndexTwoLevel, IndexThreeLevel, IndexDuplicates,
               IndexLeafBesideSubtree}
TwoLevelIndexes == {IndexTwoLevel}

TableSeekKeys == {0, 3, 5, 9}
IndexSeekKeys == {<<0>>, <<2>>, <<3>>, <<5>>, <<2, 25>>, <<3, 60>>}
IndexThreeSeekKeys == {<<0>>, <<2>>, <<3>>, <<5>>, <<9>>, <<10>>, <<2, 22>>, <<2, 25>>}
IndexSeekKeysSmall == {<<2>>, <<2, 25>>, <<5>>}

\* The calls the statement layer makes on a table cursor: a full scan
\* (move_to_first, move_next, get_table_payload), a rowid lookup
\* (table_move_to, get_table_payload) and inserts.
TableClientNext ==
  \/ MoveToFirst \/ MoveNext
  \/ \E k \in SeekKeys : TableMoveTo(k)
  \/ GetTableKey \/ GetTablePayload
  \/ \E k \in InsertKeys, p \in Payloads : Insert(k, p)

\* The calls made on an index cursor: index_move_to, then move_next and
\* get_index_payload; the table readers, called on an index cursor by
\* mistake, must fail without effect.
IndexClientNext ==
  \/ MoveToFirst \/ MoveNext
  \/ \E k \in SeekKeys : IndexMoveTo(k)
  \/ GetIndexPayload
  \/ GetTableKey \/ GetTablePayload

TableClientSpec == Init /\ [][TableClientNext]_vars
IndexClientSpec == Init /\ [][IndexClientNext]_vars

\* The index client with weak fairness of move_next: a client that
\* iterates keeps calling it (Rows::move_next does, once per next_row).
FairIndexClientSpec == IndexClientSpec /\ WF_vars(MoveNext)

\* A table client that also calls move_to_last.
LastClientSpec == Init /\ [][TableClientNext \/ MoveToLast]_vars

\* An index client that also calls the table positioning on it.
WrongKindSpec == Init /\ [][IndexClientNext \/ \E k \in {0} : TableMoveTo(k)]_vars

\* Every call that is meant for an index cursor, in any order: all of
\* Next except table_move_to and insert, the calls of the table kind that
\* move the cursor before failing.
IndexCallsNext ==
  \/ MoveToFirst \/ MoveToLast \/ MoveNext
  \/ \E k \in SeekKeys : IndexMoveTo(k)
  \/ GetTableKey \/ GetTablePayload \/ GetIndexPayload

\* Scanning a table to its end and beyond.
ScanSpec == Init /\ [][MoveToFirst \/ MoveNext \/ GetTablePayload]_vars

\* Seeking a table, then iterating.
SeekThenNextSpec == Init /\ [][(\E k \in SeekKeys : TableMoveTo(k)) \/ MoveNext]_vars

=============================================================================
