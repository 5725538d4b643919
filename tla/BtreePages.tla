----------------------------- MODULE BtreePages -----------------------------
(***************************************************************************)
(* Builders for the page records of BtreeCursor, used by the models to    *)
(* write down trees as SQLite lays them out.  Page sizes are scaled down: *)
(* a page has 24 usable bytes, so that two or three inserts fill a leaf   *)
(* and insert's "balance the btree" path is reached.                      *)
(***************************************************************************)
EXTENDS Integers, Sequences, SequencesExt, BtreeKeys

UsableSize == 24

\* Bytes of a table leaf cell <<rowid, payload>> (see Insert).
LeafCellSize(c) == VarintLen(c[2]) + VarintLen(I64ToU64(c[1])) + c[2]

Leaf(cells, frag) ==
  [leaf |-> TRUE, cells |-> cells, child |-> <<>>, right |-> 0, fragmented |-> frag,
   ccao |-> UsableSize - SumFunction([i \in DOMAIN cells |-> LeafCellSize(cells[i])])]

\* Index cells are not rewritten, so their content area is left at the end.
IndexLeaf(cells) ==
  [leaf |-> TRUE, cells |-> cells, child |-> <<>>, right |-> 0, fragmented |-> FALSE,
   ccao |-> UsableSize]

Interior(cells, child, right) ==
  [leaf |-> FALSE, cells |-> cells, child |-> child, right |-> right,
   fragmented |-> FALSE, ccao |-> 0]

=============================================================================
