---------------------------- MODULE MCSelectRows ----------------------------
(***************************************************************************)
(* Model-checking instances of SelectRows: a table with its index on the  *)
(* one column, laid out as SQLite writes them.                            *)
(***************************************************************************)
EXTENDS SelectRows, BtreePages

\* Rows <<rowid, v>>: 1 2 | 2 2 | 4 2 | 5 300 | 7 1 over three leaves;
\* value 2 occurs three times, value 300 needs two content bytes.
SelectTable ==
  2 :> Interior(<<<<2>>, <<5>>>>, <<3, 4>>, 5)
  @@ 3 :> Leaf(<<<<1, 2>>, <<2, 2>>>>, FALSE)
  @@ 4 :> Leaf(<<<<4, 2>>, <<5, 300>>>>, FALSE)
  @@ 5 :> Leaf(<<<<7, 1>>>>, FALSE)

\* Its index: records <<v, rowid>> in order; the root cell <<2, 2>> lies
\* between the duplicates <<2, 1>> on the left leaf and <<2, 4>> on the
\* right one.
SelectIndex ==
  2 :> Interior(<<<<2, 2>>>>, <<3>>, 4)
  @@ 3 :> IndexLeaf(<<<<1, 7>>, <<2, 1>>>>)
  @@ 4 :> IndexLeaf(<<<<2, 4>>, <<300, 5>>>>)

\* A small table in its root leaf, with a negative value, and its index.
SmallTable == 2 :> Leaf(<<<<1, -2>>, <<3, 1>>>>, FALSE)
SmallIndex == 2 :> IndexLeaf(<<<<-2, 1>>, <<1, 3>>>>)

\* A record of a row is 2 to 4 bytes (Payload!RecordBytes).  A file that
\* keeps 3 payload bytes on the page splits the content of 300 between the
\* page and one overflow page; one that keeps 2 puts every content byte on
\* overflow pages of one byte, two of them for 300.  Each file is whole or
\* has the overflow chain of one of the rows in t.broken cut short.
Files(trees) == UNION {{[table |-> t.table, index |-> t.index, local |-> l, cap |-> 1,
                          broken |-> b] : l \in {2, 3}, b \in {0} \cup t.broken} : t \in trees}

AllDatabases == Files({[table |-> SelectTable, index |-> SelectIndex, broken |-> {2, 5}],
                       [table |-> SmallTable, index |-> SmallIndex, broken |-> {}]})
TwoLevelDatabase == {[table |-> SelectTable, index |-> SelectIndex, local |-> 3, cap |-> 1,
                      broken |-> 0]}

\* WHERE clauses: none, and every equality of two of rowid, column and
\* constant, either way round.
Sides == {"rowid", "col", "key"}
AllFilters == {NoFilter} \cup {f \in [l : Sides, r : Sides] : f.l # f.r}
LookupFilters == {[l |-> "rowid", r |-> "key"], [l |-> "key", r |-> "rowid"],
                  [l |-> "col", r |-> "key"]}
ScanFilters == {NoFilter}
ColumnFilters == {[l |-> "col", r |-> "key"]}

\* WHERE constants: every value and rowid of the tables, and values or
\* rowids below, between and above them.
AnswerKeys == {-2, 0, 1, 3, 5, 9, 300}
LookupKeys == {-2, 0, 1, 2, 3, 4, 5, 6, 7, 9, 300}

=============================================================================
