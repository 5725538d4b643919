----------------------------- MODULE BtreeKeys -----------------------------
(***************************************************************************)
(* Key comparison and the cell-size arithmetic the B-tree cursor relies   *)
(* on.  The comparator of index trees (record::compare_record), the table *)
(* cell key parser and the varint/zigzag helpers live outside src/ and are *)
(* modelled from the specification (sections 4.2, 4.4.4 and 6).           *)
(*                                                                         *)
(* A table cell is the tuple <<rowid, payload>> on a leaf and <<rowid>> on *)
(* an interior page; a payload is identified by its length in bytes.  An  *)
(* index cell is the record tuple itself, whose last column is the rowid. *)
(***************************************************************************)
EXTENDS Integers, Sequences

\* The Option / unit / error results of the cursor API, as model values
\* distinct from every rowid and record.
CONSTANTS None, Ok, Err

\* Some(rowid) as returned by table_move_to and get_table_key.  A row
\* (get_table_payload) or a record (get_index_payload) is returned as its
\* own tuple, so that every Some result is a sequence.
Some(k) == <<k>>

\* std::cmp::Ordering.
Less    == "Less"
Equal   == "Equal"
Greater == "Greater"

\* key.cmp(&cell_key) on i64 rowids.
IntCmp(a, b) == IF a < b THEN Less ELSE IF a = b THEN Equal ELSE Greater

\* TableCellKeyParser::get_cell_key: the rowid of a table cell.
TableCellKey(cell) == cell[1]

\* compare_record(keys, payload): the search keys against the first
\* Len(keys) columns of the record, column by column; Equal when that
\* prefix matches.  Column values are integers compared in their binary
\* collation.
CompareRecord(keys, rec) ==
  LET diff == {i \in 1..Len(keys) : keys[i] # rec[i]}
      first == CHOOSE i \in diff : \A j \in diff : i <= j
  IN IF diff = {} THEN Equal ELSE IntCmp(keys[first], rec[first])

\* i64_to_u64: the zigzag mapping of a rowid before it is varint-encoded.
I64ToU64(k) == IF k >= 0 THEN 2 * k ELSE -2 * k - 1

\* Number of bytes put_varint writes for u (SQLite varint, 7 bits per
\* byte; values past 2^28 do not occur in the models).
VarintLen(u) ==
  CASE u < 128       -> 1
    [] u < 16384     -> 2
    [] u < 2097152   -> 3
    [] u < 268435456 -> 4
    [] OTHER         -> 5

=============================================================================
