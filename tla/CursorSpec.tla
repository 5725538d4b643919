----------------------------- MODULE CursorSpec -----------------------------
(***************************************************************************)
(* What a B-tree cursor promises (spec.md sections 4.4, 7 and 8): a        *)
(* position over the entries of one tree taken in key order.  `entries`   *)
(* is that order (table rows <<rowid, payload>>, or index records), `pos` *)
(* the number of entries before the cursor (Len(entries) once past the    *)
(* end), and `ret` what the last call returned.                           *)
(*                                                                         *)
(*  - move_to_first / move_to_last put the cursor on the first / last     *)
(*    entry; move_next advances by one and stays put once past the end;   *)
(*  - table_move_to(k) goes to the smallest rowid >= k and returns it, or *)
(*    None when every rowid is below k; index_move_to(K) goes to a record *)
(*    whose prefix equals K if there is one, else to the first record     *)
(*    greater than K;                                                     *)
(*  - the readers return the entry under the cursor, or None past the end;*)
(*  - insert(k, p) adds the row and leaves the cursor on it;              *)
(*  - a failed call (precondition violation) changes nothing.             *)
(***************************************************************************)
EXTENDS Integers, Sequences, SequencesExt, BtreeKeys

CONSTANTS Kind, InitEntries, SeekKeys, InsertKeys, Payloads

VARIABLES entries, pos, initialized, ret

avars == <<entries, pos, initialized, ret>>

End == Len(entries)

Cmp(k, e) == IF Kind = "table" THEN IntCmp(k, TableCellKey(e)) ELSE CompareRecord(k, e)

\* The number of entries ordered before key k.
Below(k) == Quantify(1..End, LAMBDA i : Cmp(k, entries[i]) = Greater)

Init ==
  /\ entries \in InitEntries
  /\ pos = 0
  /\ initialized = FALSE
  /\ ret = None

Position(p, r) ==
  /\ pos' = p
  /\ initialized' = TRUE
  /\ ret' = r
  /\ UNCHANGED entries

ToFirst == Position(0, Ok)

ToLast == Position(IF End = 0 THEN 0 ELSE End - 1, Ok)

Advance ==
  /\ initialized
  /\ pos' = IF pos < End THEN pos + 1 ELSE End
  /\ ret' = Ok
  /\ UNCHANGED <<entries, initialized>>

TableSeek(k) ==
  /\ Kind = "table"
  /\ Position(Below(k), IF Below(k) < End THEN Some(TableCellKey(entries[Below(k) + 1])) ELSE None)

IndexSeek(k) ==
  LET match == {i \in 0..End - 1 : Cmp(k, entries[i + 1]) = Equal}
  IN /\ Kind = "index"
     /\ \E p \in IF match # {} THEN match ELSE {Below(k)} : Position(p, Ok)

Read(kind, Value(_)) ==
  /\ Kind = kind
  /\ initialized
  /\ ret' = IF pos < End THEN Value(entries[pos + 1]) ELSE None
  /\ UNCHANGED <<entries, pos, initialized>>

Insert(k, p) ==
  /\ Kind = "table"
  /\ \A i \in 1..End : TableCellKey(entries[i]) # k
  /\ entries' = InsertAt(entries, Below(k) + 1, <<k, p>>)
  /\ pos' = Below(k)
  /\ initialized' = TRUE
  /\ ret' = Ok

Reject ==
  /\ ret' = Err
  /\ UNCHANGED <<entries, pos, initialized>>

Next ==
  \/ ToFirst \/ ToLast \/ Advance
  \/ \E k \in SeekKeys : TableSeek(k) \/ IndexSeek(k)
  \/ Read("table", LAMBDA e : Some(TableCellKey(e))) \/ Read("table", LAMBDA e : e) \/ Read("index", LAMBDA e : e)
  \/ \E k \in InsertKeys, p \in Payloads : Insert(k, p)
  \/ Reject

Spec == Init /\ [][Next]_avars

=============================================================================
