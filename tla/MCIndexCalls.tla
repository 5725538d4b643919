---------------------------- MODULE MCIndexCalls ----------------------------
(***************************************************************************)
(* Every call of the cursor on an index tree, in any order, with a history *)
(* variable that records whether a call of the table kind (table_move_to   *)
(* or insert) has been made on it.  Those calls move the cursor to the     *)
(* root before they fail (cursor.rs:174-177), the only way the positioning *)
(* of an index cursor is left to something other than index_move_to,       *)
(* move_to_first, move_to_last and move_next.                              *)
(***************************************************************************)
EXTENDS MCBtreeCursor

VARIABLE misused

\* A call of the table kind on the index cursor.
WrongKindCall ==
  \/ \E k \in SeekKeys : TableMoveTo(k)
  \/ \E k \in InsertKeys, p \in Payloads : Insert(k, p)

AllCallsNext ==
  \/ IndexCallsNext /\ UNCHANGED misused
  \/ WrongKindCall /\ misused' = TRUE

AllCallsSpec == Init /\ misused = FALSE /\ [][AllCallsNext]_<<vars, misused>>

\* An index cursor aborts in move_next (the assert!(move_to_left_most) at
\* cursor.rs:367 or the assert! at 369-372) only after a call of the table
\* kind has left it on the root: index_move_to, move_to_first, move_to_last
\* and move_next themselves only leave it where those asserts hold.
PanicsOnlyAfterMisuse == panicked => misused

=============================================================================
