------------------------------- MODULE Payload -------------------------------
(***************************************************************************)
(* BtreePayload of src/cursor.rs: a cell payload whose first bytes sit on  *)
(* the host page and whose rest is a chain of overflow pages, read with    *)
(* load(offset, buf); and the read of a row's record in Rows::next_row and *)
(* RowData::get_column_value of src/lib.rs, which takes the content from   *)
(* the local buffer when it holds all of it and loads it otherwise.        *)
(*                                                                         *)
(* A payload handle is [size, local, chain]: the logical size, the local   *)
(* prefix and the payload bytes of each overflow page in chain order.  A   *)
(* chain shorter than the payload needs is a file whose next-page link is  *)
(* missing.  Bytes are integers 0..255.                                    *)
(***************************************************************************)
EXTENDS Integers, Sequences, SequencesExt

\* PayloadInfo (btree.rs, spec.md 4.2): the payload keeps at most
\* localMax bytes on its page and puts the rest on overflow pages of cap
\* payload bytes each (usable_size - 4 in the file).
Layout(bytes, localMax, cap) ==
  LET n == Len(bytes)
      l == Min({n, localMax})
      k == (n - l + cap - 1) \div cap
  IN [size  |-> n,
      local |-> SubSeq(bytes, 1, l),
      chain |-> [i \in 1..k |-> SubSeq(bytes, l + (i - 1) * cap + 1, Min({n, l + i * cap}))]]

\* Fault variant of LoadChain: the loop never moves to the next page of
\* the chain (overflow = next_overflow left out).
RECURSIVE LoadChainStaysOnPage(_, _, _, _, _, _)
LoadChainStaysOnPage(pl, i, cur, offset, want, got) ==
  IF want = 0 \/ cur >= pl.size THEN [err |-> FALSE, bytes |-> got]
  ELSE IF i > Len(pl.chain) THEN [err |-> TRUE, bytes |-> got]
  ELSE LET page == pl.chain[i]
           n == IF offset < cur + Len(page) THEN Min({Len(page) - (offset - cur), want}) ELSE 0
       IN LoadChainStaysOnPage(pl, i, cur + Len(page), offset + n, want - n,
                               got \o SubSeq(page, offset - cur + 1, offset - cur + n))

\* The while loop of load from the i-th overflow page, whose first byte is
\* byte cur of the payload: offset is the next byte to read, want the room
\* left in buf, got the bytes copied so far.  A missing page fails with
\* "overflow page is not found" after the bytes already copied.
RECURSIVE LoadChain(_, _, _, _, _, _)
LoadChain(pl, i, cur, offset, want, got) ==
  IF want = 0 \/ cur >= pl.size THEN [err |-> FALSE, bytes |-> got]
  ELSE IF i > Len(pl.chain) THEN [err |-> TRUE, bytes |-> got]
  ELSE LET page == pl.chain[i]
           n == IF offset < cur + Len(page) THEN Min({Len(page) - (offset - cur), want}) ELSE 0
       IN LoadChain(pl, i + 1, cur + Len(page), offset + n, want - n,
                    got \o SubSeq(page, offset - cur + 1, offset - cur + n))

\* BtreePayload::load(offset, buf) with Len(buf) = buflen: the offset
\* checks, the copy from the local prefix, then the chain.  Ok(n) is
\* [err |-> FALSE, bytes] with n = Len(bytes).
Load(pl, offset, buflen) ==
  IF offset < 0 \/ offset >= pl.size THEN [err |-> TRUE, bytes |-> <<>>]
  ELSE LET l == Len(pl.local)
           n == IF offset < l THEN Min({l - offset, buflen}) ELSE 0
       IN LoadChain(pl, 1, l, offset + n, buflen - n, SubSeq(pl.local, offset + 1, offset + n))

-----------------------------------------------------------------------------
\* The record of a row with one integer column v (record.rs, spec.md 4.2):
\* a header of two bytes (its length, the serial type) and the content.
\* Serial types 8 and 9 are the constants 0 and 1 with no content bytes;
\* types 1 and 2 are one- and two-byte big-endian two's complement
\* integers.
SerialType(v) ==
  CASE v = 0                -> 8
    [] v = 1                -> 9
    [] v \in -128..127      -> 1
    [] OTHER                -> 2

ContentSize(t) == CASE t = 1 -> 1 [] t = 2 -> 2 [] OTHER -> 0

RecordBytes(v) ==
  LET t == SerialType(v)
      u == (v + 65536) % 65536
  IN <<2, t>> \o CASE t = 1 -> <<u % 256>>
                  [] t = 2 -> <<u \div 256, u % 256>>
                  [] OTHER -> <<>>

\* SerialType::parse of the column's content bytes.
ParseValue(t, bytes) ==
  LET u == CASE t = 1 -> bytes[1]
             [] t = 2 -> bytes[1] * 256 + bytes[2]
             [] OTHER -> t - 8
      w == 2 ^ (8 * ContentSize(t))
  IN IF ContentSize(t) > 0 /\ u >= w \div 2 THEN u - w ELSE u

\* The read of a row in next_row and get_column_value: parse the header
\* from the local bytes, take the content from buf() when the local bytes
\* hold it (use_local_buffer), otherwise load it into tmp_buf and fail
\* unless load filled it.  Returns [res |-> "ok", v], [res |-> "err"] (a
\* bail! or load's error) or [res |-> "panic"] (the assert!).
ReadColumn(pl) ==
  LET co      == pl.local[1]
      t       == pl.local[2]
      cs      == ContentSize(t)
      useLocal == Len(pl.local) >= co + cs
      ld      == Load(pl, co, cs)
  IN CASE co + cs > pl.size                          -> [res |-> "panic"]
       [] useLocal                                   ->
            [res |-> "ok", v |-> ParseValue(t, SubSeq(pl.local, co + 1, co + cs))]
       [] ld.err \/ Len(ld.bytes) # cs               -> [res |-> "err"]
       [] OTHER                                      -> [res |-> "ok", v |-> ParseValue(t, ld.bytes)]

=============================================================================
