---------------------------- MODULE MCValueScan -----------------------------
(***************************************************************************)
(* Two workers on five addresses in two ranges, three chunks of two bytes: *)
(* one chunk is solid, the next runs into the hole at 3, and the last one  *)
(* reaches past its range.  A value of two bytes straddles chunks.  A list *)
(* may start with a match in the hole, and it may be longer than a batch,  *)
(* so that a worker uses its buffer twice.                                 *)
(***************************************************************************)
EXTENDS ValueScan

MCAddr == 0..5
MCMapped == {0, 1, 2, 4}
MCByte == {0, 1}
MCScanRanges == {[base |-> 0, size |-> 3], [base |-> 4, size |-> 1]}
MCData == {<<1>>, <<1, 0>>}
MCStart == {<<>>, <<3>>}

=============================================================================
