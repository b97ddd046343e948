----------------------------- MODULE MCSession -----------------------------
(***************************************************************************)
(* A raw view of four addresses in pages of two bytes, with one-byte and   *)
(* two-byte integers and strings: windows that straddle pages, and windows *)
(* and ranges that run into the hole after the last address.               *)
(***************************************************************************)
EXTENDS SessionHistory

MCAddr == 0..3
MCByte == {0, 1}
MCScanRanges == {[base |-> 0, size |-> 4]}
MCSigRanges == {[base |-> 0, size |-> 5]}

MCSized == {"u8", "u16"}
MCUnsized == {"str"}
MCTypeName == {"u8", "u16", "str", "u128"}
MCSize == [t \in MCSized |-> IF t = "u8" THEN 1 ELSE 2]
MCValue == {"", "1", "11"}
MCParse ==
    [u8  |-> ("" :> Malformed @@ "1" :> <<1>> @@ "11" :> Malformed),
     u16 |-> ("" :> Malformed @@ "1" :> <<1, 0>> @@ "11" :> <<1, 1>>),
     str |-> ("" :> <<>> @@ "1" :> <<1>> @@ "11" :> <<1, 1>>)]
MCPattern == {"01", "?? 01", "x"}
MCCompiled == "01" :> <<1>> @@ "?? 01" :> <<Wild, 1>> @@ "x" :> Malformed
MCGlobalsOf == [x \in {} |-> {}]
MCLens == {1}

\* The states without the last answer, which no action reads.
Unanswered == <<mem, session, history>>

=============================================================================
