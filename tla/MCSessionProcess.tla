-------------------------- MODULE MCSessionProcess --------------------------
(***************************************************************************)
(* A process of two mapped addresses 1 and 2 in a range that runs on into  *)
(* a hole.  The byte 1 is a pointer, the byte 0 is not, so that the memory *)
(* has zero, one or two pointers; two modules with a global each.          *)
(***************************************************************************)
EXTENDS SessionHistory

MCAddr == 0..3
MCMapped == {1, 2}
MCByte == {0, 1}
MCScanRanges == {[base |-> 1, size |-> 3]}
MCSigRanges == {[base |-> 1, size |-> 2]}
MCSized == {"u8"}
MCSize == "u8" :> 1
MCParse == "u8" :> ("1" :> <<1>>)
MCCompiled == "01" :> <<1>>
MCModule == {"exe", "lib"}
MCGlobalsOf == "exe" :> {1} @@ "lib" :> {2}

\* The states without the last answer, which no action reads.
Unanswered == <<mem, session, history>>

=============================================================================
