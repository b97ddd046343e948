------------------------------- MODULE MCRepl -------------------------------
(***************************************************************************)
(* Two mapped addresses and a hole after them, integers of one and of two  *)
(* bytes, so that a match may lie in the hole, run into it, or overlap     *)
(* another one.  The byte 1 is a pointer, the byte 0 is not; one module    *)
(* with one global.                                                        *)
(* Two processes share a name and a third has another; the loop is entered *)
(* on the first process and on the raw view, a subcommand with any of the  *)
(* arguments, on a chain with an operating system or without one.          *)
(***************************************************************************)
EXTENDS Cli

MCAddr == 1..3
MCMapped == {1, 2}
MCByte == {0, 1}
MCScanRanges == {[base |-> 1, size |-> 2]}
MCSized == {"u8", "u16"}
MCTypeName == {"u8", "u16", "u128"}
MCSize == "u8" :> 1 @@ "u16" :> 2
MCParse ==
    [u8  |-> ("1" :> <<1>> @@ "x" :> Malformed),
     u16 |-> ("1" :> <<1, 0>> @@ "x" :> Malformed)]
MCCompiled == "01" :> <<1>>
MCNameOf == 1 :> "game" @@ 2 :> "game" @@ 3 :> "shell"
MCArgs ==
    {[chain |-> c, pid |-> p, program |-> n, sub |-> "one"] :
        c \in {"os", "connector"}, p \in {1, NoPid}, n \in {"game", NoProgram}}
    \cup {[chain |-> "os", pid |-> 1, program |-> "shell", sub |-> "repl"],
          [chain |-> "connector", pid |-> NoPid, program |-> NoProgram,
           sub |-> "repl"]}
MCGlobalsOf == [x \in Module |-> {1}]

=============================================================================
