----------------------------- MODULE MCSigmaker -----------------------------
(***************************************************************************)
(* A program with one text section of five bytes, swept in chunks of two,  *)
(* and a library with one of two; data on both sides of the text.          *)
(* Instructions: 0 is one byte long, 1 is a load relative to the           *)
(* instruction pointer and 5 one through a register, of two bytes each,    *)
(* 2 is not an instruction, 3 is a short branch of two bytes and 4 a far   *)
(* one of three.  A load reaches its own module, the other one, and the    *)
(* gap behind both.                                                        *)
(***************************************************************************)
EXTENDS Sigmaker, TLC

Absent == [off |-> 0, size |-> 0]
Field(n) == [off |-> 1, size |-> n]

Plain == [len |-> 1, valid |-> TRUE, base |-> "none", op0 |-> "other",
          disp |-> Absent, imm |-> Absent]

MCInstr ==
    0 :> Plain @@
    1 :> [Plain EXCEPT !.len = 2, !.base = "ip", !.disp = Field(1)] @@
    2 :> [Plain EXCEPT !.valid = FALSE] @@
    3 :> [Plain EXCEPT !.len = 2, !.op0 = "near", !.imm = Field(1)] @@
    4 :> [Plain EXCEPT !.len = 3, !.op0 = "far", !.imm = Field(2)] @@
    5 :> [Plain EXCEPT !.len = 2, !.base = "register", !.disp = Field(1)]

MCDisp == 0 :> 3 @@ 1 :> 5 @@ 2 :> 7 @@ 3 :> 0 - 4 @@ 4 :> 6 @@ 5 :> 5

Exe == [name |-> "exe", base |-> 0, size |-> 10, text |-> {[base |-> 2, size |-> 5]}]
Lib == [name |-> "lib", base |-> 10, size |-> 3, text |-> {[base |-> 10, size |-> 2]}]

MCModules == {Exe, Lib}
MCAsked == {3, 5, 7, 8, 9, 10, 11, 13, 16}

\* Loads that straddle the chunks and loads of one address by two
\* instructions; operands that look like instructions; bytes that are none;
\* each kind of operand behind a load that must grow.
MCPrograms == {<<1, 0, 1, 0, 0>>, <<1, 1, 1, 0, 0>>, <<1, 1, 1, 0, 2>>,
               <<1, 0, 0, 1, 1>>, <<0, 1, 1, 1, 0>>, <<0, 3, 1, 1, 0>>,
               <<1, 3, 2, 1, 0>>, <<1, 0, 2, 0, 1>>, <<1, 3, 3, 1, 0>>,
               <<1, 0, 0, 0, 1>>, <<1, 3, 1, 0, 3>>, <<1, 1, 1, 0, 3>>,
               <<1, 2, 1, 1, 0>>, <<2, 1, 0, 1, 3>>, <<1, 4, 2, 1, 0>>,
               <<1, 3, 4, 1, 0>>, <<1, 3, 5, 1, 3>>}

MCLibraries == {<<1, 3>>, <<0, 1>>}

Laid(p, q) == [a \in 2..6 |-> p[a - 1]] @@ [a \in 10..11 |-> q[a - 9]]

\* A library without a load as well.
MCCodes == {Laid(p, q) : p \in MCPrograms, q \in MCLibraries}
             \cup {Laid(<<1, 4, 1, 2, 0>>, <<3, 0>>)}

MCNames == {AnyModule, "exe"}

=============================================================================
