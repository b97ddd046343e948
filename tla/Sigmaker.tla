------------------------------ MODULE Sigmaker ------------------------------
(***************************************************************************)
(* sigmaker::Sigmaker::find_sigs over the map a Disasm collected: for each *)
(* instruction that refers to a global a signature is grown by whole       *)
(* instructions, until at least one is found at no other place of the text *)
(* of the module that holds the global.                                    *)
(*                                                                         *)
(* Between calls the target may write its text or drop a module, so that   *)
(* the map is older than the memory a signature is made from.              *)
(***************************************************************************)
EXTENDS Disasm

CONSTANTS
    Wild,           \* a wildcard of a signature
    SigLen,         \* MAX_SIG_LENGTH, 128
    SigChunk,       \* CHUNK_SIZE of has_unique_matches, 4 KiB
    Names, Asked,   \* the module names and the addresses callers pass
    MaxWrites       \* bound on what the target changes between calls

\* An instruction has at most 15 bytes.
ASSUME SigmakerAssumption ==
    /\ Wild \notin Byte
    /\ SigLen \in Nat \ {0} /\ SigChunk \in Nat \ {0}
    /\ \A b \in Byte : Instr[b].len <= SigLen
    /\ MaxWrites \in Nat

VARIABLES
    mask, pos,      \* each Sigstate: its mask so far, the decoder's position
    ranges,         \* the text sections that are searched
    todo, dups,     \* has_unique_matches: chunks left, states with a duplicate
    answer,         \* what the last call returned: [kind, of, sigs]
    writes          \* the number of changes of the target

sigmaker == <<mask, pos, todo, dups>>
search == <<sigmaker, ranges>>
vars == <<target, call, disasm, search, answer, writes>>

States == DOMAIN mask

Answer(kind, g, sigs) == answer' = [kind |-> kind, of |-> g, sigs |-> sigs]
Ended == mask' = << >> /\ pos' = << >> /\ todo' = {} /\ dups' = {}

NoAnswer == [kind |-> "none", of |-> 0, sigs |-> {}]

-----------------------------------------------------------------------------
\* InvalidArgument, ModuleNotFound, or an error of module_list, of the
\* section list or of the read of the code.
FindSigsRefused(g) ==
    /\ call = "idle"
    /\ \/ g \notin globals /\ Answer("invalid_argument", g, {})
       \/ /\ g \in globals
          /\ \A m \in loaded : g \notin Window(m.base, m.size)
          /\ Answer("module_not_found", g, {})
       \/ g \in globals /\ Answer("failed", g, {})
    /\ UNCHANGED <<target, call, disasm, search, writes>>

\* The ranges are those of the module that holds the global, which need not
\* be the module of the code.
FindSigs(g) ==
    /\ call = "idle" /\ g \in globals
    /\ \E m \in loaded :
          /\ g \in Window(m.base, m.size)
          /\ ranges' = m.text
    /\ mask' = [u \in InverseMap(g) |-> << >>]
    /\ pos' = [u \in InverseMap(g) |-> 0]
    /\ todo' = {} /\ dups' = {}
    /\ Answer("none", g, {})
    /\ call' = "grow"
    /\ UNCHANGED <<target, disasm, writes>>

Left(u) == SigLen - pos[u]
InstrHere(u) == InstrAt(u + pos[u])

\* The instruction decoded next is valid and lies in the buffer.
Adds(u) == InstrHere(u).valid /\ InstrHere(u).len <= Left(u)

(***************************************************************************)
(* add_single_instr moves the decoder over an instruction it rejects as    *)
(* well: over the length of an invalid one, and over some of the bytes     *)
(* when the buffer ends within the instruction.                            *)
(***************************************************************************)
Moved(u, p) ==
    IF Left(u) > 0 /\ InstrHere(u).len > Left(u)
    THEN p \in pos[u] + 1 .. SigLen
    ELSE p = IF Left(u) > 0 THEN pos[u] + InstrHere(u).len ELSE pos[u]

FieldBytes(f) == f.off .. f.off + f.size - 1

\* The mask with the bytes of a field cleared; TRUE for a byte that is compared.
Cleared(m, f) == [k \in DOMAIN m |-> m[k] /\ k - 1 \notin FieldBytes(f)]

MaskMem(m, i) == Cleared(m, i.disp)

MaskBranch(m, i, unmasked) ==
    IF i.imm.size > unmasked THEN Cleared(m, i.imm) ELSE m

Literal(i) == [k \in 1..i.len |-> TRUE]

\* Faulty variant: the displacement is masked whatever the operand's base.
InstrMaskAnyBase(i) ==
    LET m == MaskMem(Literal(i), i)
    IN  IF i.op0 \in {"near", "far"} THEN MaskBranch(m, i, 1) ELSE m

\* mask_instr
InstrMask(i) ==
    LET m == IF i.base \in {"ip", "segment", "none"}
             THEN MaskMem(Literal(i), i) ELSE Literal(i)
    IN  IF i.op0 \in {"near", "far"} THEN MaskBranch(m, i, 1) ELSE m

Extended(u) == mask[u] \o InstrMask(InstrHere(u))

ChunkStarts ==
    UNION {{c \in Window(r.base, r.size) : (c - r.base) % SigChunk = 0} :
             r \in ranges}

\* Faulty variant: one state that cannot grow ends the search.
GrowAll ==
    /\ call = "grow"
    /\ \/ /\ \A u \in States : Adds(u)
          /\ pos' \in [States -> 0..SigLen] /\ \A u \in States : Moved(u, pos'[u])
          /\ mask' = [u \in States |-> IF Adds(u) THEN Extended(u) ELSE mask[u]]
          /\ call' = "check" /\ todo' = ChunkStarts /\ dups' = {}
          /\ UNCHANGED answer
       \/ /\ ~\A u \in States : Adds(u)
          /\ call' = "idle" /\ Answer("ok", answer.of, {}) /\ Ended
    /\ UNCHANGED <<target, disasm, ranges, writes>>

\* Faulty variant: a rejected instruction counts as added.
GrowForever ==
    /\ call = "grow"
    /\ pos' \in [States -> 0..SigLen] /\ \A u \in States : Moved(u, pos'[u])
    /\ mask' = [u \in States |-> IF Adds(u) THEN Extended(u) ELSE mask[u]]
    /\ call' = "check" /\ todo' = ChunkStarts /\ dups' = {}
    /\ UNCHANGED <<target, disasm, ranges, answer, writes>>

\* Every state takes one more instruction; the search ends when none could.
Grow ==
    /\ call = "grow"
    /\ \/ /\ \E u \in States : Adds(u)
          /\ pos' \in [States -> 0..SigLen] /\ \A u \in States : Moved(u, pos'[u])
          /\ mask' = [u \in States |-> IF Adds(u) THEN Extended(u) ELSE mask[u]]
          /\ call' = "check" /\ todo' = ChunkStarts /\ dups' = {}
          /\ UNCHANGED answer
       \/ /\ ~\E u \in States : Adds(u)
          /\ call' = "idle" /\ Answer("ok", answer.of, {}) /\ Ended
    /\ UNCHANGED <<target, disasm, ranges, writes>>

-----------------------------------------------------------------------------
\* Faulty variant: a chunk is read without the start of the next one.
SearchedShort(c) == c .. c + SigChunk - 2

\* The windows of a buffer of SigChunk + SigLen - 1 bytes, in the last chunk
\* of a section also those that start behind it.
Searched(c) == c .. c + SigChunk - 1

Matches(a, u) ==
    \A k \in 1..Len(mask[u]) : mask[u][k] => Shown(a + k - 1) = Shown(u + k - 1)

\* has_unique_matches, one chunk: a read that fails ends the call.
CheckChunk ==
    /\ call = "check"
    /\ \E c \in todo :
          /\ \A d \in todo : c <= d
          /\ \/ /\ dups' = dups \cup {u \in States : \E a \in Searched(c) \ {u} :
                                                        Matches(a, u)}
                /\ todo' = todo \ {c}
                /\ UNCHANGED <<call, answer, mask, pos>>
             \/ /\ call' = "idle" /\ Answer("failed", answer.of, {}) /\ Ended
    /\ UNCHANGED <<target, disasm, ranges, writes>>

\* bytes_to_string
SigOf(u) == [k \in 1..Len(mask[u]) |-> IF mask[u][k] THEN Shown(u + k - 1) ELSE Wild]

CheckEnd ==
    /\ call = "check" /\ todo = {}
    /\ \/ /\ States \subseteq dups
          /\ call' = "grow" /\ UNCHANGED <<answer, sigmaker>>
       \/ /\ ~ States \subseteq dups
          /\ call' = "idle" /\ Ended
          /\ Answer("ok", answer.of,
                    {[at |-> u, bytes |-> SigOf(u)] : u \in States \ dups})
    /\ UNCHANGED <<target, disasm, ranges, writes>>

-----------------------------------------------------------------------------
\* The target changes between two calls; the answer has been looked at.
TargetMoves ==
    /\ call = "idle" /\ writes < MaxWrites
    /\ \/ mem' \in Codes \ {mem} /\ UNCHANGED loaded
       \/ /\ \E m \in loaded : loaded' = loaded \ {m}
          /\ UNCHANGED mem
    /\ writes' = writes + 1
    /\ answer' = NoAnswer
    /\ UNCHANGED <<call, disasm, search>>

Init ==
    /\ DisasmInit
    /\ mask = << >> /\ pos = << >> /\ ranges = {} /\ todo = {} /\ dups = {}
    /\ answer = NoAnswer /\ writes = 0

Collect(name) ==
    /\ CollectGlobals(name)
    /\ answer' = NoAnswer
    /\ UNCHANGED <<search, writes>>

Start == \/ \E name \in Names : Collect(name)
         \/ \E g \in Asked : FindSigs(g) \/ FindSigsRefused(g)

Step == \/ Collecting /\ UNCHANGED <<search, answer, writes>>
        \/ Grow \/ CheckChunk \/ CheckEnd

Next == Start \/ Step \/ TargetMoves

\* A call runs on threads of its own and waits for nobody.
Spec == Init /\ [][Next]_vars /\ WF_vars(Step)

-----------------------------------------------------------------------------
(***************************************************************************)
(* Properties.                                                             *)
(***************************************************************************)
TypeOK ==
    /\ mem \in Codes /\ loaded \subseteq Modules
    /\ call \in {"idle", "collect", "grow", "check"}
    /\ DOMAIN tasks \subseteq Text
    /\ \A s \in DOMAIN tasks : /\ tasks[s].steps \in Nat
                               /\ tasks[s].steps + tasks[s].failed
                                    <= StepsOf(s.size, Chunk)
                               /\ tasks[s].ip \in Nat /\ tasks[s].addr \in Nat
    /\ DOMAIN map \subseteq TextBytes /\ Range(map) \subseteq Int
    /\ DOMAIN pos = States /\ States \subseteq TextBytes
    /\ \A u \in States : mask[u] \in Seq(BOOLEAN) /\ Len(mask[u]) <= pos[u]
                         /\ pos[u] \in 0..SigLen
    /\ dups \subseteq States

(***************************************************************************)
(* What a collection publishes is what one sweep of each section from its  *)
(* first byte finds, wherever the chunk boundaries fall among the          *)
(* instructions; a read that fails costs the end of the section, a chunk   *)
(* at most for each (disasm.rs:82-124).                                    *)
(***************************************************************************)
GlobalsAreTheSweep ==
    [][call = "collect" /\ call' = "idle" =>
        /\ DOMAIN map' \subseteq UNION {Window(s.base, s.size) : s \in DOMAIN tasks}
        /\ \A s \in DOMAIN tasks :
              LET here == {<<ip, map'[ip]>> :
                             ip \in DOMAIN map' \cap Window(s.base, s.size)}
                  sure == SectionEnd(s) - tasks[s].failed * Chunk
              IN  /\ here \subseteq LinearEntries(s)
                  /\ {e \in LinearEntries(s) : e[1] < sure} \subseteq here
      ]_vars

SigHits(a, s) ==
    \A k \in 1..Len(s.bytes) : s.bytes[k] \in {Wild, Shown(a + k - 1)}

\* A signature that is returned stands at its instruction, and at no other
\* place of the text that was searched: one that straddles two chunks is
\* seen by one of them (sigmaker.rs:107-126).
SignatureUnique ==
    \A s \in answer.sigs :
        /\ SigHits(s.at, s)
        /\ \A r \in ranges : \A a \in Window(r.base, r.size) \ {s.at} : ~SigHits(a, s)

Decoded(u) == Linear(u, u + SigLen - 1)

\* The instructions of the buffer that end within it.
Whole(u) == {b \in Decoded(u) : NextInstr(b) <= u + SigLen}

\* The bytes of an instruction that change when code or data are moved: the
\* displacement of an operand that is not addressed through a general register,
\* and the target of a near or far branch unless it is a short one, of a byte.
Moving(i) ==
    {k \in 0 .. i.len - 1 :
        \/ k \in FieldBytes(i.disp) /\ i.base # "register"
        \/ k \in FieldBytes(i.imm) /\ i.op0 # "other" /\ i.imm.size # 1}

\* A byte of a mask is wild just when it lies under a moving byte of the code.
FitsCode(u, k, code) ==
    ~mask[u][k] <=> \E b \in code : u + k - 1 - b \in Moving(InstrAt(b))

\* Up to the first instruction the decoder rejects, an invalid one or one cut
\* off by the end of the buffer, the wildcards of a mask are the moving bytes
\* of the code as one sweep from its instruction decodes it, and no others:
\* displacements through a register and short branches stay literal
\* (sigmaker.rs:29-32, 38-87).
WildcardsAreOperands ==
    call = "check" =>
        \A u \in States :
            LET code == Decoded(u)
            IN  \A k \in 1..Len(mask[u]) :
                    (\A b \in code :
                        ~InstrAt(b).valid \/ NextInstr(b) > u + SigLen
                            => u + k - 1 < b) =>
                    FitsCode(u, k, code)

(***************************************************************************)
(* An empty answer is not given up early: each instruction whose code      *)
(* decodes to the end of the buffer is found a second time where the       *)
(* search looks, with all the whole instructions that fit                  *)
(* (sigmaker.rs:220-230).                                                  *)
(***************************************************************************)
EmptyMeansNone ==
    answer.kind = "ok" /\ answer.sigs = {} =>
        \A u \in InverseMap(answer.of) :
            (\A b \in Decoded(u) : InstrAt(b).valid) =>
                LET whole == Whole(u)
                IN  \E a \in (UNION {Searched(c) : c \in ChunkStarts}) \ {u} :
                    \A b \in whole : \A k \in 0 .. InstrAt(b).len - 1 :
                        k \notin Moving(InstrAt(b)) =>
                            Shown(a + (b - u) + k) = Shown(b + k)

\* Every call ends: failed reads, rejected instructions and signatures that
\* are never unique included.
CallEnds == call # "idle" ~> call = "idle"

-----------------------------------------------------------------------------
(***************************************************************************)
(* What the documentation says, and the code does not do.                  *)
(***************************************************************************)

\* sigmaker.rs:91, "Sigmaker allows to find IDA-style code signatures": the
\* wildcards are the moving bytes of the code to the end of the mask, behind
\* an instruction the decoder rejected as well.
WildcardsFollowCode ==
    call = "check" =>
        \A u \in States : \A k \in 1..Len(mask[u]) : FitsCode(u, k, Decoded(u))

=============================================================================
