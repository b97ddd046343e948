------------------------------- MODULE Disasm -------------------------------
(***************************************************************************)
(* disasm::Disasm: the instructions of the target that refer to memory     *)
(* relative to the instruction pointer, found by one linear sweep for each *)
(* text section of each module.  The sections are swept in parallel; each  *)
(* keeps its place in local variables, and the results are put together    *)
(* when all have ended.                                                    *)
(*                                                                         *)
(* The decoder (iced_x86) is external: an instruction is known by its      *)
(* first byte, which tells its length, whether it is valid, what its       *)
(* memory operand is based on, whether its first operand is a near or far  *)
(* branch, and where its displacement and its immediate lie.  The target   *)
(* neither writes its text nor loads modules while a call is running.  A   *)
(* read or a list that memflow provides may fail at any time.              *)
(***************************************************************************)
EXTENDS Integers, Sequences, FiniteSets, Functions

CONSTANTS
    Byte, Zero,     \* the values of a byte; what an unmapped byte reads as
    Instr,          \* first byte -> [len, valid, base, op0, disp, imm]
    Disp,           \* the byte after it -> the displacement it stands for
    Modules,        \* records [name, base, size, text], text of [base, size]
    Codes,          \* the texts the target may have
    AnyModule,      \* stands for the module argument None
    Chunk           \* CHUNK_SIZE, 2 MiB

VARIABLES
    mem,            \* the text of the target
    loaded,         \* the modules the target has
    call,           \* the call that is running, or "idle"
    tasks,          \* section -> the state of its sweep
    map             \* instruction -> the address it refers to

disasm == <<tasks, map>>
target == <<mem, loaded>>

Window(a, n) == a .. (a + n - 1)

Text == UNION {m.text : m \in Modules}
TextBytes == UNION {Window(s.base, s.size) : s \in Text}

\* A field of an instruction, by offset and size; of size 0 if there is none.
Fields == [off : Nat, size : Nat]

\* base: memory_base(), a general register in "register"; op0: the kind of the
\* first operand as far as it is a branch.
Instructions ==
    [len : Nat \ {0}, valid : BOOLEAN, disp : Fields, imm : Fields,
     base : {"ip", "segment", "none", "register"}, op0 : {"near", "far", "other"}]

ASSUME DisasmAssumption ==
    /\ Zero \in Byte
    /\ Instr \in [Byte -> Instructions]
    /\ Disp \in [Byte -> Int]
    /\ Codes \subseteq [TextBytes -> Byte]
    /\ \A m \in Modules : \A s \in m.text : s.base \in Nat /\ s.size \in Nat
    /\ \A r, s \in Text :
          r = s \/ Window(r.base, r.size) \cap Window(s.base, s.size) = {}
    /\ Chunk \in Nat \ {0}

Present == UNION {Window(m.base, m.size) : m \in loaded}

Shown(a) == IF a \in TextBytes \cap Present THEN mem[a] ELSE Zero

InstrAt(a) == Instr[Shown(a)]

NextInstr(a) == a + InstrAt(a).len

\* is_ip_rel_memory_operand, and near_branch_target is 0.
IsReference(i) == i.valid /\ i.base = "ip" /\ i.op0 # "near"

\* ip_rel_memory_address: relative to the end of the instruction.
Refers(a) == NextInstr(a) + Disp[Shown(a + 1)]

Lesser(a, b) == IF a <= b THEN a ELSE b

\* The items of (start..end).step_by(n).
StepsOf(size, n) == (size + n - 1) \div n

-----------------------------------------------------------------------------
NoGlobals == [x \in {} |-> 0]

\* map.inverse_map and its keys.
globals == Range(map)
InverseMap(g) == {ip \in DOMAIN map : map[ip] = g}

Reset == map' = NoGlobals

Sweep(s) == [steps |-> StepsOf(s.size, Chunk), addr |-> s.base,
             ip |-> s.base, lim |-> s.base, found |-> {}, failed |-> 0]

\* The text of the modules whose section list could be read; the others are
\* left out without a word.
Chosen(name, listed) ==
    UNION {m.text : m \in {m \in listed : name \in {AnyModule, m.name}}}

CollectGlobals(name) ==
    /\ call = "idle"
    /\ Reset
    /\ \/ UNCHANGED <<call, tasks>>       \* module_list failed
       \/ \E listed \in SUBSET loaded :
             /\ tasks' = [s \in Chosen(name, listed) |-> Sweep(s)]
             /\ call' = "collect"
    /\ UNCHANGED target

SectionEnd(s) == s.base + s.size

\* Faulty variant: a read that fails is not counted as a step.
ReadChunkAgain(s) ==
    /\ call = "collect" /\ tasks[s].ip >= tasks[s].lim /\ tasks[s].steps > 0
    /\ LET t == tasks[s]
       IN  \/ tasks' = [tasks EXCEPT ![s] =
                 [t EXCEPT !.steps = @ - 1, !.ip = t.addr, !.addr = @ + Chunk,
                           !.lim = Lesser(SectionEnd(s), t.addr + Chunk)]]
           \/ tasks' = [tasks EXCEPT ![s] = [t EXCEPT !.failed = @ + 1]]
    /\ UNCHANGED <<target, call, map>>

(***************************************************************************)
(* One step of step_by: the chunk is read at addr, which the last chunk    *)
(* left behind its last instruction.  A read that fails leaves addr where  *)
(* it is.                                                                  *)
(***************************************************************************)
ReadChunk(s) ==
    /\ call = "collect" /\ tasks[s].ip >= tasks[s].lim /\ tasks[s].steps > 0
    /\ LET t == tasks[s]
       IN  \/ tasks' = [tasks EXCEPT ![s] =
                 [t EXCEPT !.steps = @ - 1, !.ip = t.addr, !.addr = @ + Chunk,
                           !.lim = Lesser(SectionEnd(s), t.addr + Chunk)]]
           \/ tasks' = [tasks EXCEPT ![s] =
                 [t EXCEPT !.steps = @ - 1, !.failed = @ + 1]]
    /\ UNCHANGED <<target, call, map>>

\* Faulty variant: the next chunk starts where this one was to end.
DecodeOnGrid(s) ==
    /\ call = "collect" /\ tasks[s].ip < tasks[s].lim
    /\ LET ip == tasks[s].ip
       IN  tasks' = [tasks EXCEPT
              ![s].ip = NextInstr(ip),
              ![s].found = @ \cup (IF IsReference(InstrAt(ip))
                                   THEN {<<ip, Refers(ip)>>} ELSE {})]
    /\ UNCHANGED <<target, call, map>>

\* One instruction that starts within the chunk.
Decode(s) ==
    /\ call = "collect" /\ tasks[s].ip < tasks[s].lim
    /\ LET ip == tasks[s].ip
       IN  tasks' = [tasks EXCEPT
              ![s].ip = NextInstr(ip), ![s].addr = NextInstr(ip),
              ![s].found = @ \cup (IF IsReference(InstrAt(ip))
                                   THEN {<<ip, Refers(ip)>>} ELSE {})]
    /\ UNCHANGED <<target, call, map>>

Collected(ts) == UNION {ts[s].found : s \in DOMAIN ts}

Publish ==
    /\ call = "collect"
    /\ \A s \in DOMAIN tasks : tasks[s].steps = 0 /\ tasks[s].ip >= tasks[s].lim
    /\ map' = [ip \in {e[1] : e \in Collected(tasks)} |->
                  CHOOSE g \in {e[2] : e \in Collected(tasks)} :
                      <<ip, g>> \in Collected(tasks)]
    /\ call' = "idle" /\ tasks' = << >>
    /\ UNCHANGED target

DisasmInit ==
    /\ mem \in Codes
    /\ loaded = Modules
    /\ call = "idle" /\ tasks = << >> /\ map = NoGlobals

Collecting ==
    \/ \E s \in DOMAIN tasks : ReadChunk(s) \/ Decode(s)
    \/ Publish

-----------------------------------------------------------------------------
(***************************************************************************)
(* The linear sweep: the smallest set that holds the first address and,    *)
(* with each address of the window, the one after its instruction.         *)
(***************************************************************************)
Linear(a, last) ==
    {x \in a .. last : \A S \in SUBSET (a .. last) :
        (/\ a \in S
         /\ \A y \in S : NextInstr(y) <= last => NextInstr(y) \in S) => x \in S}

LinearEntries(s) ==
    {<<x, Refers(x)>> : x \in {x \in Linear(s.base, SectionEnd(s) - 1) :
                                   IsReference(InstrAt(x))}}

=============================================================================
