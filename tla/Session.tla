------------------------------ MODULE Session -------------------------------
(***************************************************************************)
(* One scanflow session on a process: the value scanner on the memory it   *)
(* looks at, the selected type, and the two caches.  Every public          *)
(* method of Session<T> that changes something is one action, early        *)
(* returns and partial effects included; the target process changes its    *)
(* own memory between the calls.  A session on a raw view is this session  *)
(* without the actions of ProcessCall.                                     *)
(*                                                                         *)
(* A call holds &mut self, so calls do not interleave.  What the target    *)
(* does during a scan is the subject of ValueScan.                         *)
(***************************************************************************)
EXTENDS ValueScanner, SequencesExt

CONSTANTS
    IsProcess,          \* the session is on a process, not on a raw view
    Sized, Unsized,     \* the names in types::VALUE_TYPES, by `size`
    TypeName,           \* the type names callers pass
    Size,               \* Size[t], the bytes of a sized type
    Value,              \* the value strings callers pass
    Parse,              \* Parse[t][v], what ty.parse makes of v
    Pattern,            \* the signature strings callers pass
    Compiled,           \* Compiled[p], the signature p stands for
    Malformed,          \* the result of a parser that rejects its input
    Wild,               \* a wildcard byte of a signature
    NoType,             \* typename == None
    NoLen,              \* len == None
    Lens,               \* the lengths callers pass to set_type
    AnyModule,          \* module == None
    Module,             \* the modules of the process
    GlobalsOf,          \* GlobalsOf[x], the globals the code of x refers to
    AllMatches,         \* WriteTarget::All
    MaxMatches          \* bound on the length of the match list

ASSUME SessionAssumption ==
    /\ IsProcess \in BOOLEAN
    /\ Sized \cap Unsized = {}
    /\ Sized \cup Unsized \subseteq TypeName
    /\ Size \in [Sized -> Nat \ {0}]
    /\ Malformed \notin Seq(Byte)
    /\ Parse \in [Sized \cup Unsized -> [Value -> Seq(Byte) \cup {Malformed}]]
    /\ \A t \in Sized, v \in Value :
          Parse[t][v] # Malformed => Len(Parse[t][v]) = Size[t]
    /\ Malformed \notin Seq(Byte \cup {Wild})
    /\ Compiled \in [Pattern -> (Seq(Byte \cup {Wild}) \ {<<>>})
                                  \cup {Malformed}]
    /\ NoType \notin Sized \cup Unsized
    /\ Lens \subseteq Nat /\ NoLen \notin Nat
    /\ GlobalsOf \in [Module -> SUBSET Addr]
    /\ AnyModule \notin Module
    /\ MaxMatches \in Nat /\ AllMatches \notin Nat

VARIABLES
    typename,   \* the selected type
    bufLen,     \* the bytes read back per match
    globals,    \* the globals of disasm
    ptrs,       \* the pairs of pointer_map.map
    ret         \* the last call and its answer

scanner == <<scanned, matches>>
selection == <<typename, bufLen>>
caches == <<globals, ptrs>>
session == <<scanner, selection, caches>>
vars == <<mem, session, ret>>

Known == Sized \cup Unsized

\* The answer of a call; `data` is what it scanned for or wrote, `n` the
\* number of matches written.
Count(op, out, data, n) ==
    ret' = [op |-> op, out |-> out, data |-> data, n |-> n]

Return(op, out, data) == Count(op, out, data, 0)

\* A call that answers and leaves everything as it was.
Answer(op, out) == Return(op, out, <<>>) /\ UNCHANGED <<mem, session>>

Init ==
    /\ mem \in Memory
    /\ scanned = FALSE /\ matches = <<>>
    /\ typename = NoType /\ bufLen = 0
    /\ globals = {} /\ ptrs = {}
    /\ ret = [op |-> "new", out |-> "ok", data |-> <<>>, n |-> 0]

-----------------------------------------------------------------------------
(***************************************************************************)
(* Calls on any session.                                                   *)
(***************************************************************************)
Reset ==
    /\ ScannerReset
    /\ globals' = {} /\ ptrs' = {}
    /\ typename' = NoType /\ bufLen' = 0
    /\ Return("reset", "ok", <<>>)
    /\ UNCHANGED mem

\* Faulty variant: a missing length is stored like any other.
SetTypeUnchecked(t, len) ==
    \/ t \notin Known /\ Answer("set_type", "invalid")
    \/ /\ t \in Known
       /\ typename' = t
       /\ bufLen' = IF t \in Sized THEN Size[t] ELSE len
       /\ Return("set_type", "ok", <<>>)
       /\ UNCHANGED <<mem, scanner, caches>>

\* Faulty variant: the caller's length goes before the size of the type.
SetTypeCallersLength(t, len) ==
    \/ t \notin Known /\ Answer("set_type", "invalid")
    \/ t \in Unsized /\ len = NoLen /\ Answer("set_type", "invalid")
    \/ /\ t \in Known /\ (t \in Sized \/ len # NoLen)
       /\ typename' = t
       /\ bufLen' = IF len # NoLen THEN len ELSE Size[t]
       /\ Return("set_type", "ok", <<>>)
       /\ UNCHANGED <<mem, scanner, caches>>

\* The name is stored before the length is looked at: without a length an
\* unsized type is selected, and the call fails.
SetType(t, len) ==
    \/ t \notin Known /\ Answer("set_type", "invalid")
    \/ /\ t \in Known
       /\ typename' = t
       /\ \/ /\ t \in Sized
             /\ bufLen' = Size[t] /\ Return("set_type", "ok", <<>>)
          \/ /\ t \in Unsized /\ len # NoLen
             /\ bufLen' = len /\ Return("set_type", "ok", <<>>)
          \/ /\ t \in Unsized /\ len = NoLen
             /\ UNCHANGED bufLen /\ Return("set_type", "invalid", <<>>)
       /\ UNCHANGED <<mem, scanner, caches>>

AddMatch(a) ==
    /\ Len(matches) < MaxMatches
    /\ matches' = Append(matches, a)
    /\ Return("add_match", "ok", <<>>)
    /\ UNCHANGED <<mem, scanned, selection, caches>>

RemoveMatch(i) ==
    \/ i \notin 1..Len(matches) /\ Answer("remove_match", "invalid")
    \/ /\ i \in 1..Len(matches)
       /\ matches' = RemoveAt(matches, i)
       /\ Return("remove_match", "ok", <<>>)
       /\ UNCHANGED <<mem, scanned, selection, caches>>

WriteMemory(a, d) ==
    \/ ~Solid(a, Len(d)) /\ Answer("write_memory", "memory")
    \/ /\ mem' \in Written(mem, <<a>>, d, 1)
       /\ Return("write_memory", "ok", d)
       /\ UNCHANGED session

\* scan_range reports the hits of a range in ascending order, and the ranges
\* ascend as well.  A range here fits in one SIG_CHUNK, so that a failed read
\* leaves out all of it; SigScan has the longer ones.  The length of the
\* read-back buffer is not touched.
SigScan(p) ==
    \/ Compiled[p] = Malformed /\ Answer("sig_scan", "invalid")
    \/ /\ Compiled[p] # Malformed
       /\ \E skipped \in SUBSET UnreliableRanges :
            \E order \in Orders(SigFound(mem, Compiled[p], Wild, skipped)) :
               Increasing(order) /\ matches' = order
       /\ Len(matches') <= MaxMatches
       /\ scanned' = FALSE
       /\ typename' = NoType
       /\ Return("sig_scan", "ok", <<>>)
       /\ UNCHANGED <<mem, bufLen, caches>>

\* Faulty variant: the type is selected before the value is parsed.
ScanValueSelectsFirst(t, v) ==
    \/ t \notin Known /\ Answer("scan_value", "invalid")
    \/ /\ t \in Known /\ Parse[t][v] = Malformed
       /\ typename' = t /\ Return("scan_value", "invalid", <<>>)
       /\ UNCHANGED <<mem, scanner, bufLen, caches>>
    \/ /\ t \in Known /\ Parse[t][v] # Malformed
       /\ \/ ScanPanics(Parse[t][v]) /\ Answer("scan_value", "panic")
          \/ /\ ScanFor2(Parse[t][v]) /\ Len(matches') <= MaxMatches
             /\ typename' = t
             /\ bufLen' = IF t \in Sized THEN Size[t] ELSE Len(Parse[t][v])
             /\ Return("scan_value", "ok", Parse[t][v])
             /\ UNCHANGED <<mem, caches>>

ScanValue(t, v) ==
    \/ t \notin Known /\ Answer("scan_value", "invalid")
    \/ t \in Known /\ Parse[t][v] = Malformed /\ Answer("scan_value", "invalid")
    \/ /\ t \in Known /\ Parse[t][v] # Malformed
       /\ \/ ScanPanics(Parse[t][v]) /\ Answer("scan_value", "panic")
          \/ /\ ScanFor2(Parse[t][v]) /\ Len(matches') <= MaxMatches
             /\ typename' = t
             /\ bufLen' = IF t \in Sized THEN Size[t] ELSE Len(Parse[t][v])
             /\ Return("scan_value", "ok", Parse[t][v])
             /\ UNCHANGED <<mem, caches>>

FilterValue(v) ==
    \/ typename = NoType /\ Answer("filter_value", "uninit")
    \/ /\ typename # NoType /\ Parse[typename][v] = Malformed
       /\ Answer("filter_value", "invalid")
    \/ /\ typename # NoType /\ Parse[typename][v] # Malformed
       /\ LET d == Parse[typename][v]
          IN  \/ ScanPanics(d) /\ Answer("filter_value", "panic")
              \/ /\ ScanFor2(d) /\ Len(matches') <= MaxMatches
                 /\ Return("filter_value", "ok", d)
                 /\ UNCHANGED <<mem, selection, caches>>

\* print_value refuses a buffer that is not as long as a sized type.
Printable == typename \in Sized => bufLen = Size[typename]

\* Nothing changes; the matches are read in order up to the first error.
ReadMatches(max) ==
    LET shown == 1..(IF max < Len(matches) THEN max ELSE Len(matches))
    IN  \/ typename = NoType /\ Answer("read_matches", "uninit")
        \/ /\ typename # NoType
           /\ \/ /\ shown = {} \/ Printable
                 /\ Answer("read_matches", "ok")
              \/ /\ shown # {} /\ ~Printable
                 /\ Answer("read_matches", "invalid")
              \/ /\ \E i \in shown : /\ ~Solid(matches[i], bufLen)
                                     /\ Printable \/ i = 1
                 /\ Answer("read_matches", "memory")

\* One write per target, in order; the first that fails ends the call, and
\* what was written before it stays.
WriteValue(target, v) ==
    \/ matches = <<>> /\ Answer("write_value", "uninit")
    \/ matches # <<>> /\ typename = NoType /\ Answer("write_value", "uninit")
    \/ /\ matches # <<>> /\ typename # NoType
       /\ \/ Parse[typename][v] = Malformed
          \/ target # AllMatches /\ target \notin 1..Len(matches)
       /\ Answer("write_value", "invalid")
    \/ /\ matches # <<>> /\ typename # NoType
       /\ Parse[typename][v] # Malformed
       /\ target = AllMatches \/ target \in 1..Len(matches)
       /\ LET d  == Parse[typename][v]
              ms == IF target = AllMatches THEN matches ELSE <<matches[target]>>
          IN  \E k \in 0..Len(ms) :
                 /\ k < Len(ms) => ~Solid(ms[k + 1], Len(d))
                 /\ mem' \in Written(mem, ms, d, k)
                 /\ Count("write_value",
                          IF k = Len(ms) THEN "ok" ELSE "memory", d, k)
                 /\ UNCHANGED session

-----------------------------------------------------------------------------
(***************************************************************************)
(* Calls on a process session only.                                        *)
(***************************************************************************)
\* Faulty variant: the map is filled without being emptied.
CreateMapKeeping ==
    \E skipped \in SUBSET Unreliable(1) :
       ptrs' = ptrs \cup PointersFound(mem, skipped)

\* create_map: the map is emptied and filled again from the current memory.
CreateMap ==
    \E skipped \in SUBSET Unreliable(1) : ptrs' = PointersFound(mem, skipped)

BuildPointerMap ==
    /\ CreateMap
    /\ Return("build_pointer_map", "ok", <<>>)
    /\ UNCHANGED <<mem, scanner, selection, globals>>

GlobalsIn(modules) == UNION {GlobalsOf[x] : x \in modules}

Searched(module) == {x \in Module : module \in {AnyModule, x}}

\* Faulty variant: the globals are collected without being emptied.
CollectGlobalsKeeping(module) ==
    /\ \/ /\ \E read \in SUBSET GlobalsIn(Searched(module)) :
                globals' = globals \cup read
          /\ Return("collect_globals", "ok", <<module>>)
       \/ UNCHANGED globals /\ Return("collect_globals", "memory", <<module>>)
    /\ UNCHANGED <<mem, scanner, selection, ptrs>>

\* Emptied first, so that a failing module list leaves no globals; code that
\* cannot be read is left out.
CollectGlobals(module) ==
    /\ \/ /\ globals' \in SUBSET GlobalsIn(Searched(module))
          /\ Return("collect_globals", "ok", <<module>>)
       \/ globals' = {} /\ Return("collect_globals", "memory", <<module>>)
    /\ UNCHANGED <<mem, scanner, selection, ptrs>>

\* Each cache is filled only when it is empty; the pointer map first, which
\* stays when collecting the globals fails.
OffsetScan(useDisasm) ==
    /\ IF ptrs = {} THEN CreateMap ELSE UNCHANGED ptrs
    /\ \/ /\ useDisasm /\ globals = {}
          /\ \/ /\ globals' \in SUBSET GlobalsIn(Module)
                /\ Return("offset_scan", "ok", <<>>)
             \/ /\ globals' = {}
                /\ Return("offset_scan", "memory", <<>>)
       \/ /\ ~useDisasm \/ globals # {}
          /\ UNCHANGED globals /\ Return("offset_scan", "ok", <<>>)
    /\ UNCHANGED <<mem, scanner, selection>>

-----------------------------------------------------------------------------
\* The process goes on running between the calls.
TargetWrite(a, b) ==
    /\ mem' = [mem EXCEPT ![a] = b]
    /\ Return("target", "ok", <<b>>)
    /\ UNCHANGED session

ScanCall ==
    \/ \E t \in TypeName, v \in Value : ScanValue(t, v)
    \/ \E v \in Value : FilterValue(v)
    \/ \E p \in Pattern : SigScan(p)

SelectCall ==
    \/ Reset
    \/ \E t \in TypeName, len \in Lens \cup {NoLen} : SetType(t, len)
    \/ \E a \in Addr : AddMatch(a)
    \/ \E i \in 1..(MaxMatches + 1) : RemoveMatch(i)

AccessCall ==
    \/ \E max \in 0..MaxMatches : ReadMatches(max)
    \/ \E target \in {AllMatches} \cup 1..(MaxMatches + 1), v \in Value :
          WriteValue(target, v)
    \/ \E a \in Addr, b \in Byte : WriteMemory(a, <<b>>)

ProcessCall ==
    \/ BuildPointerMap
    \/ \E module \in Module \cup {AnyModule} : CollectGlobals(module)
    \/ \E useDisasm \in BOOLEAN : OffsetScan(useDisasm)

Next ==
    \/ ScanCall \/ SelectCall \/ AccessCall
    \/ IsProcess /\ ProcessCall
    \/ \E a \in Mapped, b \in Byte : TargetWrite(a, b)

Spec == Init /\ [][Next]_vars

=============================================================================
