---------------------------- MODULE SessionProofs ----------------------------
(***************************************************************************)
(* What holds of every session, whatever its target, types, values and     *)
(* bounds are.                                                             *)
(***************************************************************************)
EXTENDS SessionHistory, TLAPS, SequenceTheorems, FiniteSetTheorems

-----------------------------------------------------------------------------
(***************************************************************************)
(* Lemmas on the lists the scanners build.                                 *)
(***************************************************************************)

\* An order of a finite set of addresses is a list of just these addresses.
LEMMA OrderIsSeq ==
  ASSUME NEW S \in SUBSET Addr, NEW order \in Orders(S)
  PROVE  order \in Seq(Addr) /\ Range(order) = S
<1>1. IsFiniteSet(S) /\ Cardinality(S) \in Nat
  BY TargetAssumption, FS_Subset, FS_CardinalityType
<1>2. /\ order \in [1..Cardinality(S) -> S]
      /\ \A a \in S : \E i \in 1..Cardinality(S) : order[i] = a
  BY DEF Orders, Surjection
<1> QED
  BY <1>1, <1>2 DEF Range

\* What is left of a list when some of its places are picked.
LEMMA PickIsSeq ==
  ASSUME NEW s \in Seq(Addr), NEW pick \in Picks(Len(s)), NEW t,
         t = [k \in DOMAIN pick |-> s[pick[k]]]
  PROVE  /\ t \in Seq(Addr)
         /\ Len(t) <= Len(s)
         /\ Range(pick) \subseteq 1..Len(s)
         /\ Range(t) = {s[i] : i \in Range(pick)}
<1>1. PICK n \in 0..Len(s) : pick \in [1..n -> 1..Len(s)]
  BY DEF Picks
<1> QED
  BY <1>1 DEF Range

\* Taking one place out of a list.
LEMMA RangeOfRemoveAt ==
  ASSUME NEW s \in Seq(Addr), NEW i \in 1..Len(s)
  PROVE  /\ RemoveAt(s, i) \in Seq(Addr)
         /\ Len(RemoveAt(s, i)) = Len(s) - 1
         /\ Range(RemoveAt(s, i)) \subseteq Range(s)
<1> DEFINE head == SubSeq(s, 1, i - 1)
           tail == SubSeq(s, i + 1, Len(s))
<1>1. /\ head \in Seq(Addr) /\ Len(head) = i - 1
      /\ \A j \in 1 .. i - 1 : head[j] = s[j]
  BY SubSeqProperties
<1>2. /\ tail \in Seq(Addr) /\ Len(tail) = Len(s) - i
      /\ \A j \in 1 .. Len(s) - i : tail[j] = s[i + j]
  BY SubSeqProperties
<1>3. RemoveAt(s, i) = head \o tail
  BY DEF RemoveAt
<1> HIDE DEF head, tail
<1>4. Range(head) \subseteq Range(s)
  <2>1. \A j \in 1..Len(head) : j \in 1..Len(s) /\ head[j] = s[j]
    BY <1>1
  <2>2. Range(head) = {head[j] : j \in 1..Len(head)}
    BY <1>1, RangeEquality
  <2>3. Range(s) = {s[j] : j \in 1..Len(s)}
    BY RangeEquality
  <2> QED
    BY <2>1, <2>2, <2>3
<1>5. Range(tail) \subseteq Range(s)
  <2>1. \A j \in 1..Len(tail) : i + j \in 1..Len(s) /\ tail[j] = s[i + j]
    BY <1>2
  <2>2. Range(tail) = {tail[j] : j \in 1..Len(tail)}
    BY <1>2, RangeEquality
  <2>3. Range(s) = {s[j] : j \in 1..Len(s)}
    BY RangeEquality
  <2> QED
    BY <2>1, <2>2, <2>3
<1>6. /\ head \o tail \in Seq(Addr)
      /\ Len(head \o tail) = Len(head) + Len(tail)
  BY <1>1, <1>2, ConcatProperties
<1>7. Range(head \o tail) = Range(head) \cup Range(tail)
  BY <1>1, <1>2, RangeConcatenation
<1> QED
  BY <1>1, <1>2, <1>3, <1>4, <1>5, <1>6, <1>7

-----------------------------------------------------------------------------
(***************************************************************************)
(* What one pass of the scanner does to the list.                          *)
(***************************************************************************)

\* A first pass adds everything it had to find, and nothing that is not there.
LEMMA FirstPassEffect ==
  ASSUME TypeOK, NEW d \in Seq(Byte), FirstPass(d)
  PROVE  /\ scanned' = TRUE
         /\ matches' \in Seq(Addr)
         /\ Range(matches) \cup SurelyFound(mem, d) \subseteq Range(matches')
         /\ Range(matches') \subseteq Range(matches) \cup Found(mem, d, {})
<1>1. PICK skipped \in SUBSET Unreliable(Len(d)) :
        \E order \in Orders(Found(mem, d, skipped)) :
           matches' = matches \o order
  BY DEF FirstPass
<1>2. PICK order \in Orders(Found(mem, d, skipped)) :
        matches' = matches \o order
  BY <1>1
<1>3. /\ Found(mem, d, skipped) \subseteq Addr
      /\ SurelyFound(mem, d) \subseteq Found(mem, d, skipped)
      /\ Found(mem, d, skipped) \subseteq Found(mem, d, {})
  BY DEF Found, SurelyFound
<1>4. order \in Seq(Addr) /\ Range(order) = Found(mem, d, skipped)
  BY <1>2, <1>3, OrderIsSeq
<1>5. /\ matches' \in Seq(Addr)
      /\ Range(matches') = Range(matches) \cup Range(order)
  BY <1>2, <1>4, ConcatProperties, RangeConcatenation DEF TypeOK
<1> QED
  BY <1>3, <1>4, <1>5 DEF FirstPass

\* A filter keeps every readable match that holds the value, and no readable
\* match that does not.
LEMMA FilterPassEffect ==
  ASSUME TypeOK, NEW d \in Seq(Byte), FilterPass(d)
  PROVE  /\ scanned' = scanned
         /\ matches' \in Seq(Addr) /\ Len(matches') <= MaxMatches
         /\ {a \in Range(matches) : /\ Solid(a, Len(d)) /\ d # <<>>
                                    /\ Holds(mem, a, d)}
              \subseteq Range(matches')
         /\ Range(matches') \subseteq Survivors(Range(matches), d)
<1>1. PICK pick \in Picks(Len(matches)) :
        /\ \A i \in 1..Len(matches) :
              Solid(matches[i], Len(d)) =>
                 (i \in Range(pick) <=> d # <<>> /\ Holds(mem, matches[i], d))
        /\ matches' = [k \in DOMAIN pick |-> matches[pick[k]]]
  BY DEF FilterPass
<1>2. matches \in Seq(Addr) /\ Len(matches) <= MaxMatches
  BY DEF TypeOK
<1>3. /\ matches' \in Seq(Addr)
      /\ Len(matches') <= Len(matches)
      /\ Range(pick) \subseteq 1..Len(matches)
      /\ Range(matches') = {matches[i] : i \in Range(pick)}
  BY <1>1, <1>2, PickIsSeq
<1>4. Range(matches) = {matches[i] : i \in 1..Len(matches)}
  BY <1>2, RangeEquality
<1>5. Len(matches') <= MaxMatches
  BY <1>2, <1>3, SessionAssumption
<1>6. {a \in Range(matches) : /\ Solid(a, Len(d)) /\ d # <<>>
                              /\ Holds(mem, a, d)} \subseteq Range(matches')
  BY <1>1, <1>3, <1>4
<1>7. Range(matches') \subseteq Survivors(Range(matches), d)
  BY <1>1, <1>3, <1>4 DEF Survivors
<1> QED
  BY <1>3, <1>5, <1>6, <1>7 DEF FilterPass

\* Either way the session has scanned, and its list is a list of addresses.
LEMMA ScanEffect ==
  ASSUME TypeOK, NEW d \in Seq(Byte), ScanFor2(d), Len(matches') <= MaxMatches
  PROVE  scanned' = TRUE /\ matches' \in Seq(Addr) /\ Len(matches') <= MaxMatches
BY FirstPassEffect, FilterPassEffect DEF ScanFor2, TypeOK

\* What a parser accepts is a list of bytes, of the size of a sized type.
LEMMA ParsedBytes ==
  ASSUME NEW t \in Known, NEW v \in Value, Parse[t][v] # Malformed
  PROVE  /\ Parse[t][v] \in Seq(Byte)
         /\ Len(Parse[t][v]) \in Nat
         /\ t \in Sized => Size[t] \in Nat /\ Len(Parse[t][v]) = Size[t]
<1>1. Parse[t] \in [Value -> Seq(Byte) \cup {Malformed}]
  BY SessionAssumption DEF Known
<1>2. Parse[t][v] \in Seq(Byte)
  BY <1>1
<1> QED
  BY <1>2, SessionAssumption

-----------------------------------------------------------------------------
(***************************************************************************)
(* Every call keeps the types, and keeps the buffer fitting the type.      *)
(***************************************************************************)
Fitting == TypeOK /\ BufferFitsType

LEMMA InitFitting == Init => Fitting
<1> SUFFICES ASSUME Init PROVE Fitting
  OBVIOUS
<1>1. typename \notin Sized
  BY SessionAssumption DEF Init
<1>2. matches \in Seq(Addr) /\ Len(matches) = 0
  BY DEF Init
<1>3. MaxMatches \in Nat
  BY SessionAssumption
<1>4. mem \in Memory /\ scanned \in BOOLEAN /\ typename \in Known \cup {NoType}
  BY DEF Init
<1>5. bufLen \in Nat
  BY DEF Init
<1>6. globals \subseteq Addr /\ ptrs \subseteq Addr \X InRanges
  BY DEF Init
<1>7. TypeOK
  BY <1>2, <1>3, <1>4, <1>5, <1>6 DEF TypeOK
<1> QED
  BY <1>1, <1>7 DEF Fitting, BufferFitsType

LEMMA StutterFitting ==
  ASSUME Fitting, UNCHANGED <<mem, session>>
  PROVE  Fitting'
BY DEF Fitting, TypeOK, BufferFitsType, session, scanner, selection, caches

LEMMA ScanFitting ==
  ASSUME Fitting, ScanCall
  PROVE  Fitting'
<1> USE DEF Fitting
<1>1. ASSUME NEW t \in TypeName, NEW v \in Value, ScanValue(t, v)
      PROVE  Fitting'
  <2>1. CASE UNCHANGED <<mem, session>>
    BY <2>1, StutterFitting
  <2>2. CASE /\ t \in Known /\ Parse[t][v] # Malformed
             /\ ScanFor2(Parse[t][v]) /\ Len(matches') <= MaxMatches
             /\ typename' = t
             /\ bufLen' = IF t \in Sized THEN Size[t] ELSE Len(Parse[t][v])
             /\ UNCHANGED <<mem, caches>>
    BY <2>2, ParsedBytes, ScanEffect DEF TypeOK, BufferFitsType, caches
  <2> QED
    BY <1>1, <2>1, <2>2 DEF ScanValue, Answer
<1>2. ASSUME NEW v \in Value, FilterValue(v)
      PROVE  Fitting'
  <2>1. CASE UNCHANGED <<mem, session>>
    BY <2>1, StutterFitting
  <2>2. CASE /\ typename # NoType /\ Parse[typename][v] # Malformed
             /\ ScanFor2(Parse[typename][v]) /\ Len(matches') <= MaxMatches
             /\ UNCHANGED <<mem, selection, caches>>
    <3>1. Parse[typename][v] \in Seq(Byte)
      BY <2>2, ParsedBytes DEF TypeOK
    <3> QED
      BY <2>2, <3>1, ScanEffect DEF TypeOK, BufferFitsType, caches, selection
  <2> QED
    BY <1>2, <2>1, <2>2 DEF FilterValue, Answer
<1>3. ASSUME NEW p \in Pattern, SigScan(p)
      PROVE  Fitting'
  <2>1. CASE UNCHANGED <<mem, session>>
    BY <2>1, StutterFitting
  <2>2. CASE /\ \E skipped \in SUBSET UnreliableRanges :
                  \E order \in Orders(SigFound(mem, Compiled[p], Wild, skipped)) :
                     matches' = order
             /\ Len(matches') <= MaxMatches
             /\ scanned' = FALSE /\ typename' = NoType
             /\ UNCHANGED <<mem, bufLen, caches>>
    <3>1. PICK skipped \in SUBSET UnreliableRanges :
            matches' \in Orders(SigFound(mem, Compiled[p], Wild, skipped))
      BY <2>2
    <3>2. SigFound(mem, Compiled[p], Wild, skipped) \subseteq Addr
      BY DEF SigFound
    <3>3. matches' \in Seq(Addr)
      BY <3>1, <3>2, OrderIsSeq
    <3> QED
      BY <2>2, <3>3, SessionAssumption DEF TypeOK, BufferFitsType, caches
  <2> QED
    BY <1>3, <2>1, <2>2 DEF SigScan, Answer
<1> QED
  BY <1>1, <1>2, <1>3 DEF ScanCall

LEMMA SelectFitting ==
  ASSUME Fitting, SelectCall
  PROVE  Fitting'
<1> USE DEF Fitting
<1>1. CASE Reset
  <2>1. matches' \in Seq(Addr) /\ Len(matches') = 0 /\ MaxMatches \in Nat
    BY <1>1, SessionAssumption DEF Reset, ScannerReset
  <2>2. /\ scanned' \in BOOLEAN /\ bufLen' \in Nat /\ mem' \in Memory
        /\ globals' \subseteq Addr /\ ptrs' \subseteq Addr \X InRanges
    BY <1>1 DEF Reset, ScannerReset, TypeOK
  <2>3. typename' = NoType /\ NoType \notin Sized
    BY <1>1, SessionAssumption DEF Reset
  <2> QED
    BY <2>1, <2>2, <2>3 DEF TypeOK, BufferFitsType
<1>2. ASSUME NEW t \in TypeName, NEW len \in Lens \cup {NoLen}, SetType(t, len)
      PROVE  Fitting'
  <2>1. CASE UNCHANGED <<mem, session>>
    BY <2>1, StutterFitting
  <2>2. CASE /\ t \in Known /\ typename' = t
             /\ \/ t \in Sized /\ bufLen' = Size[t]
                \/ t \in Unsized /\ len # NoLen /\ bufLen' = len
                \/ t \in Unsized /\ UNCHANGED bufLen
             /\ UNCHANGED <<mem, scanner, caches>>
    BY <2>2, SessionAssumption
    DEF TypeOK, BufferFitsType, Known, scanner, caches
  <2> QED
    BY <1>2, <2>1, <2>2 DEF SetType, Answer
<1>3. ASSUME NEW a \in Addr, AddMatch(a)
      PROVE  Fitting'
  <2>1. MaxMatches \in Nat
    BY SessionAssumption
  <2>2. matches' \in Seq(Addr) /\ Len(matches') <= MaxMatches
    BY <1>3, <2>1 DEF AddMatch, TypeOK
  <2> QED
    BY <1>3, <2>2 DEF AddMatch, TypeOK, BufferFitsType, selection, caches
<1>4. ASSUME NEW i \in 1..(MaxMatches + 1), RemoveMatch(i)
      PROVE  Fitting'
  <2>1. CASE UNCHANGED <<mem, session>>
    BY <2>1, StutterFitting
  <2>2. CASE /\ i \in 1..Len(matches)
             /\ matches' = RemoveAt(matches, i)
             /\ UNCHANGED <<mem, scanned, selection, caches>>
    <3>1. matches' \in Seq(Addr) /\ Len(matches') = Len(matches) - 1
      BY <2>2, RangeOfRemoveAt DEF TypeOK
    <3> QED
      BY <2>2, <3>1, SessionAssumption
      DEF TypeOK, BufferFitsType, selection, caches
  <2> QED
    BY <1>4, <2>1, <2>2 DEF RemoveMatch, Answer
<1> QED
  BY <1>1, <1>2, <1>3, <1>4 DEF SelectCall

LEMMA AccessFitting ==
  ASSUME Fitting, AccessCall
  PROVE  Fitting'
<1> SUFFICES mem' \in Memory /\ UNCHANGED session
  BY DEF Fitting, TypeOK, BufferFitsType, session, scanner, selection, caches
<1>1. ASSUME NEW max \in 0..MaxMatches, ReadMatches(max)
      PROVE  mem' \in Memory /\ UNCHANGED session
  BY <1>1 DEF ReadMatches, Answer, Fitting, TypeOK
<1>2. ASSUME NEW target \in {AllMatches} \cup 1..(MaxMatches + 1),
             NEW v \in Value, WriteValue(target, v)
      PROVE  mem' \in Memory /\ UNCHANGED session
  BY <1>2 DEF WriteValue, Answer, Written, Fitting, TypeOK
<1>3. ASSUME NEW a \in Addr, NEW b \in Byte, WriteMemory(a, <<b>>)
      PROVE  mem' \in Memory /\ UNCHANGED session
  BY <1>3 DEF WriteMemory, Answer, Written, Fitting, TypeOK
<1> QED
  BY <1>1, <1>2, <1>3 DEF AccessCall

LEMMA ProcessFitting ==
  ASSUME Fitting, ProcessCall
  PROVE  Fitting'
<1> SUFFICES /\ UNCHANGED <<mem, scanner, selection>>
             /\ globals' \subseteq Addr /\ ptrs' \subseteq Addr \X InRanges
  BY DEF Fitting, TypeOK, BufferFitsType, scanner, selection
<1>1. globals \subseteq Addr /\ ptrs \subseteq Addr \X InRanges
  BY DEF Fitting, TypeOK
<1>2. CreateMap => ptrs' \subseteq Addr \X InRanges
  BY DEF CreateMap, PointersFound
<1>3. \A modules \in SUBSET Module : GlobalsIn(modules) \subseteq Addr
  BY SessionAssumption DEF GlobalsIn
<1>4. CASE BuildPointerMap
  BY <1>1, <1>2, <1>4 DEF BuildPointerMap
<1>5. ASSUME NEW module \in Module \cup {AnyModule}, CollectGlobals(module)
      PROVE  /\ UNCHANGED <<mem, scanner, selection>>
             /\ globals' \subseteq Addr /\ ptrs' \subseteq Addr \X InRanges
  BY <1>1, <1>3, <1>5 DEF CollectGlobals, Searched
<1>6. ASSUME NEW useDisasm \in BOOLEAN, OffsetScan(useDisasm)
      PROVE  /\ UNCHANGED <<mem, scanner, selection>>
             /\ globals' \subseteq Addr /\ ptrs' \subseteq Addr \X InRanges
  BY <1>1, <1>2, <1>3, <1>6 DEF OffsetScan
<1> QED
  BY <1>4, <1>5, <1>6 DEF ProcessCall

LEMMA NextFitting ==
  ASSUME Fitting, [Next]_vars
  PROVE  Fitting'
<1>1. ASSUME NEW a \in Mapped, NEW b \in Byte, TargetWrite(a, b)
      PROVE  Fitting'
  <2>1. mem' \in Memory /\ UNCHANGED session
    BY <1>1 DEF TargetWrite, Memory, Fitting, TypeOK
  <2> QED
    BY <2>1
    DEF Fitting, TypeOK, BufferFitsType, session, scanner, selection, caches
<1>2. CASE UNCHANGED vars
  BY <1>2, StutterFitting DEF vars
<1> QED
  BY <1>1, <1>2, ScanFitting, SelectFitting, AccessFitting, ProcessFitting
  DEF Next

\* Every session keeps its types, and the read-back buffer always has the
\* size of the selected sized type (session.rs:86-87).
THEOREM SessionFitting == Spec => [](TypeOK /\ BufferFitsType)
<1>1. Spec => []Fitting
  BY InitFitting, NextFitting, PTL DEF Spec
<1>2. Fitting => TypeOK /\ BufferFitsType
  BY DEF Fitting
<1> QED
  BY <1>1, <1>2, PTL

-----------------------------------------------------------------------------
(***************************************************************************)
(* No match is lost and none is invented.                                  *)
(***************************************************************************)
Kept == NoMatchLost /\ EveryMatchExplained

\* A pass of the scanner that was noted down.
LEMMA ScanKept ==
  ASSUME Fitting, Kept, Note, NEW d \in Seq(Byte), ScanFor2(d),
         ret'.op \in {"scan_value", "filter_value"},
         ret'.out = "ok", ret'.data = d
  PROVE  Kept'
<1>1. CASE ~scanned /\ FirstPass(d)
  <2>1. /\ live' = SurelyFound(mem, d)
        /\ extra' = Range(matches)
                      \cup {a \in Found(mem, d, {}) : a \notin live'}
    BY <1>1 DEF Note, Scanned
  <2>2. /\ Range(matches) \cup SurelyFound(mem, d) \subseteq Range(matches')
        /\ Range(matches') \subseteq Range(matches) \cup Found(mem, d, {})
    BY <1>1, FirstPassEffect DEF Fitting
  <2> QED
    BY <2>1, <2>2 DEF Kept, NoMatchLost, EveryMatchExplained
<1>2. CASE scanned /\ FilterPass(d)
  <2>1. /\ live' = {a \in live : /\ Solid(a, Len(d)) /\ d # <<>>
                                 /\ Holds(mem, a, d)}
        /\ extra' = Survivors(extra \cup (live \ live'), d)
    BY <1>2 DEF Note, Scanned
  <2>2. /\ {a \in Range(matches) : /\ Solid(a, Len(d)) /\ d # <<>>
                                   /\ Holds(mem, a, d)}
              \subseteq Range(matches')
        /\ Range(matches') \subseteq Survivors(Range(matches), d)
    BY <1>2, FilterPassEffect DEF Fitting
  <2>3. live' \subseteq Range(matches')
    BY <1>2, <2>1, <2>2 DEF Kept, NoMatchLost
  <2>4. ASSUME NEW a \in Range(matches')
        PROVE  a \in live' \cup extra'
    <3>1. a \in Range(matches) /\ a \in Survivors({a}, d)
      BY <2>2 DEF Survivors
    <3>2. a \in live \cup extra
      BY <3>1 DEF Kept, EveryMatchExplained
    <3> QED
      BY <2>1, <3>1, <3>2 DEF Survivors
  <2> QED
    BY <2>3, <2>4 DEF Kept, NoMatchLost, EveryMatchExplained
<1> QED
  BY <1>1, <1>2 DEF ScanFor2

\* A call that leaves the list alone, or fails.
LEMMA QuietKept ==
  ASSUME Kept, Note, UNCHANGED scanner, ret'.op # "reset",
         ret'.op \in {"sig_scan", "scan_value", "filter_value"} =>
            ret'.out # "ok"
  PROVE  Kept'
<1>1. \/ UNCHANGED <<live, extra>>
      \/ live' = live /\ extra' = extra \cup Range(matches')
      \/ /\ live' = live \cap Range(matches')
         /\ extra' = extra \cap Range(matches')
  BY DEF Note, Scanned
<1> QED
  BY <1>1 DEF Kept, NoMatchLost, EveryMatchExplained, scanner

LEMMA NextKept ==
  ASSUME Fitting, Kept, HNext
  PROVE  Kept'
<1> USE DEF Return, Count
<1>1. Note /\ matches \in Seq(Addr)
  BY DEF HNext, Fitting, TypeOK
<1>2. ASSUME NEW t \in TypeName, NEW v \in Value, ScanValue(t, v)
      PROVE  Kept'
  <2>1. CASE UNCHANGED session /\ ret'.op = "scan_value" /\ ret'.out # "ok"
    BY <1>1, <2>1, QuietKept DEF session
  <2>2. CASE /\ t \in Known /\ Parse[t][v] # Malformed
             /\ ScanFor2(Parse[t][v]) /\ Len(matches') <= MaxMatches
             /\ ret'.op = "scan_value" /\ ret'.out = "ok"
             /\ ret'.data = Parse[t][v]
    BY <1>1, <2>2, ParsedBytes, ScanKept
  <2> QED
    BY <1>2, <2>1, <2>2 DEF ScanValue, Answer
<1>3. ASSUME NEW v \in Value, FilterValue(v)
      PROVE  Kept'
  <2>1. CASE UNCHANGED session /\ ret'.op = "filter_value" /\ ret'.out # "ok"
    BY <1>1, <2>1, QuietKept DEF session
  <2>2. CASE /\ typename # NoType /\ Parse[typename][v] # Malformed
             /\ ScanFor2(Parse[typename][v]) /\ Len(matches') <= MaxMatches
             /\ ret'.op = "filter_value" /\ ret'.out = "ok"
             /\ ret'.data = Parse[typename][v]
    <3>1. typename \in Known
      BY <2>2 DEF Fitting, TypeOK
    <3> QED
      BY <1>1, <2>2, <3>1, ParsedBytes, ScanKept
  <2> QED
    BY <1>3, <2>1, <2>2 DEF FilterValue, Answer
<1>4. ASSUME NEW p \in Pattern, SigScan(p)
      PROVE  Kept'
  <2>1. CASE UNCHANGED session /\ ret'.op = "sig_scan" /\ ret'.out # "ok"
    BY <1>1, <2>1, QuietKept DEF session
  <2>2. CASE scanned' = FALSE /\ ret'.op = "sig_scan" /\ ret'.out = "ok"
    <3>1. live' = {} /\ extra' = Range(matches')
      BY <1>1, <2>2 DEF Note, Scanned
    <3> QED
      BY <2>2, <3>1 DEF Kept, NoMatchLost, EveryMatchExplained
  <2>3. CASE Answer("sig_scan", "invalid")
    BY <2>1, <2>3 DEF Answer
  <2>4. CASE scanned' = FALSE /\ Return("sig_scan", "ok", <<>>)
    BY <2>2, <2>4
  <2> QED
    BY <1>4, <2>3, <2>4 DEF SigScan
<1>5. CASE Reset
  <2>1. ret'.op = "reset" /\ scanned' = FALSE /\ matches' = <<>>
    BY <1>5 DEF Reset, ScannerReset
  <2>2. Range(matches') = {}
    BY <2>1 DEF Range
  <2> QED
    BY <1>1, <2>1, <2>2 DEF Note, Kept, NoMatchLost, EveryMatchExplained
<1>6. ASSUME NEW t \in TypeName, NEW len \in Lens \cup {NoLen}, SetType(t, len)
      PROVE  Kept'
  <2>1. ret'.op = "set_type" /\ UNCHANGED scanner
    BY <1>6 DEF SetType, Answer, session
  <2> QED
    BY <1>1, <2>1, QuietKept
<1>7. ASSUME NEW a \in Addr, AddMatch(a)
      PROVE  Kept'
  <2>1. /\ ret'.op = "add_match" /\ scanned' = scanned
        /\ matches' = Append(matches, a)
    BY <1>7 DEF AddMatch
  <2>2. live' = live /\ extra' = extra \cup Range(matches')
    BY <1>1, <2>1 DEF Note, Scanned
  <2>3. /\ Append(matches, a) \in Seq(Addr)
        /\ Len(Append(matches, a)) = Len(matches) + 1
        /\ \A i \in 1..Len(matches) : Append(matches, a)[i] = matches[i]
    BY <1>1, AppendProperties
  <2>4. /\ Range(matches) = {matches[i] : i \in 1..Len(matches)}
        /\ Range(matches') = {matches'[i] : i \in 1..Len(matches')}
    <3>1. matches' \in Seq(Addr)
      BY <2>1, <2>3
    <3> QED
      BY <1>1, <3>1, RangeEquality
  <2>5. Range(matches) \subseteq Range(matches')
    BY <2>1, <2>3, <2>4
  <2> QED
    BY <2>1, <2>2, <2>5 DEF Kept, NoMatchLost, EveryMatchExplained
<1>8. ASSUME NEW i \in 1..(MaxMatches + 1), RemoveMatch(i)
      PROVE  Kept'
  <2>1. CASE UNCHANGED session /\ ret'.op = "remove_match"
    BY <1>1, <2>1, QuietKept DEF session
  <2>2. CASE /\ i \in 1..Len(matches)
             /\ matches' = RemoveAt(matches, i) /\ scanned' = scanned
             /\ ret'.op = "remove_match"
    <3>1. Range(matches') \subseteq Range(matches)
      BY <1>1, <2>2, RangeOfRemoveAt
    <3>2. /\ live' = live \cap Range(matches')
          /\ extra' = extra \cap Range(matches')
      BY <1>1, <2>2 DEF Note, Scanned
    <3> QED
      BY <2>2, <3>1, <3>2 DEF Kept, NoMatchLost, EveryMatchExplained
  <2> QED
    BY <1>8, <2>1, <2>2 DEF RemoveMatch, Answer
<1>9. CASE AccessCall
  <2>1. /\ UNCHANGED session
        /\ ret'.op \in {"read_matches", "write_value", "write_memory"}
    <3>1. \A max : ReadMatches(max) =>
            UNCHANGED session /\ ret'.op = "read_matches"
      BY DEF ReadMatches, Answer
    <3>2. \A target, v : WriteValue(target, v) =>
            UNCHANGED session /\ ret'.op = "write_value"
      BY DEF WriteValue, Answer
    <3>3. \A a, d : WriteMemory(a, d) =>
            UNCHANGED session /\ ret'.op = "write_memory"
      BY DEF WriteMemory, Answer
    <3> QED
      BY <1>9, <3>1, <3>2, <3>3 DEF AccessCall
  <2> QED
    BY <1>1, <2>1, QuietKept DEF session
<1>10. CASE ProcessCall
  <2>1. /\ UNCHANGED scanner
        /\ ret'.op \in {"build_pointer_map", "collect_globals", "offset_scan"}
    BY <1>10 DEF ProcessCall, BuildPointerMap, CollectGlobals, OffsetScan
  <2> QED
    BY <1>1, <2>1, QuietKept
<1>11. ASSUME NEW a \in Mapped, NEW b \in Byte, TargetWrite(a, b)
       PROVE  Kept'
  <2>1. UNCHANGED session /\ ret'.op = "target"
    BY <1>11 DEF TargetWrite
  <2> QED
    BY <1>1, <2>1, QuietKept DEF session
<1> QED
  BY <1>2, <1>3, <1>4, <1>5, <1>6, <1>7, <1>8, <1>9, <1>10, <1>11
  DEF HNext, Next, ScanCall, SelectCall

LEMMA HistoryInductive == HSpec => [](Fitting /\ Kept)
<1>1. HInit => Fitting /\ Kept
  <2>1. HInit => Kept
    BY DEF HInit, Init, Kept, NoMatchLost, EveryMatchExplained, Range
  <2> QED
    BY <2>1, InitFitting DEF HInit
<1>2. Fitting /\ Kept /\ [HNext]_hvars => Fitting' /\ Kept'
  <2>1. ASSUME Fitting, Kept, HNext
        PROVE  Fitting' /\ Kept'
    BY <2>1, NextFitting, NextKept DEF HNext
  <2>2. ASSUME Fitting, Kept, UNCHANGED hvars
        PROVE  Fitting' /\ Kept'
    <3>1. Fitting'
      BY <2>2, StutterFitting DEF hvars, vars
    <3>2. Kept'
      BY <2>2
      DEF hvars, vars, history, session, scanner, Kept, NoMatchLost,
          EveryMatchExplained
    <3> QED
      BY <3>1, <3>2
  <2> QED
    BY <2>1, <2>2
<1> QED
  BY <1>1, <1>2, PTL DEF HSpec

\* Every call and every change of the target leaves each variable in its type
\* and the list within its bound (session.rs:80-91, value_scanner.rs:14-18).
THEOREM SessionTypes == HSpec => []TypeOK
<1>1. Fitting => TypeOK
  BY DEF Fitting
<1> QED
  BY <1>1, HistoryInductive, PTL

\* The match list keeps every address that a first pass had to find and that
\* passed every filter since, for every memory, page size and order in which
\* the workers report (value_scanner.rs:51-147).
THEOREM SessionLosesNoMatch == HSpec => []NoMatchLost
<1>1. Fitting /\ Kept => NoMatchLost
  BY DEF Kept
<1> QED
  BY <1>1, HistoryInductive, PTL

\* And it holds nothing else: each match is one of those, or was put there by
\* hand or by a signature scan, or was read from a hole.
THEOREM SessionInventsNoMatch == HSpec => []EveryMatchExplained
<1>1. Fitting /\ Kept => EveryMatchExplained
  BY DEF Kept
<1> QED
  BY <1>1, HistoryInductive, PTL

-----------------------------------------------------------------------------
(***************************************************************************)
(* Calls that fail.                                                        *)
(***************************************************************************)
FailureIsHarmless ==
    ret'.out # "ok" =>
        /\ UNCHANGED scanner
        /\ ret'.op # "set_type" => UNCHANGED selection
        /\ ret'.op # "write_value" => UNCHANGED mem

LEMMA AnswerIsHarmless ==
  ASSUME NEW op, NEW out, Answer(op, out)
  PROVE  FailureIsHarmless
BY DEF Answer, FailureIsHarmless, session

LEMMA ScanIsHarmless ==
  ASSUME ScanCall
  PROVE  FailureIsHarmless
<1> USE DEF Return, Count
<1>1. ASSUME NEW t, NEW v, ScanValue(t, v)
      PROVE  FailureIsHarmless
  BY <1>1, AnswerIsHarmless DEF ScanValue, FailureIsHarmless
<1>2. ASSUME NEW v, FilterValue(v)
      PROVE  FailureIsHarmless
  BY <1>2, AnswerIsHarmless DEF FilterValue, FailureIsHarmless
<1>3. ASSUME NEW p, SigScan(p)
      PROVE  FailureIsHarmless
  <2>1. CASE Answer("sig_scan", "invalid")
    BY <2>1, AnswerIsHarmless
  <2>2. CASE Return("sig_scan", "ok", <<>>)
    BY <2>2 DEF FailureIsHarmless
  <2> QED
    BY <1>3, <2>1, <2>2 DEF SigScan
<1> QED
  BY <1>1, <1>2, <1>3 DEF ScanCall

LEMMA SelectIsHarmless ==
  ASSUME SelectCall
  PROVE  FailureIsHarmless
<1> USE DEF Return, Count
<1>1. CASE Reset
  BY <1>1 DEF Reset, FailureIsHarmless
<1>2. ASSUME NEW t, NEW len, SetType(t, len)
      PROVE  FailureIsHarmless
  <2>1. CASE Answer("set_type", "invalid")
    BY <2>1, AnswerIsHarmless
  <2>2. CASE ret'.op = "set_type" /\ UNCHANGED <<mem, scanner, caches>>
    BY <2>2 DEF FailureIsHarmless
  <2> QED
    BY <1>2, <2>1, <2>2 DEF SetType
<1>3. ASSUME NEW a, AddMatch(a)
      PROVE  FailureIsHarmless
  BY <1>3 DEF AddMatch, FailureIsHarmless
<1>4. ASSUME NEW i, RemoveMatch(i)
      PROVE  FailureIsHarmless
  BY <1>4, AnswerIsHarmless DEF RemoveMatch, FailureIsHarmless
<1> QED
  BY <1>1, <1>2, <1>3, <1>4 DEF SelectCall

LEMMA AccessIsHarmless ==
  ASSUME AccessCall
  PROVE  FailureIsHarmless
<1> USE DEF Return, Count
<1>1. ASSUME NEW max, ReadMatches(max)
      PROVE  FailureIsHarmless
  BY <1>1, AnswerIsHarmless DEF ReadMatches
<1>2. ASSUME NEW target, NEW v, WriteValue(target, v)
      PROVE  FailureIsHarmless
  <2>1. CASE Answer("write_value", "uninit") \/ Answer("write_value", "invalid")
    BY <2>1, AnswerIsHarmless
  <2>2. CASE ret'.op = "write_value" /\ UNCHANGED session
    BY <2>2 DEF FailureIsHarmless, session
  <2> QED
    BY <1>2, <2>1, <2>2 DEF WriteValue
<1>3. ASSUME NEW a, NEW d, WriteMemory(a, d)
      PROVE  FailureIsHarmless
  BY <1>3, AnswerIsHarmless DEF WriteMemory, FailureIsHarmless
<1> QED
  BY <1>1, <1>2, <1>3 DEF AccessCall

LEMMA ProcessIsHarmless ==
  ASSUME ProcessCall
  PROVE  FailureIsHarmless
<1> SUFFICES UNCHANGED <<mem, scanner, selection>>
  BY DEF FailureIsHarmless
<1> QED
  BY DEF ProcessCall, BuildPointerMap, CollectGlobals, OffsetScan

\* A call that fails leaves the scanner, the selection and the memory as
\* they were, save set_type, which has selected the type by then, and
\* write_value, which has written some of the matches (session.rs:153, 318).
THEOREM SessionFailuresHarmless == HSpec => FailureChangesNothing
<1>1. ASSUME NEW a, NEW b, TargetWrite(a, b)
      PROVE  FailureIsHarmless
  BY <1>1 DEF TargetWrite, Return, Count, FailureIsHarmless
<1>2. HNext => FailureIsHarmless
  BY <1>1, ScanIsHarmless, SelectIsHarmless, AccessIsHarmless, ProcessIsHarmless
     DEF HNext, Next
<1>3. [HNext]_hvars => [FailureIsHarmless]_hvars
  BY <1>2
<1> QED
  BY <1>3, PTL DEF HSpec, FailureChangesNothing, FailureIsHarmless

-----------------------------------------------------------------------------
(***************************************************************************)
(* Writes.                                                                 *)
(***************************************************************************)
WriteGoesToMatches ==
    ret'.op = "write_value" =>
        LET W(i) == Window(matches[i], Len(ret'.data))
        IN  /\ \A b \in Mapped :
                  mem'[b] # mem[b] => \E i \in 1..Len(matches) : b \in W(i)
            /\ ret'.out = "ok" /\ ret'.n = Len(matches) =>
                  \A i \in 1..Len(matches) :
                     \/ Holds(mem', matches[i], ret'.data)
                     \/ ~Solid(matches[i], Len(ret'.data))
                     \/ \E j \in i + 1 .. Len(matches) : W(i) \cap W(j) # {}

\* From m to w only bytes in the first k windows changed.
Inside(m, w, ms, d, k) ==
    \A b \in Mapped : w[b] # m[b] =>
        \E i \in 1..k : b \in Window(ms[i], Len(d))

\* Each of the first k holds d in w, but for holes and later windows.
Arrived(w, ms, d, k) ==
    \A i \in 1..k :
        \/ Holds(w, ms[i], d)
        \/ ~Solid(ms[i], Len(d))
        \/ \E j \in i + 1 .. k :
              Window(ms[i], Len(d)) \cap Window(ms[j], Len(d)) # {}

\* The last write that covers a byte is the one that stays.
LEMMA LastWriteStays ==
  ASSUME NEW m \in Memory, NEW ms \in Seq(Addr), NEW d \in Seq(Byte),
         NEW k \in 0..Len(ms), NEW w \in Written(m, ms, d, k)
  PROVE  Inside(m, w, ms, d, k) /\ Arrived(w, ms, d, k)
<1> DEFINE Covers(i, b) == b \in Window(ms[i], Len(d))
<1>1. \A b \in Mapped :
         \/ w[b] = m[b] /\ \A i \in 1..k : ~Covers(i, b)
         \/ \E i \in 1..k : /\ Covers(i, b)
                            /\ w[b] = d[b - ms[i] + 1]
                            /\ \A j \in i + 1 .. k : ~Covers(j, b)
  BY DEF Written
<1>2. ASSUME NEW i \in 1..k, Solid(ms[i], Len(d)),
             \A j \in i + 1 .. k :
                Window(ms[i], Len(d)) \cap Window(ms[j], Len(d)) = {}
      PROVE  Holds(w, ms[i], d)
  <2>1. ms[i] \in Nat /\ Len(d) \in Nat /\ i \in Int
    <3>1. i \in 1..Len(ms)
      OBVIOUS
    <3>2. ms[i] \in Addr
      BY <3>1
    <3>3. ms[i] \in Nat
      BY <3>2, TargetAssumption
    <3>4. Len(d) \in Nat /\ i \in Int
      OBVIOUS
    <3> QED
      BY <3>3, <3>4
  <2>2. ASSUME NEW x \in 1..Len(d)
        PROVE  ms[i] + x - 1 \in Mapped /\ w[ms[i] + x - 1] = d[x]
    <3> DEFINE b == ms[i] + x - 1
    <3>1. Covers(i, b) /\ b \in Mapped
      BY <1>2, <2>1 DEF Solid, Window
    <3>2. PICK h \in 1..k : /\ Covers(h, b) /\ w[b] = d[b - ms[h] + 1]
                            /\ \A j \in h + 1 .. k : ~Covers(j, b)
      BY <1>1, <3>1
    <3>3. ~(h > i)
      BY <1>2, <3>1, <3>2
    <3>4. ~(i > h)
      BY <1>2, <3>1, <3>2
    <3>5. h = i
      BY <2>1, <3>3, <3>4
    <3>6. b - ms[h] + 1 = x
      BY <2>1, <3>5
    <3> QED
      BY <3>1, <3>2, <3>6
  <2>3. BytesAt(w, ms[i], Len(d)) = [x \in 1..Len(d) |-> d[x]]
    BY <2>2 DEF BytesAt
  <2>4. d = [x \in 1..Len(d) |-> d[x]]
    OBVIOUS
  <2> QED
    BY <2>3, <2>4 DEF Holds
<1> QED
  BY <1>1, <1>2 DEF Inside, Arrived

LEMMA WriteValueReaches ==
  ASSUME Fitting, NEW target \in {AllMatches} \cup 1..(MaxMatches + 1),
         NEW v \in Value, WriteValue(target, v)
  PROVE  WriteGoesToMatches
<1> USE DEF Return, Count
<1>1. CASE Answer("write_value", "uninit") \/ Answer("write_value", "invalid")
  BY <1>1 DEF Answer, WriteGoesToMatches
<1>2. CASE /\ matches # <<>> /\ typename # NoType
           /\ Parse[typename][v] # Malformed
           /\ target = AllMatches \/ target \in 1..Len(matches)
           /\ LET d  == Parse[typename][v]
                  ms == IF target = AllMatches THEN matches ELSE <<matches[target]>>
              IN  \E k \in 0..Len(ms) :
                     /\ mem' \in Written(mem, ms, d, k)
                     /\ Count("write_value",
                              IF k = Len(ms) THEN "ok" ELSE "memory", d, k)
  <2> DEFINE d  == Parse[typename][v]
             ms == IF target = AllMatches THEN matches ELSE <<matches[target]>>
  <2>1. PICK k \in 0..Len(ms) :
           /\ mem' \in Written(mem, ms, d, k)
           /\ ret' = [op |-> "write_value",
                      out |-> IF k = Len(ms) THEN "ok" ELSE "memory",
                      data |-> d, n |-> k]
    BY <1>2
  <2>2. /\ d \in Seq(Byte) /\ matches \in Seq(Addr) /\ Len(matches) \in Nat \ {0}
        /\ mem \in Memory
    BY <1>2, ParsedBytes DEF Fitting, TypeOK
  <2>3. ms \in Seq(Addr) /\ Len(ms) \in Nat
    BY <1>2, <2>2
  <2>4. k \in 0..Len(ms) /\ mem' \in Written(mem, ms, d, k)
    BY <2>1
  <2>5. ret'.data = d /\ ret'.n = k /\ (ret'.out = "ok" => k = Len(ms))
    <3> HIDE DEF d, ms
    <3> QED
      BY <2>1
  <2>6. \/ target = AllMatches /\ ms = matches
        \/ target \in 1..Len(matches) /\ ms = <<matches[target]>>
    BY <1>2
  <2> HIDE DEF d, ms
  <2>7. Inside(mem, mem', ms, d, k) /\ Arrived(mem', ms, d, k)
    BY <2>2, <2>3, <2>4, LastWriteStays
  <2>8. CASE ms = matches
    <3>1. \A b \in Mapped : mem'[b] # mem[b] =>
             \E i \in 1..Len(matches) : b \in Window(matches[i], Len(d))
      BY <2>3, <2>4, <2>7, <2>8 DEF Inside
    <3> QED
      BY <2>5, <2>7, <2>8, <3>1 DEF WriteGoesToMatches, Arrived
  <2>9. CASE target \in 1..Len(matches) /\ ms = <<matches[target]>>
    <3>1. /\ Len(ms) = 1 /\ ms[1] = matches[target]
          /\ k \in {0, 1} /\ \A i \in 1..k : i = 1 /\ k = 1
      BY <2>4, <2>9
    <3>2. \A b \in Mapped : mem'[b] # mem[b] =>
             \E i \in 1..Len(matches) : b \in Window(matches[i], Len(d))
      BY <2>7, <2>9, <3>1 DEF Inside
    <3>3. ASSUME k = 1, Len(matches) = 1, NEW i \in 1..Len(matches)
          PROVE  Holds(mem', matches[i], d) \/ ~Solid(matches[i], Len(d))
      <4>1. i = 1 /\ target = 1 /\ 1 \in 1..k /\ 1 + 1 .. k = {}
        BY <2>9, <3>3
      <4>2. Holds(mem', ms[1], d) \/ ~Solid(ms[1], Len(d))
        BY <2>7, <4>1 DEF Arrived
      <4> QED
        BY <3>1, <4>1, <4>2
    <3> QED
      BY <2>2, <2>5, <3>1, <3>2, <3>3 DEF WriteGoesToMatches
  <2> QED
    BY <2>6, <2>8, <2>9
<1> QED
  BY <1>1, <1>2 DEF WriteValue

\* A write touches nothing but the windows of the matches, and one that
\* answers that it wrote all of them has, but for matches that a later one
\* overlaps or that run into a hole (session.rs:317-321).
THEOREM SessionWritesReach == HSpec => WriteReachesMatches
<1>1. ASSUME Fitting, HNext
      PROVE  WriteGoesToMatches
  <2> USE DEF Return, Count, Answer
  <2>1. \A max : ReadMatches(max) => ret'.op = "read_matches"
    BY DEF ReadMatches
  <2>2. /\ \A a, d : WriteMemory(a, d) => ret'.op = "write_memory"
        /\ \A a, b : TargetWrite(a, b) => ret'.op = "target"
    BY DEF WriteMemory, TargetWrite
  <2>3. /\ \A t, v : ScanValue(t, v) => ret'.op = "scan_value"
        /\ \A v : FilterValue(v) => ret'.op = "filter_value"
    BY DEF ScanValue, FilterValue
  <2>4. \A p : SigScan(p) => ret'.op = "sig_scan"
    BY DEF SigScan
  <2>5. SelectCall => ret'.op \in {"reset", "set_type", "add_match", "remove_match"}
    BY DEF SelectCall, Reset, SetType, AddMatch, RemoveMatch
  <2>6. ProcessCall => ret'.op \in {"build_pointer_map", "collect_globals",
                                    "offset_scan"}
    BY DEF ProcessCall, BuildPointerMap, CollectGlobals, OffsetScan
  <2>7. ASSUME ret'.op # "write_value"
        PROVE  WriteGoesToMatches
    BY <2>7 DEF WriteGoesToMatches
  <2> QED
    BY <1>1, <2>1, <2>2, <2>3, <2>4, <2>5, <2>6, <2>7, WriteValueReaches
    DEF HNext, Next, ScanCall, AccessCall
<1>2. Fitting /\ [HNext]_hvars => [WriteGoesToMatches]_hvars
  BY <1>1
<1> QED
  BY <1>2, HistoryInductive, PTL DEF HSpec, WriteReachesMatches, WriteGoesToMatches

-----------------------------------------------------------------------------
(***************************************************************************)
(* The caches.                                                             *)
(***************************************************************************)
ExactMap ==
    /\ PointersFound(mem, Unreliable(1)) \subseteq ptrs
    /\ ptrs \subseteq PointersFound(mem, {})

Caches == CleanMapIsExact /\ GlobalsNeverMixed

\* Whatever reads failed, a map just built is the map of the memory.
LEMMA CreateMapIsExact ==
  ASSUME CreateMap, UNCHANGED mem
  PROVE  ExactMap'
BY DEF CreateMap, ExactMap, PointersFound

\* A call that leaves the caches alone.
LEMMA CachesKept ==
  ASSUME Caches, Note, UNCHANGED caches,
         ret'.op \notin {"reset", "build_pointer_map", "collect_globals",
                         "offset_scan"}
  PROVE  Caches'
<1>1. asked' = asked /\ dirty' = (dirty \/ mem' # mem)
  BY DEF Note
<1>2. GlobalsNeverMixed'
  BY <1>1 DEF Caches, GlobalsNeverMixed, caches
<1>3. CleanMapIsExact'
  BY <1>1 DEF Caches, CleanMapIsExact, caches
<1> QED
  BY <1>2, <1>3 DEF Caches

LEMMA ProcessCaches ==
  ASSUME Caches, Note, ProcessCall
  PROVE  Caches'
<1> USE DEF Return, Count
<1>1. CASE BuildPointerMap
  <2>1. ret'.op = "build_pointer_map" /\ CreateMap /\ UNCHANGED <<mem, globals>>
    BY <1>1 DEF BuildPointerMap
  <2>2. asked' = asked /\ ExactMap'
    BY <2>1, CreateMapIsExact DEF Note
  <2> QED
    BY <2>1, <2>2 DEF Caches, CleanMapIsExact, GlobalsNeverMixed, ExactMap
<1>2. ASSUME NEW module \in Module \cup {AnyModule}, CollectGlobals(module)
      PROVE  Caches'
  <2>1. /\ ret'.op = "collect_globals" /\ ret'.data[1] = module
        /\ UNCHANGED <<mem, ptrs>>
        /\ globals' \subseteq GlobalsIn(Searched(module))
    BY <1>2 DEF CollectGlobals
  <2>2. asked' = module /\ dirty' = (dirty \/ mem' # mem)
    BY <2>1 DEF Note
  <2> QED
    BY <2>1, <2>2 DEF Caches, CleanMapIsExact, GlobalsNeverMixed
<1>3. ASSUME NEW useDisasm \in BOOLEAN, OffsetScan(useDisasm)
      PROVE  Caches'
  <2>1. /\ ret'.op = "offset_scan" /\ UNCHANGED mem
        /\ IF ptrs = {} THEN CreateMap ELSE UNCHANGED ptrs
        /\ \/ globals = {} /\ globals' \subseteq GlobalsIn(Module)
           \/ UNCHANGED globals
    BY <1>3 DEF OffsetScan
  <2>2. /\ IF ptrs = {} THEN dirty' = FALSE ELSE dirty' <=> dirty
        /\ asked' = IF globals = {} THEN AnyModule ELSE asked
    BY <2>1 DEF Note
  <2>3. Searched(AnyModule) = Module
    BY DEF Searched
  <2>4. CleanMapIsExact'
    BY <2>1, <2>2, CreateMapIsExact DEF Caches, CleanMapIsExact, ExactMap
  <2>5. GlobalsNeverMixed'
    BY <2>1, <2>2, <2>3 DEF Caches, GlobalsNeverMixed
  <2> QED
    BY <2>4, <2>5 DEF Caches
<1> QED
  BY <1>1, <1>2, <1>3 DEF ProcessCall

LEMMA NextCaches ==
  ASSUME Caches, HNext
  PROVE  Caches'
<1> USE DEF Return, Count
<1>1. Note
  BY DEF HNext
<1>2. CASE ScanCall
  <2>1. \A t, v : ScanValue(t, v) => ret'.op = "scan_value" /\ UNCHANGED caches
    BY DEF ScanValue, Answer, session
  <2>2. \A v : FilterValue(v) => ret'.op = "filter_value" /\ UNCHANGED caches
    BY DEF FilterValue, Answer, session
  <2>3. \A p : SigScan(p) => ret'.op = "sig_scan" /\ UNCHANGED caches
    BY DEF SigScan, Answer, session, caches
  <2> QED
    BY <1>1, <1>2, <2>1, <2>2, <2>3, CachesKept DEF ScanCall
<1>3. CASE Reset
  <2>1. globals' = {} /\ ptrs' = {}
    BY <1>3 DEF Reset
  <2> QED
    BY <2>1 DEF Caches, CleanMapIsExact, GlobalsNeverMixed
<1>4. CASE SelectCall /\ ~Reset
  <2>1. \A t, len : SetType(t, len) => ret'.op = "set_type" /\ UNCHANGED caches
    BY DEF SetType, Answer, session
  <2>2. \A a : AddMatch(a) => ret'.op = "add_match" /\ UNCHANGED caches
    BY DEF AddMatch
  <2>3. \A i : RemoveMatch(i) => ret'.op = "remove_match" /\ UNCHANGED caches
    BY DEF RemoveMatch, Answer, session
  <2> QED
    BY <1>1, <1>4, <2>1, <2>2, <2>3, CachesKept DEF SelectCall
<1>5. CASE AccessCall
  <2>1. \A max : ReadMatches(max) => ret'.op = "read_matches" /\ UNCHANGED caches
    BY DEF ReadMatches, Answer, session
  <2>2. \A target, v : WriteValue(target, v) =>
           ret'.op = "write_value" /\ UNCHANGED caches
    BY DEF WriteValue, Answer, session
  <2>3. \A a, d : WriteMemory(a, d) => ret'.op = "write_memory" /\ UNCHANGED caches
    BY DEF WriteMemory, Answer, session
  <2> QED
    BY <1>1, <1>5, <2>1, <2>2, <2>3, CachesKept DEF AccessCall
<1>6. CASE ProcessCall
  BY <1>1, <1>6, ProcessCaches
<1>7. ASSUME NEW a \in Mapped, NEW b \in Byte, TargetWrite(a, b)
      PROVE  Caches'
  <2>1. ret'.op = "target" /\ UNCHANGED caches
    BY <1>7 DEF TargetWrite, session
  <2> QED
    BY <1>1, <2>1, CachesKept
<1> QED
  BY <1>2, <1>3, <1>4, <1>5, <1>6, <1>7 DEF HNext, Next

LEMMA CachesInductive == HSpec => []Caches
<1>1. HInit => Caches
  BY DEF HInit, Init, Caches, CleanMapIsExact, GlobalsNeverMixed
<1>2. Caches /\ [HNext]_hvars => Caches'
  <2>1. ASSUME Caches, UNCHANGED hvars
        PROVE  Caches'
    BY <2>1 DEF hvars, vars, history, session, caches, Caches, CleanMapIsExact,
                GlobalsNeverMixed
  <2> QED
    BY <2>1, NextCaches
<1> QED
  BY <1>1, <1>2, PTL DEF HSpec

\* A pointer map that was built since the memory last changed is the map of
\* the memory, but for what could not be read; nothing of an older map stays
\* (pointer_map.rs:39, session.rs:359-361).
THEOREM SessionMapIsExact == HSpec => []CleanMapIsExact
<1>1. Caches => CleanMapIsExact
  BY DEF Caches
<1> QED
  BY <1>1, CachesInductive, PTL

\* The globals are of the module asked for last, and never of two
\* collections (session.rs:339, disasm.rs:39).
THEOREM SessionGlobalsNotMixed == HSpec => []GlobalsNeverMixed
<1>1. Caches => GlobalsNeverMixed
  BY DEF Caches
<1> QED
  BY <1>1, CachesInductive, PTL

-----------------------------------------------------------------------------
(***************************************************************************)
(* No match is listed twice, unless it was there before a first pass, or   *)
(* was put into the list by hand or by a signature scan.                   *)
(***************************************************************************)
TwiceOnly(s, S) ==
    \A i, j \in 1..Len(s) : s[i] = s[j] => i = j \/ s[i] \in S

TwiceExplained == TwiceOnly(matches, extra)

\* An order of a finite set has each element once.
LEMMA OrderOnce ==
  ASSUME NEW S \in SUBSET Addr, NEW order \in Orders(S)
  PROVE  TwiceOnly(order, {})
<1>1. /\ IsFiniteSet(S) /\ Cardinality(S) \in Nat
      /\ IsFiniteSet(1..Cardinality(S))
      /\ Cardinality(1..Cardinality(S)) = Cardinality(S)
  <2>1. IsFiniteSet(S) /\ Cardinality(S) \in Nat
    BY TargetAssumption, FS_Subset, FS_CardinalityType
  <2> QED
    BY <2>1, FS_Interval
<1>2. order \in Injection(1..Cardinality(S), S)
  BY <1>1, FS_SurjSameCardinalityImpliesInj DEF Orders
<1>3. /\ order \in [1..Cardinality(S) -> S]
      /\ \A i, j \in 1..Cardinality(S) : order[i] = order[j] => i = j
  BY <1>2 DEF Injection, IsInjective
<1>4. Len(order) = Cardinality(S)
  BY <1>1, <1>3
<1> QED
  BY <1>3, <1>4 DEF TwiceOnly

\* Picking places of a list in order repeats nothing.
LEMMA PickOnce ==
  ASSUME NEW s \in Seq(Addr), NEW pick \in Picks(Len(s)), NEW S, TwiceOnly(s, S),
         NEW t, t = [k \in DOMAIN pick |-> s[pick[k]]]
  PROVE  TwiceOnly(t, S)
<1>1. PICK n \in 0..Len(s) : pick \in [1..n -> 1..Len(s)] /\ Increasing(pick)
  BY DEF Picks
<1>2. Len(t) = n /\ \A k \in 1..n : t[k] = s[pick[k]] /\ pick[k] \in 1..Len(s)
  BY <1>1
<1>3. ASSUME NEW i \in 1..n, NEW j \in 1..n, t[i] = t[j], t[i] \notin S
      PROVE  i = j
  <2>1. pick[i] = pick[j]
    BY <1>2, <1>3 DEF TwiceOnly
  <2> QED
    BY <1>1, <1>2, <2>1 DEF Increasing
<1> QED
  BY <1>2, <1>3 DEF TwiceOnly

LEMMA RemoveOnce ==
  ASSUME NEW s \in Seq(Addr), NEW i \in 1..Len(s), NEW S, TwiceOnly(s, S)
  PROVE  TwiceOnly(RemoveAt(s, i), S)
<1> DEFINE place(j) == IF j < i THEN j ELSE j + 1
           t == RemoveAt(s, i)
<1>1. /\ Len(t) = Len(s) - 1
      /\ \A j \in 1 .. Len(s) - 1 : t[j] = s[place(j)]
  <2> DEFINE head == SubSeq(s, 1, i - 1)
             tail == SubSeq(s, i + 1, Len(s))
  <2>1. /\ head \in Seq(Addr) /\ Len(head) = i - 1
        /\ \A j \in 1 .. i - 1 : head[j] = s[j]
    BY SubSeqProperties
  <2>2. /\ tail \in Seq(Addr) /\ Len(tail) = Len(s) - i
        /\ \A j \in 1 .. Len(s) - i : tail[j] = s[i + j]
    BY SubSeqProperties
  <2>3. t = head \o tail
    BY DEF RemoveAt
  <2> HIDE DEF head, tail, t
  <2>4. /\ Len(t) = Len(s) - 1
        /\ \A j \in 1 .. Len(s) - 1 :
              t[j] = IF j <= Len(head) THEN head[j] ELSE tail[j - Len(head)]
    <3>1. Len(head) + Len(tail) = Len(s) - 1
      BY <2>1, <2>2
    <3>2. /\ Len(t) = Len(head) + Len(tail)
          /\ \A j \in 1 .. Len(head) + Len(tail) :
                t[j] = IF j <= Len(head) THEN head[j] ELSE tail[j - Len(head)]
      BY <2>1, <2>2, <2>3, ConcatProperties
    <3> QED
      BY <3>1, <3>2
  <2>5. ASSUME NEW j \in 1 .. Len(s) - 1
        PROVE  t[j] = s[place(j)]
    <3>1. CASE j < i
      BY <2>1, <2>4, <3>1
    <3>2. CASE j >= i
      <4>1. PICK k \in 1 .. Len(s) - i : k = j - Len(head) /\ i + k = j + 1
        BY <2>1, <3>2
      <4>2. t[j] = tail[k] /\ tail[k] = s[i + k]
        BY <2>1, <2>2, <2>4, <3>2, <4>1
      <4>3. place(j) = j + 1
        BY <3>2
      <4> QED
        BY <4>1, <4>2, <4>3
    <3> QED
      BY <3>1, <3>2
  <2> QED
    BY <2>4, <2>5
<1> HIDE DEF t
<1>2. ASSUME NEW j \in 1 .. Len(s) - 1, NEW k \in 1 .. Len(s) - 1,
             t[j] = t[k], t[j] \notin S
      PROVE  j = k
  <2>1. place(j) \in 1..Len(s) /\ place(k) \in 1..Len(s)
    OBVIOUS
  <2>2. place(j) = place(k)
    BY <1>1, <1>2, <2>1 DEF TwiceOnly
  <2> QED
    BY <2>2
<1>3. TwiceOnly(t, S)
  BY <1>1, <1>2 DEF TwiceOnly
<1> QED
  BY <1>3 DEF t

\* What is behind a list is repeated only if it is repeated itself or in it.
LEMMA ConcatOnce ==
  ASSUME NEW s \in Seq(Addr), NEW t \in Seq(Addr), TwiceOnly(t, {})
  PROVE  TwiceOnly(s \o t, Range(s))
<1> DEFINE u == s \o t
<1>1. /\ Len(u) = Len(s) + Len(t)
      /\ \A i \in 1..Len(u) :
            u[i] = IF i <= Len(s) THEN s[i] ELSE t[i - Len(s)]
  BY ConcatProperties
<1>2. Range(s) = {s[i] : i \in 1..Len(s)}
  BY RangeEquality
<1> HIDE DEF u
<1>3. ASSUME NEW i \in 1..Len(u), NEW j \in 1..Len(u), u[i] = u[j],
             u[i] \notin Range(s)
      PROVE  i = j
  <2>1. i > Len(s) /\ j > Len(s)
    BY <1>1, <1>2, <1>3
  <2>2. /\ i - Len(s) \in 1..Len(t) /\ j - Len(s) \in 1..Len(t)
        /\ t[i - Len(s)] = t[j - Len(s)]
    BY <1>1, <1>3, <2>1
  <2>3. i - Len(s) = j - Len(s)
    BY <2>2 DEF TwiceOnly
  <2> QED
    BY <2>3
<1>4. TwiceOnly(u, Range(s))
  BY <1>3 DEF TwiceOnly
<1> QED
  BY <1>4 DEF u

\* All that is in the list explains all that is in it twice.
LEMMA RangeExplains ==
  ASSUME NEW s \in Seq(Addr), NEW S, Range(s) \subseteq S
  PROVE  TwiceOnly(s, S)
<1>1. Range(s) = {s[i] : i \in 1..Len(s)}
  BY RangeEquality
<1> QED
  BY <1>1 DEF TwiceOnly

LEMMA MoreExplains ==
  ASSUME NEW s \in Seq(Addr), NEW S, NEW T, TwiceOnly(s, S),
         \A a \in Range(s) : a \in S => a \in T
  PROVE  TwiceOnly(s, T)
<1>1. Range(s) = {s[i] : i \in 1..Len(s)}
  BY RangeEquality
<1> QED
  BY <1>1 DEF TwiceOnly

-----------------------------------------------------------------------------
LEMMA ScanOnce ==
  ASSUME Fitting, TwiceExplained, Note, NEW d \in Seq(Byte), ScanFor2(d),
         ret'.op \in {"scan_value", "filter_value"},
         ret'.out = "ok", ret'.data = d
  PROVE  TwiceExplained'
<1>1. matches \in Seq(Addr)
  BY DEF Fitting, TypeOK
<1>2. CASE ~scanned /\ FirstPass(d)
  <2>1. Range(matches) \subseteq extra'
    BY <1>2 DEF Note, Scanned
  <2>2. PICK skipped \in SUBSET Unreliable(Len(d)) :
          \E order \in Orders(Found(mem, d, skipped)) : matches' = matches \o order
    BY <1>2 DEF FirstPass
  <2>3. PICK order \in Orders(Found(mem, d, skipped)) : matches' = matches \o order
    BY <2>2
  <2>4. Found(mem, d, skipped) \in SUBSET Addr
    BY DEF Found
  <2>5. order \in Seq(Addr) /\ TwiceOnly(order, {})
    BY <2>4, OrderIsSeq, OrderOnce
  <2>6. matches' \in Seq(Addr) /\ TwiceOnly(matches', Range(matches))
    BY <1>1, <2>3, <2>5, ConcatOnce, ConcatProperties
  <2>7. TwiceOnly(matches', extra')
    BY <2>1, <2>6, MoreExplains
  <2> QED
    BY <2>7 DEF TwiceExplained, TwiceOnly
<1>3. CASE scanned /\ FilterPass(d)
  <2>1. extra' = Survivors(extra \cup (live \ live'), d)
    BY <1>3 DEF Note, Scanned
  <2>2. PICK pick \in Picks(Len(matches)) :
          matches' = [k \in DOMAIN pick |-> matches[pick[k]]]
    BY <1>3 DEF FilterPass
  <2>3. matches' \in Seq(Addr) /\ TwiceOnly(matches', extra)
    BY <1>1, <2>2, PickIsSeq, PickOnce DEF TwiceExplained
  <2>4. Range(matches') \subseteq Survivors(Range(matches), d)
    BY <1>3, FilterPassEffect DEF Fitting
  <2>5. \A a \in Range(matches') : a \in extra => a \in extra'
    BY <2>1, <2>4 DEF Survivors
  <2>6. TwiceOnly(matches', extra')
    BY <2>3, <2>5, MoreExplains
  <2> QED
    BY <2>6 DEF TwiceExplained, TwiceOnly
<1> QED
  BY <1>2, <1>3 DEF ScanFor2

\* A call that leaves the list alone, or fails.
LEMMA QuietOnce ==
  ASSUME Fitting, TwiceExplained, Note, UNCHANGED matches,
         ret'.op \notin {"reset", "remove_match"},
         ret'.op \in {"sig_scan", "scan_value", "filter_value"} => ret'.out # "ok"
  PROVE  TwiceExplained'
<1>1. extra \subseteq extra'
  BY DEF Note, Scanned
<1> QED
  BY <1>1 DEF TwiceExplained, TwiceOnly

LEMMA NextOnce ==
  ASSUME Fitting, TwiceExplained, HNext
  PROVE  TwiceExplained'
<1> USE DEF Return, Count
<1>1. Note /\ matches \in Seq(Addr)
  BY DEF HNext, Fitting, TypeOK
<1>2. Fitting'
  BY NextFitting DEF HNext
<1>3. matches' \in Seq(Addr)
  BY <1>2 DEF Fitting, TypeOK
<1>4. ASSUME NEW t \in TypeName, NEW v \in Value, ScanValue(t, v)
      PROVE  TwiceExplained'
  <2>1. CASE UNCHANGED matches /\ ret'.op = "scan_value" /\ ret'.out # "ok"
    BY <1>1, <2>1, QuietOnce
  <2>2. CASE /\ t \in Known /\ Parse[t][v] # Malformed
             /\ ScanFor2(Parse[t][v])
             /\ ret'.op = "scan_value" /\ ret'.out = "ok"
             /\ ret'.data = Parse[t][v]
    BY <1>1, <2>2, ParsedBytes, ScanOnce
  <2> QED
    BY <1>4, <2>1, <2>2 DEF ScanValue, Answer, session, scanner
<1>5. ASSUME NEW v \in Value, FilterValue(v)
      PROVE  TwiceExplained'
  <2>1. CASE UNCHANGED matches /\ ret'.op = "filter_value" /\ ret'.out # "ok"
    BY <1>1, <2>1, QuietOnce
  <2>2. CASE /\ typename # NoType /\ Parse[typename][v] # Malformed
             /\ ScanFor2(Parse[typename][v])
             /\ ret'.op = "filter_value" /\ ret'.out = "ok"
             /\ ret'.data = Parse[typename][v]
    <3>1. typename \in Known
      BY <2>2 DEF Fitting, TypeOK
    <3> QED
      BY <1>1, <2>2, <3>1, ParsedBytes, ScanOnce
  <2> QED
    BY <1>5, <2>1, <2>2 DEF FilterValue, Answer, session, scanner
<1>6. ASSUME NEW p \in Pattern, SigScan(p)
      PROVE  TwiceExplained'
  <2>1. CASE Answer("sig_scan", "invalid")
    BY <1>1, <2>1, QuietOnce DEF Answer, session, scanner
  <2>2. CASE Return("sig_scan", "ok", <<>>)
    <3>1. extra' = Range(matches')
      BY <1>1, <2>2 DEF Note, Scanned
    <3>2. TwiceOnly(matches', extra')
      BY <1>3, <3>1, RangeExplains
    <3> QED
      BY <3>2 DEF TwiceExplained, TwiceOnly
  <2> QED
    BY <1>6, <2>1, <2>2 DEF SigScan
<1>7. CASE Reset
  <2>1. matches' = <<>>
    BY <1>7 DEF Reset, ScannerReset
  <2> QED
    BY <2>1 DEF TwiceExplained, TwiceOnly
<1>8. ASSUME NEW t \in TypeName, NEW len \in Lens \cup {NoLen}, SetType(t, len)
      PROVE  TwiceExplained'
  <2>1. ret'.op = "set_type" /\ UNCHANGED matches
    BY <1>8 DEF SetType, Answer, session, scanner
  <2> QED
    BY <1>1, <2>1, QuietOnce
<1>9. ASSUME NEW a \in Addr, AddMatch(a)
      PROVE  TwiceExplained'
  <2>1. Range(matches') \subseteq extra'
    BY <1>1, <1>9 DEF Note, Scanned, AddMatch
  <2>2. TwiceOnly(matches', extra')
    BY <1>3, <2>1, RangeExplains
  <2> QED
    BY <2>2 DEF TwiceExplained, TwiceOnly
<1>10. ASSUME NEW i \in 1..(MaxMatches + 1), RemoveMatch(i)
       PROVE  TwiceExplained'
  <2>1. ret'.op = "remove_match" /\ extra' = extra \cap Range(matches')
    BY <1>1, <1>10 DEF RemoveMatch, Answer, Note, Scanned
  <2>2. TwiceOnly(matches', extra)
    <3>1. CASE UNCHANGED matches
      BY <3>1 DEF TwiceExplained
    <3>2. CASE i \in 1..Len(matches) /\ matches' = RemoveAt(matches, i)
      BY <1>1, <3>2, RemoveOnce DEF TwiceExplained
    <3> QED
      BY <1>10, <3>1, <3>2 DEF RemoveMatch, Answer, session, scanner
  <2>3. TwiceOnly(matches', extra')
    BY <1>3, <2>1, <2>2, MoreExplains
  <2> QED
    BY <2>3 DEF TwiceExplained, TwiceOnly
<1>11. CASE AccessCall
  <2>1. \A max : ReadMatches(max) => UNCHANGED session /\ ret'.op = "read_matches"
    BY DEF ReadMatches, Answer
  <2>2. \A target, v : WriteValue(target, v) =>
           UNCHANGED session /\ ret'.op = "write_value"
    BY DEF WriteValue, Answer
  <2>3. \A a, d : WriteMemory(a, d) => UNCHANGED session /\ ret'.op = "write_memory"
    BY DEF WriteMemory, Answer
  <2>4. /\ UNCHANGED session
        /\ ret'.op \in {"read_matches", "write_value", "write_memory"}
    BY <1>11, <2>1, <2>2, <2>3 DEF AccessCall
  <2> QED
    BY <1>1, <2>4, QuietOnce DEF session, scanner
<1>12. CASE ProcessCall
  <2>1. /\ UNCHANGED scanner
        /\ ret'.op \in {"build_pointer_map", "collect_globals", "offset_scan"}
    BY <1>12 DEF ProcessCall, BuildPointerMap, CollectGlobals, OffsetScan
  <2> QED
    BY <1>1, <2>1, QuietOnce DEF scanner
<1>13. ASSUME NEW a \in Mapped, NEW b \in Byte, TargetWrite(a, b)
       PROVE  TwiceExplained'
  <2>1. UNCHANGED session /\ ret'.op = "target"
    BY <1>13 DEF TargetWrite
  <2> QED
    BY <1>1, <2>1, QuietOnce DEF session, scanner
<1> QED
  BY <1>4, <1>5, <1>6, <1>7, <1>8, <1>9, <1>10, <1>11, <1>12, <1>13
  DEF HNext, Next, ScanCall, SelectCall

\* A list that nobody touched by hand and no signature scan began holds each
\* address once, whichever worker found it (value_scanner.rs:70-104).
THEOREM SessionListsOnce == HSpec => []NoAddressTwice
<1>1. HInit => TwiceExplained
  BY DEF HInit, Init, TwiceExplained, TwiceOnly
<1>2. Fitting /\ TwiceExplained /\ [HNext]_hvars => TwiceExplained'
  <2>1. ASSUME TwiceExplained, UNCHANGED hvars
        PROVE  TwiceExplained'
    BY <2>1 DEF hvars, vars, history, session, scanner, TwiceExplained
  <2> QED
    BY <2>1, NextOnce
<1>3. Fitting /\ TwiceExplained => NoAddressTwice
  BY DEF Fitting, TypeOK, TwiceExplained, TwiceOnly, NoAddressTwice, IsInjective
<1>4. HSpec => []Fitting
  BY HistoryInductive, PTL
<1> QED
  BY <1>1, <1>2, <1>3, <1>4, PTL DEF HSpec

=============================================================================
