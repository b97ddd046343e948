--------------------------- MODULE SigScanProofs ----------------------------
(***************************************************************************)
(* The signature scan reports exactly once what it should, for every chunk *)
(* size, range, signature and memory.                                      *)
(***************************************************************************)
EXTENDS SigScan, TLAPS, SequenceTheorems

Lost(s) == \E c \in skipped : c <= s /\ s < c + Chunk

Reported(s) == s \in Range(matches) \/ Lost(s)

(***************************************************************************)
(* Behind the frontier everything is settled.  It is the start of the      *)
(* chunk before it is searched, its end afterwards, and in between the     *)
(* place the search for the anchor has reached.                            *)
(***************************************************************************)
Behind(s) ==
    \/ pc = "read" /\ s < offset
    \/ pc = "find" /\ (s < offset \/ s + anchor < offset + from)
    \/ pc = "next" /\ s < offset + readLen
    \/ pc = "done"

\* Where the scan stands.
Place ==
    /\ pc # "done" => offset < size /\ Len(pat) <= size
    /\ pc = "find" =>
          /\ buf \in [0 .. want - 1 -> Byte]
          /\ from <= searchEnd /\ Len(pat) <= want

\* The list ascends and ends behind the frontier and before the next chunk.
Listed ==
    /\ Ascending
    /\ \A i \in 1..Len(matches) :
          /\ Behind(matches[i])
          /\ pc = "find" => matches[i] < offset + readLen

\* Nothing that held throughout is missing behind the frontier.
Settled == \A s \in stable : Behind(s) => Reported(s)

\* The buffer shows what the memory held when it was read.
Snapshot ==
    pc = "find" =>
        \A start \in 0 .. want - Len(pat) :
            /\ offset + start \in stable => MatchesAt(buf, start)
            /\ MatchesAt(buf, start) => offset + start \in ever

\* What the memory holds now is between what it always and what it ever held.
Tracked == stable \subseteq Holding(mem) /\ Holding(mem) \subseteq ever

IInv == /\ TypeOK /\ Place /\ Listed /\ Settled /\ Snapshot /\ Tracked
        /\ NothingInvented

-----------------------------------------------------------------------------
\* The lengths of a chunk, and why no start in a chunk is out of its buffer.
LEMMA Lengths ==
  ASSUME TypeOK, offset < size
  PROVE  /\ readLen \in Nat /\ readLen > 0 /\ readLen <= Chunk
         /\ offset + readLen <= size
         /\ readLen < remaining => readLen = Chunk
         /\ want \in Nat /\ readLen <= want /\ offset + want <= size
         /\ want < readLen + Len(pat)
         /\ \A s \in Nat : s < offset + readLen /\ s + Len(pat) <= size
                              => s + Len(pat) <= offset + want
<1>1. /\ Len(pat) \in Nat /\ Len(pat) > 0 /\ Chunk \in Nat /\ Chunk > 0
      /\ size \in Nat /\ offset \in Nat
  BY SigScanAssumption DEF TypeOK
<1> QED
  BY <1>1 DEF readLen, want, remaining, Least

LEMMA InitInv == Init => IInv
<1> SUFFICES ASSUME Init PROVE IInv
  OBVIOUS
<1>1. size \in Nat /\ pat \in Seq(Byte \cup {Wild}) /\ Len(pat) > 0
  BY SigScanAssumption DEF Init
<1>2. /\ matches \in Seq(Nat) /\ Len(matches) = 0 /\ Range(matches) = {}
  BY DEF Init, Range
<1>3. TypeOK
  BY <1>1, <1>2 DEF Init, TypeOK, Holding
<1>4. Place /\ Snapshot /\ Tracked
  BY <1>1 DEF Init, Place, Snapshot, Tracked
<1>5. Listed /\ NothingInvented
  BY <1>2 DEF Listed, Ascending, NothingInvented
<1>6. Settled
  BY <1>1, <1>3 DEF Init, Settled, Behind, TypeOK, Holding
<1> QED
  BY <1>3, <1>4, <1>5, <1>6 DEF IInv

-----------------------------------------------------------------------------
(***************************************************************************)
(* Each step keeps the invariant.                                          *)
(***************************************************************************)
LEMMA ReadInv ==
  ASSUME IInv, Read
  PROVE  IInv'
<1> USE DEF IInv
<1>1. /\ pc = "read" /\ offset < size /\ Len(pat) <= size
      /\ Len(pat) \in Nat /\ Len(pat) > 0
      /\ size \in Nat /\ offset \in Nat /\ anchor \in Nat /\ anchor < Len(pat)
  BY DEF Read, Place, TypeOK
<1>2. UNCHANGED <<size, pat, anchor, mem, stable, ever, offset, matches>>
  BY DEF Read, args, target
<1>3. /\ readLen' = readLen /\ want' = want /\ searchEnd' = searchEnd
  BY <1>2 DEF readLen, want, searchEnd, remaining, Least
<1>4. \A i \in 1..Len(matches) : matches[i] \in Nat /\ matches[i] < offset
  BY <1>1 DEF Listed, Behind, TypeOK
<1>5. CASE /\ buf' = [i \in 0 .. want - 1 |-> mem[offset + i]]
           /\ from' = 0 /\ UNCHANGED skipped
           /\ pc' = "find" /\ Len(pat) <= want
  <2>1. /\ want \in Nat /\ offset + want <= size /\ readLen \in Nat
    BY <1>1, Lengths
  <2>2. buf' \in [0 .. want - 1 -> Byte]
    BY <1>1, <1>5, <2>1 DEF TypeOK
  <2>3. TypeOK'
    BY <1>2, <1>5 DEF TypeOK
  <2>4. Place'
    <3>1. 0 <= searchEnd
      BY <1>1, <1>5, <2>1 DEF searchEnd
    <3> QED
      BY <1>1, <1>2, <1>3, <1>5, <2>2, <3>1 DEF Place
  <2>5. Listed'
    BY <1>1, <1>2, <1>3, <1>4, <1>5, <2>1 DEF Listed, Behind, Ascending
  <2>6. Settled'
    <3>1. ASSUME NEW s \in stable, s < offset \/ s + anchor < offset
          PROVE  Reported(s)
      <4>1. s \in Nat
        BY DEF TypeOK
      <4> QED
        BY <1>1, <3>1, <4>1 DEF Settled, Behind
    <3> QED
      BY <1>1, <1>2, <1>5, <3>1 DEF Settled, Behind, Reported, Lost
  <2>7. Snapshot'
    <3>1. ASSUME NEW start \in 0 .. want - Len(pat)
          PROVE  /\ offset + start \in 0 .. size - Len(pat)
                 /\ MatchesAt(mem, offset + start) <=> MatchesAt(buf', start)
      <4>1. offset + start \in 0 .. size - Len(pat)
        BY <1>1, <2>1
      <4>2. \A k \in 0 .. Len(pat) - 1 :
               buf'[start + k] = mem[(offset + start) + k]
        BY <1>1, <1>5, <2>1
      <4> QED
        BY <4>1, <4>2 DEF MatchesAt
    <3> QED
      BY <1>2, <1>3, <3>1 DEF Snapshot, Tracked, Holding, MatchesAt
  <2> QED
    BY <1>2, <2>3, <2>4, <2>5, <2>6, <2>7
    DEF NothingInvented, Tracked, Holding, MatchesAt
<1>6. ASSUME pc' = "next", skipped \subseteq skipped', skipped' \subseteq Nat,
             from' \in Nat,
             \A s \in stable : s >= offset /\ s < offset + readLen =>
                \E c \in skipped' : c <= s /\ s < c + Chunk
      PROVE  IInv'
  <2>1. readLen \in Nat /\ readLen > 0
    BY <1>1, Lengths
  <2>2. TypeOK'
    BY <1>2, <1>6 DEF TypeOK
  <2>3. Place' /\ Snapshot'
    BY <1>1, <1>2, <1>6 DEF Place, Snapshot
  <2>4. Listed'
    BY <1>1, <1>2, <1>3, <1>4, <1>6, <2>1 DEF Listed, Behind, Ascending
  <2>5. Settled'
    <3>1. ASSUME NEW s \in stable, s < offset + readLen
          PROVE  Reported(s)'
      <4>1. s \in Nat
        BY DEF TypeOK
      <4>2. CASE s < offset
        BY <1>1, <1>2, <1>6, <4>2 DEF Settled, Behind, Reported, Lost
      <4>3. CASE s >= offset
        BY <1>2, <1>6, <3>1, <4>3 DEF Reported, Lost
      <4> QED
        BY <1>1, <4>1, <4>2, <4>3
    <3> QED
      BY <1>2, <1>3, <1>6, <3>1 DEF Settled, Behind
  <2> QED
    BY <1>2, <2>2, <2>3, <2>4, <2>5
    DEF NothingInvented, Tracked, Holding, MatchesAt
<1>7. CASE from' = 0 /\ UNCHANGED skipped /\ pc' = "next" /\ ~(Len(pat) <= want)
  <2>1. ASSUME NEW s \in stable, s >= offset, s < offset + readLen
        PROVE  FALSE
    <3>1. s \in Nat /\ s + Len(pat) <= size
      BY <1>1 DEF TypeOK
    <3>2. s + Len(pat) <= offset + want /\ want \in Nat
      BY <1>1, <2>1, <3>1, Lengths
    <3> QED
      BY <1>1, <1>7, <2>1, <3>1, <3>2
  <2> QED
    BY <1>6, <1>7, <2>1 DEF TypeOK
<1>8. CASE skipped' = skipped \cup {offset} /\ pc' = "next" /\ UNCHANGED from
  <2>1. ASSUME NEW s \in stable, s >= offset, s < offset + readLen
        PROVE  offset <= s /\ s < offset + Chunk
    <3>1. s \in Nat /\ readLen \in Nat /\ readLen <= Chunk
      BY <1>1, Lengths DEF TypeOK
    <3> QED
      BY <1>1, <2>1, <3>1, SigScanAssumption
  <2> QED
    BY <1>1, <1>6, <1>8, <2>1 DEF TypeOK
<1>9. want \in Nat
  BY <1>1, Lengths
<1> QED
  BY <1>1, <1>5, <1>7, <1>8, <1>9 DEF Read

-----------------------------------------------------------------------------
\* A larger number appended keeps a list ascending.
LEMMA AppendGrows ==
  ASSUME NEW list \in Seq(Nat), NEW last \in Nat, NEW longer,
         longer = Append(list, last),
         \A i, j \in 1..Len(list) : i < j => list[i] < list[j],
         \A i \in 1..Len(list) : list[i] < last
  PROVE  /\ longer \in Seq(Nat)
         /\ Range(longer) = Range(list) \cup {last}
         /\ \A i \in 1..Len(longer) :
               \/ i \in 1..Len(list) /\ longer[i] = list[i]
               \/ longer[i] = last
         /\ \A i, j \in 1..Len(longer) : i < j => longer[i] < longer[j]
<1>1. /\ longer \in Seq(Nat) /\ Len(list) \in Nat
      /\ Len(longer) = Len(list) + 1
      /\ \A i \in 1..Len(list) : longer[i] = list[i]
      /\ longer[Len(list) + 1] = last
  BY AppendProperties
<1>2. 1..Len(longer) = 1..Len(list) \cup {Len(list) + 1}
  BY <1>1
<1>3. /\ Range(list) = {list[i] : i \in 1..Len(list)}
      /\ Range(longer) = {longer[i] : i \in 1..Len(longer)}
  BY <1>1 DEF Range
<1>4. Range(longer) = Range(list) \cup {last}
  BY <1>1, <1>2, <1>3
<1>5. ASSUME NEW i \in 1..Len(longer), NEW j \in 1..Len(longer), i < j
      PROVE  longer[i] < longer[j]
  <2>1. i \in 1..Len(list) /\ longer[i] = list[i]
    BY <1>1, <1>5
  <2>2. CASE j \in 1..Len(list)
    BY <1>1, <1>5, <2>1, <2>2
  <2>3. CASE j = Len(list) + 1
    BY <1>1, <1>5, <2>1, <2>3
  <2> QED
    BY <1>2, <2>2, <2>3
<1> QED
  BY <1>1, <1>2, <1>4, <1>5

LEMMA FindInv ==
  ASSUME IInv, Find
  PROVE  IInv'
<1> USE DEF IInv
<1>1. /\ pc = "find" /\ offset < size /\ Len(pat) <= size
      /\ Len(pat) \in Nat /\ Len(pat) > 0 /\ from \in Nat
      /\ size \in Nat /\ offset \in Nat /\ anchor \in Nat /\ anchor < Len(pat)
      /\ buf \in [0 .. want - 1 -> Byte] /\ Len(pat) <= want
  BY DEF Find, Place, TypeOK
<1>2. UNCHANGED <<size, pat, anchor, mem, stable, ever, pc, offset, buf, skipped>>
  BY DEF Find, args, target
<1>3. /\ readLen' = readLen /\ want' = want /\ searchEnd' = searchEnd
  BY <1>2 DEF readLen, want, searchEnd, remaining, Least
<1>4. /\ want \in Nat /\ offset + want <= size /\ want < readLen + Len(pat)
      /\ readLen \in Nat
  BY <1>1, Lengths
<1>5. PICK found \in from .. searchEnd - 1 :
        /\ AnchorAt(found)
        /\ \A j \in from .. found - 1 : ~AnchorAt(j)
        /\ matches' =
             IF /\ found >= anchor /\ found - anchor + Len(pat) <= want
                /\ MatchesAt(buf, found - anchor)
             THEN Append(matches, offset + found - anchor)
             ELSE matches
        /\ from' = found + 1
  BY DEF Find
<1>6. /\ searchEnd \in Int /\ found \in Nat
      /\ found <= searchEnd - 1 /\ from <= found
  BY <1>1, <1>4, <1>5 DEF searchEnd
<1>7. /\ matches \in Seq(Nat)
      /\ \A i \in 1..Len(matches) :
            /\ matches[i] < offset \/ matches[i] + anchor < offset + from
            /\ matches[i] < offset + readLen
      /\ Ascending
  BY <1>1 DEF Listed, Behind, TypeOK
<1>8. /\ from' \in Nat /\ from < from' /\ from' <= searchEnd
      /\ \A i \in 1..Len(matches) :
            /\ matches[i] \in Nat
            /\ matches[i] < offset \/ matches[i] + anchor < offset + from'
            /\ matches[i] < offset + readLen
  <2>1. from' \in Nat /\ from < from' /\ from' <= searchEnd
    BY <1>1, <1>5, <1>6
  <2>2. ASSUME NEW i \in 1..Len(matches)
        PROVE  /\ matches[i] \in Nat
               /\ matches[i] < offset \/ matches[i] + anchor < offset + from'
               /\ matches[i] < offset + readLen
    <3>1. matches[i] \in Nat
      BY <1>7
    <3>2. /\ matches[i] < offset \/ matches[i] + anchor < offset + from
          /\ matches[i] < offset + readLen
      BY <1>7
    <3> QED
      BY <1>1, <2>1, <3>1, <3>2
  <2> QED
    BY <2>1, <2>2
<1> DEFINE start == found - anchor
<1>9. ASSUME found >= anchor, start + Len(pat) <= want, MatchesAt(buf, start)
      PROVE  /\ matches' \in Seq(Nat) /\ Listed' /\ NothingInvented'
             /\ Range(matches) \subseteq Range(matches')
             /\ offset + start \in Range(matches')
  <2>1. /\ start \in 0 .. want - Len(pat) /\ offset + start \in Nat
        /\ matches' = Append(matches, offset + start)
    <3>1. start \in 0 .. want - Len(pat) /\ offset + start \in Nat
      BY <1>1, <1>4, <1>6, <1>9
    <3>2. offset + found - anchor = offset + start
      BY <1>1, <1>6
    <3> QED
      BY <1>5, <1>9, <3>1, <3>2
  <2>2. offset + start \in ever
    BY <1>1, <1>9, <2>1 DEF Snapshot
  <2> DEFINE hit == offset + start
  <2>3. /\ hit \in Nat /\ hit < offset + readLen
        /\ hit + anchor < offset + from'
        /\ \A i \in 1..Len(matches) : matches[i] < hit
    <3>1. hit \in Nat /\ hit < offset + readLen /\ hit + anchor < offset + from'
      BY <1>1, <1>4, <1>5, <1>6, <2>1
    <3>2. ASSUME NEW i \in 1..Len(matches)
          PROVE  matches[i] < hit
      <4>1. /\ matches[i] \in Nat
            /\ matches[i] < offset \/ matches[i] + anchor < offset + from
        BY <1>7, <1>8
      <4> QED
        BY <1>1, <1>6, <2>1, <4>1
    <3> QED
      BY <3>1, <3>2
  <2>4. matches' = Append(matches, hit) /\ hit \in ever
    BY <2>1, <2>2
  <2>5. PICK new \in Nat : new = hit
    BY <2>3
  <2>6. /\ matches' \in Seq(Nat)
        /\ Range(matches') = Range(matches) \cup {new}
        /\ Ascending'
        /\ \A i \in 1..Len(matches') :
               \/ i \in 1..Len(matches) /\ matches'[i] = matches[i]
               \/ matches'[i] = new
    <3>1. /\ matches \in Seq(Nat) /\ new \in Nat
          /\ \A i, j \in 1..Len(matches) : i < j => matches[i] < matches[j]
          /\ \A i \in 1..Len(matches) : matches[i] < new
      BY <1>7, <2>3, <2>5 DEF Ascending
    <3>2. matches' = Append(matches, new)
      BY <2>4, <2>5
    <3>3. matches' \in Seq(Nat)
      BY ONLY <3>1, <3>2, AppendGrows
    <3>4. Range(matches') = Range(matches) \cup {new}
      BY ONLY <3>1, <3>2, AppendGrows
    <3>5. \A i \in 1..Len(matches') :
             \/ i \in 1..Len(matches) /\ matches'[i] = matches[i]
             \/ matches'[i] = new
      BY ONLY <3>1, <3>2, AppendGrows
    <3>6. \A i, j \in 1..Len(matches') : i < j => matches'[i] < matches'[j]
      BY ONLY <3>1, <3>2, AppendGrows
    <3> QED
      BY <3>3, <3>4, <3>5, <3>6 DEF Ascending
  <2>7. \A i \in 1..Len(matches') :
           /\ matches'[i] < offset \/ matches'[i] + anchor < offset + from'
           /\ matches'[i] < offset + readLen
    BY <1>8, <2>3, <2>5, <2>6
  <2>8. Listed'
    BY <1>1, <1>2, <1>3, <2>6, <2>7 DEF Listed, Behind
  <2>9. NothingInvented'
    BY <1>2, <2>4, <2>5, <2>6 DEF NothingInvented
  <2> QED
    BY <2>5, <2>6, <2>8, <2>9
<1>10. /\ matches' \in Seq(Nat) /\ Listed' /\ NothingInvented'
       /\ Range(matches) \subseteq Range(matches')
       /\ found >= anchor /\ start + Len(pat) <= want /\ MatchesAt(buf, start)
             => offset + start \in Range(matches')
  <2>1. CASE ~(found >= anchor /\ start + Len(pat) <= want
               /\ MatchesAt(buf, start))
    <3>1. matches' = matches
      BY <1>5, <2>1
    <3>2. Listed'
      BY <1>1, <1>2, <1>3, <1>7, <1>8, <3>1 DEF Listed, Behind, Ascending
    <3> QED
      BY <1>2, <1>7, <2>1, <3>1, <3>2 DEF NothingInvented
  <2> QED
    BY <1>9, <2>1
<1>11. Settled'
  <2>1. ASSUME NEW s \in stable,
               s < offset \/ s + anchor < offset + from'
        PROVE  Reported(s)'
    <3>1. s \in Nat
      BY DEF TypeOK
    <3>2. CASE s < offset \/ s + anchor < offset + from
      BY <1>1, <1>2, <1>10, <3>2 DEF Settled, Behind, Reported, Lost
    <3>3. CASE ~(s < offset) /\ ~(s + anchor < offset + from)
      <4> DEFINE st == s - offset
      <4>1. /\ st \in 0 .. want - Len(pat) /\ st + anchor \in from .. found
            /\ offset + st = s
        BY <1>1, <1>4, <1>5, <1>6, <2>1, <3>1, <3>3 DEF searchEnd
      <4>2. MatchesAt(buf, st)
        BY <1>1, <4>1 DEF Snapshot
      <4>3. AnchorAt(st + anchor)
        BY <1>1, <4>2 DEF MatchesAt, AnchorAt
      <4>4. st + anchor = found
        BY <1>1, <1>5, <1>6, <4>1, <4>3
      <4>5. /\ st = start
            /\ found >= anchor /\ start + Len(pat) <= want
            /\ MatchesAt(buf, start)
        BY <1>1, <1>4, <1>6, <4>1, <4>2, <4>4
      <4> QED
        BY <1>10, <4>1, <4>5 DEF Reported
    <3> QED
      BY <3>2, <3>3
  <2> QED
    BY <1>1, <1>2, <2>1 DEF Settled, Behind
<1>12. TypeOK'
  BY <1>2, <1>8, <1>10 DEF TypeOK
<1>13. Place'
  BY <1>1, <1>2, <1>3, <1>8 DEF Place
<1>14. Snapshot' /\ Tracked'
  BY <1>2, <1>3 DEF Snapshot, Tracked, Holding, MatchesAt
<1> QED
  BY <1>10, <1>11, <1>12, <1>13, <1>14

LEMMA FindEndInv ==
  ASSUME IInv, FindEnd
  PROVE  IInv'
<1> USE DEF IInv
<1>1. /\ pc = "find" /\ pc' = "next" /\ offset < size /\ Len(pat) <= size
      /\ Len(pat) \in Nat /\ Len(pat) > 0 /\ from \in Nat
      /\ size \in Nat /\ offset \in Nat /\ anchor \in Nat /\ anchor < Len(pat)
  BY DEF FindEnd, Place, TypeOK
<1>2. UNCHANGED <<size, pat, anchor, mem, stable, ever, offset, buf, from,
                  matches, skipped>>
  BY DEF FindEnd, args, target
<1>3. readLen' = readLen
  BY <1>2 DEF readLen, remaining, Least
<1>4. want \in Nat /\ readLen \in Nat
  BY <1>1, Lengths
<1>5. Settled'
  <2>1. ASSUME NEW s \in stable, s < offset + readLen
        PROVE  Reported(s)
    <3>1. s \in Nat /\ s + Len(pat) <= size
      BY <1>1 DEF TypeOK
    <3>2. CASE s < offset \/ s + anchor < offset + from
      BY <1>1, <3>2 DEF Settled, Behind
    <3>3. CASE ~(s < offset) /\ ~(s + anchor < offset + from)
      <4> DEFINE st == s - offset
      <4>1. s + Len(pat) <= offset + want
        BY <1>1, <2>1, <3>1, Lengths
      <4>2. /\ st \in 0 .. want - Len(pat) /\ offset + st = s
            /\ st + anchor \in from .. searchEnd - 1
        BY <1>1, <1>4, <3>1, <3>3, <4>1 DEF searchEnd
      <4>3. MatchesAt(buf, st)
        BY <1>1, <4>2 DEF Snapshot
      <4>4. AnchorAt(st + anchor)
        BY <1>1, <4>3 DEF MatchesAt, AnchorAt
      <4> QED
        BY <4>2, <4>4 DEF FindEnd
    <3> QED
      BY <3>2, <3>3
  <2> QED
    BY <1>1, <1>2, <1>3, <2>1 DEF Settled, Behind, Reported, Lost
<1>6. TypeOK'
  BY <1>1, <1>2 DEF TypeOK
<1>7. Place' /\ Snapshot' /\ Tracked' /\ NothingInvented'
  BY <1>1, <1>2
  DEF Place, Snapshot, Tracked, Holding, MatchesAt, NothingInvented
<1>8. Listed'
  BY <1>1, <1>2, <1>3 DEF Listed, Behind, Ascending
<1> QED
  BY <1>5, <1>6, <1>7, <1>8

LEMMA NextChunkInv ==
  ASSUME IInv, NextChunk
  PROVE  IInv'
<1> USE DEF IInv
<1>1. /\ pc = "next" /\ offset < size /\ Len(pat) <= size
      /\ Len(pat) \in Nat /\ Len(pat) > 0 /\ size \in Nat /\ offset \in Nat
      /\ remaining = size - offset
  BY DEF NextChunk, Place, TypeOK, remaining
<1>2. UNCHANGED <<size, pat, anchor, mem, stable, ever, buf, from, matches,
                  skipped>>
  BY DEF NextChunk, args, target
<1>3. readLen \in Nat /\ offset + readLen <= size
  BY <1>1, Lengths
<1>4. \A i \in 1..Len(matches) : matches[i] \in Nat /\ matches[i] < offset + readLen
  BY <1>1 DEF Listed, Behind, TypeOK
<1>5. \A s \in stable : s \in Nat /\ s + Len(pat) <= size
  BY <1>1 DEF TypeOK
<1>6. \A s \in stable : s < offset + readLen => Reported(s)
  BY <1>1 DEF Settled, Behind
<1>7. \/ remaining <= readLen /\ pc' = "done" /\ offset' = offset
      \/ remaining > readLen /\ pc' = "read" /\ offset' = offset + readLen
  BY <1>1, <1>3 DEF NextChunk
<1>8. TypeOK'
  BY <1>1, <1>2, <1>3, <1>7 DEF TypeOK
<1>9. Place'
  BY <1>1, <1>2, <1>3, <1>7 DEF Place
<1>10. Listed'
  BY <1>2, <1>4, <1>7 DEF Listed, Behind, Ascending
<1>11. Settled'
  <2>1. ASSUME NEW s \in stable, Behind(s)'
        PROVE  s < offset + readLen
    BY <1>1, <1>3, <1>5, <1>7, <2>1 DEF Behind
  <2> QED
    BY <1>2, <1>6, <2>1 DEF Settled, Reported, Lost
<1>12. Snapshot' /\ Tracked' /\ NothingInvented'
  BY <1>2, <1>7 DEF Snapshot, Tracked, Holding, MatchesAt, NothingInvented
<1> QED
  BY <1>8, <1>9, <1>10, <1>11, <1>12

LEMMA TargetInv ==
  ASSUME IInv, TargetWrite
  PROVE  IInv'
<1> USE DEF IInv
<1>1. /\ UNCHANGED <<size, pat, anchor, pc, offset, buf, from, matches, skipped>>
      /\ stable' = stable \cap Holding(mem') /\ ever' = ever \cup Holding(mem')
      /\ mem' \in [0 .. size - 1 -> Byte]
  BY DEF TargetWrite, args, TypeOK
<1>2. /\ readLen' = readLen /\ want' = want /\ searchEnd' = searchEnd
      /\ Holding(mem)' = Holding(mem')
  BY <1>1 DEF readLen, want, searchEnd, remaining, Least, Holding, MatchesAt
<1>3. TypeOK'
  BY <1>1 DEF TypeOK, Holding
<1>4. Place'
  BY <1>1, <1>2 DEF Place
<1>5. Listed' /\ NothingInvented'
  BY <1>1, <1>2 DEF Listed, Behind, Ascending, NothingInvented
<1>6. Settled'
  BY <1>1, <1>2 DEF Settled, Behind, Reported, Lost
<1>7. Snapshot' /\ Tracked'
  BY <1>1, <1>2 DEF Snapshot, Tracked, MatchesAt
<1> QED
  BY <1>3, <1>4, <1>5, <1>6, <1>7

-----------------------------------------------------------------------------
LEMMA Inductive == Spec => []IInv
<1>1. ASSUME IInv, [Next]_vars
      PROVE  IInv'
  <2>1. CASE UNCHANGED vars
    BY <1>1, <2>1
    DEF vars, args, target, IInv, TypeOK, Place, Listed, Ascending, Settled,
        Snapshot, Tracked, NothingInvented, Behind, Reported, Lost, Holding,
        MatchesAt, readLen, want, searchEnd, remaining, Least, AnchorAt
  <2> QED
    BY <1>1, <2>1, ReadInv, FindInv, FindEndInv, NextChunkInv, TargetInv
    DEF Next, Scan
<1> QED
  BY <1>1, InitInv, PTL DEF Spec

\* The types, for every chunk size, range and signature.
THEOREM SigScanTypes == Spec => []TypeOK
<1>1. IInv => TypeOK
  BY DEF IInv
<1> QED
  BY <1>1, Inductive, PTL

\* No hit is reported twice and the result ascends, wherever the chunk
\* boundaries cut the range (sig_scan.rs:176-178).
THEOREM SigScanAscending == Spec => []Ascending
<1>1. IInv => Ascending
  BY DEF IInv, Listed
<1> QED
  BY <1>1, Inductive, PTL

\* A hit that is there throughout is reported, unless the read of the chunk
\* it starts in failed (sig_scan.rs:153-158).
THEOREM SigScanMissesNothing == Spec => []NothingMissed
<1>1. IInv => NothingMissed
  BY DEF IInv, Settled, Behind, Reported, Lost, NothingMissed
<1> QED
  BY <1>1, Inductive, PTL

\* What is reported matched as a whole at one moment.
THEOREM SigScanInventsNothing == Spec => []NothingInvented
<1>1. IInv => NothingInvented
  BY DEF IInv
<1> QED
  BY <1>1, Inductive, PTL

\* No read leaves its range or is longer than a chunk and the overlap
\* (sig_scan.rs:147-151).
THEOREM SigScanReadsBounded == Spec => []ReadsBounded
<1>1. ASSUME IInv
      PROVE  ReadsBounded
  <2>1. pc = "read" => offset < size
    BY <1>1 DEF IInv, Place
  <2>2. ASSUME pc = "find"
        PROVE  /\ DOMAIN buf = 0 .. want - 1
               /\ offset + want <= size /\ want < Chunk + Len(pat)
               /\ searchEnd <= want
    <3>1. /\ offset < size /\ buf \in [0 .. want - 1 -> Byte]
          /\ TypeOK
      BY <1>1, <2>2 DEF IInv, Place
    <3>2. /\ want \in Nat /\ offset + want <= size /\ want < readLen + Len(pat)
          /\ readLen \in Nat /\ readLen <= Chunk
      BY <3>1, Lengths
    <3>3. /\ Len(pat) \in Nat /\ anchor \in Nat /\ anchor < Len(pat)
          /\ Chunk \in Nat
      BY <3>1, SigScanAssumption DEF TypeOK
    <3> QED
      BY <3>1, <3>2, <3>3 DEF searchEnd
  <2> QED
    BY <2>1, <2>2 DEF ReadsBounded
<1> QED
  BY <1>1, Inductive, PTL

=============================================================================
