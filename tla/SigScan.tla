------------------------------ MODULE SigScan -------------------------------
(***************************************************************************)
(* sig_scan::scan_range with CompiledPattern::find_in inlined: one range   *)
(* of memory is read in chunks that overlap by the length of the signature *)
(* less one, and each buffer is searched from one occurrence of the anchor *)
(* byte to the next.  The target changes its memory between the reads.     *)
(*                                                                         *)
(* Addresses are offsets into the range.  Any read may fail as a whole; a  *)
(* read that succeeds although it touches a hole has zeros there, and for  *)
(* the search a hole is a byte that happens to stay zero.                  *)
(***************************************************************************)
EXTENDS Integers, Sequences, Functions

CONSTANTS
    Byte,           \* the values of a byte
    Wild,           \* a wildcard of a signature
    Chunk,          \* SIG_CHUNK, 16 MiB
    Sizes,          \* the sizes of the ranges scanned
    Patterns,       \* the signatures looked for
    MaxWrites       \* bound on what the target writes during a scan

ASSUME SigScanAssumption ==
    /\ Wild \notin Byte
    /\ Chunk \in Nat \ {0}
    /\ Sizes \subseteq Nat
    /\ Patterns \subseteq Seq(Byte \cup {Wild}) \ {<<>>}
    /\ MaxWrites \in Nat

VARIABLES
    size,           \* the length of the range
    pat, anchor,    \* the compiled signature
    mem,            \* what the target holds
    pc,             \* "read", "find", "next", "done"
    offset,         \* the start of the current chunk
    buf,            \* the buffer read for it
    from,           \* where the search for the anchor goes on
    matches,        \* the result so far
    skipped,        \* history: the chunks whose read failed
    stable,         \* history: offsets that matched all the time
    ever,           \* history: offsets that matched at some time
    writes          \* the number of writes of the target

args == <<size, pat, anchor>>
target == <<mem, stable, ever, writes>>
vars == <<args, target, pc, offset, buf, from, matches, skipped>>

-----------------------------------------------------------------------------
\* Byte k of the signature stands k places after its start.
Accepts(p, k, b) == p[k + 1] \in {Wild, b}

\* The first literal byte, or the first byte of an all-wildcard signature.
IsAnchor(p, k) ==
    \/ p[k + 1] # Wild /\ \A j \in 1..k : p[j] = Wild
    \/ k = 0 /\ \A j \in 1..Len(p) : p[j] = Wild

\* matches_at
MatchesAt(bytes, start) ==
    \A k \in 0 .. Len(pat) - 1 : Accepts(pat, k, bytes[start + k])

\* The offsets of the range at which the memory m holds the signature.
Holding(m) == {s \in 0 .. size - Len(pat) : MatchesAt(m, s)}

Least(a, b) == IF a <= b THEN a ELSE b

remaining == size - offset
readLen == Least(Chunk, remaining)
\* Faulty variants: no overlap of the chunks, and one that is too long.
wantNoOverlap == readLen
wantLongOverlap == Least(readLen + Len(pat), remaining)

want == Least(readLen + Len(pat) - 1, remaining)

Init ==
    /\ size \in Sizes
    /\ pat \in Patterns
    /\ anchor \in 0 .. Len(pat) - 1 /\ IsAnchor(pat, anchor)
    /\ mem \in [0 .. size - 1 -> Byte]
    /\ pc = IF size < Len(pat) THEN "done" ELSE "read"
    /\ offset = 0 /\ buf = <<>> /\ from = 0 /\ matches = <<>>
    /\ skipped = {} /\ stable = Holding(mem) /\ ever = Holding(mem)
    /\ writes = 0

Read ==
    /\ pc = "read"
    /\ \/ /\ buf' = [i \in 0 .. want - 1 |-> mem[offset + i]]
          /\ from' = 0
          /\ pc' = IF want < Len(pat) THEN "next" ELSE "find"
          /\ UNCHANGED skipped
       \/ /\ skipped' = skipped \cup {offset}
          /\ pc' = "next"
          /\ UNCHANGED <<buf, from>>
    /\ UNCHANGED <<args, target, offset, matches>>

\* The places at which memchr looks for the anchor byte.
searchEnd == want - Len(pat) + anchor + 1

AnchorAt(j) == Accepts(pat, anchor, buf[j])

\* Faulty variant: a hit is placed a byte too early.
FindEarly ==
    /\ pc = "find"
    /\ \E found \in from .. searchEnd - 1 :
          /\ AnchorAt(found)
          /\ \A j \in from .. found - 1 : ~AnchorAt(j)
          /\ matches' =
               IF /\ found >= anchor
                  /\ found - anchor + Len(pat) <= want
                  /\ MatchesAt(buf, found - anchor)
               THEN Append(matches, offset + found - anchor - 1)
               ELSE matches
          /\ from' = found + 1
    /\ UNCHANGED <<args, target, pc, offset, buf, skipped>>

\* Faulty variant: an occurrence of the anchor passes for a hit.
FindAnchorOnly ==
    /\ pc = "find"
    /\ \E found \in from .. searchEnd - 1 :
          /\ AnchorAt(found)
          /\ \A j \in from .. found - 1 : ~AnchorAt(j)
          /\ matches' = IF found >= anchor /\ found - anchor + Len(pat) <= want
                        THEN Append(matches, offset + found - anchor)
                        ELSE matches
          /\ from' = found + 1
    /\ UNCHANGED <<args, target, pc, offset, buf, skipped>>

Find ==
    /\ pc = "find"
    /\ \E found \in from .. searchEnd - 1 :
          /\ AnchorAt(found)
          /\ \A j \in from .. found - 1 : ~AnchorAt(j)
          /\ matches' =
               IF /\ found >= anchor
                  /\ found - anchor + Len(pat) <= want
                  /\ MatchesAt(buf, found - anchor)
               THEN Append(matches, offset + found - anchor)
               ELSE matches
          /\ from' = found + 1
    /\ UNCHANGED <<args, target, pc, offset, buf, skipped>>

FindEnd ==
    /\ pc = "find"
    /\ \A j \in from .. searchEnd - 1 : ~AnchorAt(j)
    /\ pc' = "next"
    /\ UNCHANGED <<args, target, offset, buf, from, matches, skipped>>

\* Faulty variant: the loop goes on at the very end of the range.
NextChunkPastEnd ==
    /\ pc = "next"
    /\ IF remaining < readLen
       THEN pc' = "done" /\ UNCHANGED offset
       ELSE pc' = "read" /\ offset' = offset + readLen
    /\ UNCHANGED <<args, target, buf, from, matches, skipped>>

\* Faulty variant: a chunk whose read failed is tried again.
NextChunkRetrying ==
    /\ pc = "next"
    /\ \/ /\ offset \in skipped
          /\ pc' = "read" /\ UNCHANGED offset
       \/ /\ offset \notin skipped
          /\ IF remaining <= readLen
             THEN pc' = "done" /\ UNCHANGED offset
             ELSE pc' = "read" /\ offset' = offset + readLen
    /\ UNCHANGED <<args, target, buf, from, matches, skipped>>

NextChunk ==
    /\ pc = "next"
    /\ IF remaining <= readLen
       THEN pc' = "done" /\ UNCHANGED offset
       ELSE pc' = "read" /\ offset' = offset + readLen
    /\ UNCHANGED <<args, target, buf, from, matches, skipped>>

TargetWrite ==
    /\ writes < MaxWrites
    /\ pc # "done"
    /\ \E a \in 0 .. size - 1, b \in Byte :
          mem' = [mem EXCEPT ![a] = b]
    /\ stable' = stable \cap Holding(mem')
    /\ ever' = ever \cup Holding(mem')
    /\ writes' = writes + 1
    /\ UNCHANGED <<args, pc, offset, buf, from, matches, skipped>>

Scan == Read \/ Find \/ FindEnd \/ NextChunk

Next == Scan \/ TargetWrite

Spec == Init /\ [][Next]_vars

\* The scan is a loop of its own thread; it does not wait for the target.
FairSpec == Spec /\ WF_vars(Scan)

-----------------------------------------------------------------------------
(***************************************************************************)
(* Properties.                                                             *)
(***************************************************************************)
TypeOK ==
    /\ size \in Nat
    /\ pat \in Seq(Byte \cup {Wild}) /\ anchor \in 0 .. Len(pat) - 1
    /\ mem \in [0 .. size - 1 -> Byte]
    /\ pc \in {"read", "find", "next", "done"}
    /\ offset \in Nat /\ from \in Nat
    /\ matches \in Seq(Nat)
    /\ skipped \subseteq Nat
    /\ stable \subseteq 0 .. size - Len(pat)
    /\ ever \subseteq 0 .. size - Len(pat)

\* The result ascends strictly: a signature that straddles two chunks is
\* reported by one of them only (sig_scan.rs:176-178).
Ascending ==
    \A i, j \in 1..Len(matches) : i < j => matches[i] < matches[j]

\* Whatever matched from the beginning to the end is in the result, unless
\* the read of the chunk it starts in failed (sig_scan.rs:153-158).
NothingMissed ==
    pc = "done" =>
        \A s \in stable :
            \/ s \in Range(matches)
            \/ \E c \in skipped : c <= s /\ s < c + Chunk

\* Each reported offset matched as a whole at some moment of the scan: the
\* bytes of one hit are never taken from two reads (sig_scan.rs:187-189).
NothingInvented == Range(matches) \subseteq ever

\* A read stays within the range and within a chunk and the overlap, for
\* ranges of any size (sig_scan.rs:147-151); the search stays in the buffer.
ReadsBounded ==
    /\ pc = "read" => offset < size
    /\ pc = "find" =>
          /\ DOMAIN buf = 0 .. want - 1
          /\ offset + want <= size /\ want < Chunk + Len(pat)
          /\ searchEnd <= want

\* The scan ends: neither a failed read nor a run of false anchors stops it.
Terminates == <>(pc = "done")

=============================================================================
