------------------------------- MODULE Target -------------------------------
(***************************************************************************)
(* The memory a session scans, and what the scanners can learn from it.    *)
(*                                                                         *)
(* Everything here is constant: a memory is passed as a function from the  *)
(* mapped addresses to bytes.  An address that is not mapped is a hole.    *)
(* memflow is a library outside this repository.  The code here relies on  *)
(* two of its behaviours: read_raw_into(..).data_part() on a buffer that   *)
(* touches a hole either fails as a whole or succeeds with zeros in place  *)
(* of the missing bytes, and write_raw(..).data_part() on such a buffer    *)
(* either fails or writes the mapped part.                                 *)
(***************************************************************************)
EXTENDS Integers, Sequences, FiniteSets, Functions

CONSTANTS
    Addr,          \* the address space, an initial segment of the naturals
    Mapped,        \* the addresses backed by memory
    Byte,          \* the values a byte takes
    Zero,          \* the byte a hole reads as
    Page,          \* the step of the first pass and of create_map, 0x1000
    ScanRanges,    \* funcs.maps(16 MiB, 0, 2^47), as records [base, size]
    SigRanges      \* funcs.maps(0x1000, NULL, INVALID), likewise

ASSUME TargetAssumption ==
    /\ Addr \subseteq Nat /\ IsFiniteSet(Addr)
    /\ Mapped \subseteq Addr
    /\ Zero \in Byte
    /\ Page \in Nat \ {0}

Memory == [Mapped -> Byte]

Window(a, n) == a .. (a + n - 1)

\* Every byte of the n bytes at a is backed by memory: a read cannot fail.
Solid(a, n) == Window(a, n) \subseteq Mapped

\* What a successful read of n bytes at a returns.
BytesAt(m, a, n) ==
    [i \in 1..n |-> IF a + i - 1 \in Mapped THEN m[a + i - 1] ELSE Zero]

Holds(m, a, d) == BytesAt(m, a, Len(d)) = d

-----------------------------------------------------------------------------
(***************************************************************************)
(* The first pass of the value scanner reads page-sized chunks, each with  *)
(* Len(d) - 1 bytes of the next one, and compares every window.  A chunk   *)
(* whose read touches a hole may fail, and is then left out.               *)
(***************************************************************************)
Chunks ==
    UNION {{c \in Window(r.base, r.size) : (c - r.base) % Page = 0} :
             r \in ScanRanges}

Unreliable(n) == {c \in Chunks : ~Solid(c, Page + n - 1)}

\* The addresses a first pass for d reports when it could not read `skipped`.
Found(m, d, skipped) ==
    {a \in Addr : /\ Holds(m, a, d)
                  /\ \E c \in Chunks \ skipped : a \in Window(c, Page)}

\* The addresses every first pass for d reports, whichever reads fail.
SurelyFound(m, d) == Found(m, d, Unreliable(Len(d)))

(***************************************************************************)
(* A signature is a sequence of bytes and wildcards; it is looked for      *)
(* inside each range, and a hit lies in the range as a whole.              *)
(***************************************************************************)
Fits(m, a, sig, Wild) ==
    \A i \in 1..Len(sig) :
        sig[i] \in {Wild, BytesAt(m, a, Len(sig))[i]}

SigFound(m, sig, Wild, skipped) ==
    {a \in Addr : /\ Fits(m, a, sig, Wild)
                  /\ \E r \in SigRanges \ skipped :
                        Window(a, Len(sig)) \subseteq Window(r.base, r.size)}

UnreliableRanges == {r \in SigRanges : ~Solid(r.base, r.size)}

(***************************************************************************)
(* The pointers create_map finds: one-byte pointers, whose value is the    *)
(* address they hold, kept when it lies in a scanned range.                *)
(***************************************************************************)
InRanges == UNION {Window(r.base, r.size) : r \in ScanRanges}

PointersFound(m, skipped) ==
    {p \in Addr \X InRanges :
        /\ BytesAt(m, p[1], 1) = <<p[2]>>
        /\ \E c \in Chunks \ skipped : p[1] \in Window(c, Page)}

-----------------------------------------------------------------------------
\* Faulty variant: the last of the writes is left out.
WrittenShort(m, ms, d, k) ==
    LET Covers(i, b) == b \in Window(ms[i], Len(d))
    IN  {w \in Memory : \A b \in Mapped :
            \/ w[b] = m[b] /\ \A i \in 1 .. k - 1 : ~Covers(i, b)
            \/ \E i \in 1 .. k - 1 : /\ Covers(i, b)
                                    /\ w[b] = d[b - ms[i] + 1]
                                    /\ \A j \in i + 1 .. k - 1 : ~Covers(j, b)}

(***************************************************************************)
(* The memory after d was written, in order, at the first k addresses of   *)
(* ms: where windows overlap the last write stays.                         *)
(***************************************************************************)
Written(m, ms, d, k) ==
    LET Covers(i, b) == b \in Window(ms[i], Len(d))
    IN  {w \in Memory : \A b \in Mapped :
            \/ w[b] = m[b] /\ \A i \in 1..k : ~Covers(i, b)
            \/ \E i \in 1..k : /\ Covers(i, b)
                               /\ w[b] = d[b - ms[i] + 1]
                               /\ \A j \in i + 1 .. k : ~Covers(j, b)}

-----------------------------------------------------------------------------
\* The sequences that list each element of the finite set S exactly once.
Orders(S) == Surjection(1..Cardinality(S), S)

Increasing(f) == \A i, j \in DOMAIN f : i < j => f[i] < f[j]

\* The ways to pick some of n places and keep their order.
Picks(n) == UNION {{f \in [1..k -> 1..n] : Increasing(f)} : k \in 0..n}

=============================================================================
