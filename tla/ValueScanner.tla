---------------------------- MODULE ValueScanner ----------------------------
(***************************************************************************)
(* What a call of ValueScanner::scan_for_2 does to the scanner, as one     *)
(* step on a memory that holds still.  Session is built on it; ValueScan,  *)
(* the parallel scan, implements it.                                       *)
(***************************************************************************)
EXTENDS Target

VARIABLES
    mem,        \* the target's memory
    scanned,    \* the first pass was made
    matches     \* the match list

\* value_scanner.reset
ScannerReset == scanned' = FALSE /\ matches' = <<>>

\* Faulty variant: the chunks are read without the overlap.
FirstPassNoOverlap(d) ==
    /\ scanned' = TRUE
    /\ \E skipped \in SUBSET Unreliable(Len(d)) :
          /\ d = <<>> => skipped = Chunks
          /\ \E order \in Orders({a \in Addr :
                               /\ Holds(mem, a, d)
                               /\ \E c \in Chunks \ skipped :
                                     Window(a, Len(d)) \subseteq Window(c, Page)}) :
                matches' = matches \o order

\* Faulty variant: the overlap is a byte too long, so that a hit at the start
\* of a chunk is a hit of the chunk before it as well.
FirstPassLongOverlap(d) ==
    /\ scanned' = TRUE
    /\ \E skipped \in SUBSET Unreliable(Len(d)) :
          /\ d = <<>> => skipped = Chunks
          /\ \E order \in Orders(Found(mem, d, skipped)),
                again \in Orders({a \in Found(mem, d, skipped) \cap Chunks :
                                    a - Page \in Chunks \ skipped}) :
                matches' = matches \o order \o again

\* The hits are added to what the list already holds, in an order that is
\* up to rayon.  windows(0) panics, so an empty d gets here only when no
\* chunk could be read.
FirstPass(d) ==
    /\ scanned' = TRUE
    /\ \E skipped \in SUBSET Unreliable(Len(d)) :
          /\ d = <<>> => skipped = Chunks
          /\ \E order \in Orders(Found(mem, d, skipped)) :
                matches' = matches \o order

\* Faulty variant: the filter appends to the list it reads.
FilterPassAppending(d) ==
    /\ \E pick \in Picks(Len(matches)) :
          /\ \A i \in 1..Len(matches) :
                Solid(matches[i], Len(d)) =>
                    (i \in Range(pick) <=> d # <<>> /\ Holds(mem, matches[i], d))
          /\ d = <<>> => pick = <<>>
          /\ matches' = matches \o [k \in DOMAIN pick |-> matches[pick[k]]]
    /\ UNCHANGED scanned

\* A batched read leaves its part of the buffer alone when it fails: for a
\* match in a hole the comparison is with whatever was there.
FilterPass(d) ==
    /\ \E pick \in Picks(Len(matches)) :
          /\ \A i \in 1..Len(matches) :
                Solid(matches[i], Len(d)) =>
                    (i \in Range(pick) <=> d # <<>> /\ Holds(mem, matches[i], d))
          /\ d = <<>> => pick = <<>>
          /\ matches' = [k \in DOMAIN pick |-> matches[pick[k]]]
    /\ UNCHANGED scanned

ScanFor2(d) ==
    \/ ~scanned /\ FirstPass(d)
    \/ scanned /\ FilterPass(d)

ScanPanics(d) == ~scanned /\ d = <<>> /\ Chunks # {}

=============================================================================
