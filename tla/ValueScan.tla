----------------------------- MODULE ValueScan ------------------------------
(***************************************************************************)
(* ValueScanner::scan_for_2 as it runs: workers of the rayon pool take the *)
(* jobs of a pass in any order, read into a buffer of their own that they  *)
(* keep from job to job, and compare; the results are put together when    *)
(* the last job is done.  Meanwhile the target changes its memory.         *)
(*                                                                         *)
(* A job of the first pass is a page-sized chunk, named by its address; a  *)
(* job of a filter is a batch of the old matches, named by its number.     *)
(* A read is one step: memflow serves it by a single scatter operation.    *)
(* Every value scanned for has a byte; Session has the empty ones.         *)
(***************************************************************************)
EXTENDS Target, SequencesExt

CONSTANTS
    Worker,         \* the threads of the pool
    Idle,           \* the job of a worker that has none
    Data,           \* the values scanned for
    Batch,          \* CHUNK_SIZE, 0x100
    Start,          \* match lists before the first pass, from a signature scan
    MaxCalls,       \* bound on the calls of scan_for_2
    MaxWrites       \* bound on the writes of the target in one call

ASSUME ValueScanAssumption ==
    /\ Data \subseteq Seq(Byte) \ {<<>>}
    /\ Chunks \subseteq Addr
    /\ \A c \in Chunks : Window(c, Page) \subseteq Addr
    /\ \A c, e \in Chunks :
          c = e \/ Window(c, Page) \cap Window(e, Page) = {}
    /\ Start \subseteq Seq(Addr)
    /\ Batch \in Nat \ {0}
    /\ Idle \notin Nat
    /\ MaxCalls \in Nat /\ MaxWrites \in Nat

VARIABLES
    mem,            \* what the target holds
    scanned,        \* the first pass was made
    matches,        \* the match list
    busy,           \* a call is running
    data,           \* what it scans for
    old,            \* old_matches, the list a filter has taken
    todo,           \* the jobs no worker has taken yet
    job,            \* the job of each worker
    buf,            \* the buffer of each worker
    hits,           \* per finished job the places that compare equal
    skipped,        \* the chunks whose read failed
    calls,          \* the number of calls so far
    stable, ever,   \* history: addresses that held data all through the
                    \* call, and at some time of it
    writes          \* the writes of the target since the call began

pool == <<busy, data, old, todo, job, buf, hits, skipped, calls>>
history == <<stable, ever, writes>>
vars == <<mem, scanned, matches, pool, history>>

-----------------------------------------------------------------------------
n == Len(data)

Holding(m, d) == {a \in Addr : Holds(m, a, d)}

\* Faulty variant: the last batch is left out if it is not full.
BatchesRoundedDown(k) == 1 .. k \div Batch

Batches(k) == 1 .. (k + Batch - 1) \div Batch

\* Match k of batch b in the list the filter has taken.
Place(b, k) == (b - 1) * Batch + k

InBatch(b) == {k \in 1..Batch : Place(b, k) <= Len(old)}

\* The comparisons of a job: the windows that begin in a chunk, or the
\* matches of a batch.
Tests(j) == IF scanned THEN InBatch(j) ELSE 1..Page

\* What comparison k finds in the buffer: windows(data.len()) of a chunk, or
\* chunks(data.len()) of a batch.
Slot(w, k) == IF scanned THEN buf[w][k] ELSE SubSeq(buf[w], k, k + n - 1)

Zeros(len) == [i \in 1..len |-> Zero]

Init ==
    /\ mem \in Memory
    /\ scanned = FALSE /\ matches \in Start
    /\ busy = FALSE /\ data = <<>> /\ old = <<>>
    /\ todo = {} /\ job = [w \in Worker |-> Idle]
    /\ buf = [w \in Worker |-> <<>>]
    /\ hits = <<>> /\ skipped = {} /\ calls = 0
    /\ stable = {} /\ ever = {} /\ writes = 0

\* The buffers are made for the call, full of zeros; a filter takes the list.
Begin(d) ==
    /\ ~busy /\ calls < MaxCalls
    /\ busy' = TRUE /\ calls' = calls + 1 /\ data' = d
    /\ IF scanned
       THEN /\ old' = matches /\ matches' = <<>>
            /\ todo' = Batches(Len(matches))
            /\ buf' = [w \in Worker |-> [k \in 1..Batch |-> Zeros(Len(d))]]
       ELSE /\ todo' = Chunks
            /\ buf' = [w \in Worker |-> Zeros(Page + Len(d) - 1)]
            /\ UNCHANGED <<old, matches>>
    /\ hits' = [j \in todo' |-> {}] /\ skipped' = {}
    /\ stable' = Holding(mem, d) /\ ever' = Holding(mem, d) /\ writes' = 0
    /\ UNCHANGED <<mem, scanned, job>>

-----------------------------------------------------------------------------
\* The first pass: one read per chunk, which fills the buffer, or fails and
\* leaves the chunk out.
ReadChunk(w, c) ==
    /\ ~scanned
    /\ \/ /\ buf' = [buf EXCEPT ![w] = BytesAt(mem, c, Page + n - 1)]
          /\ job' = [job EXCEPT ![w] = c]
          /\ UNCHANGED skipped
       \/ /\ ~Solid(c, Page + n - 1)
          /\ skipped' = skipped \cup {c}
          /\ UNCHANGED <<buf, job>>

\* Faulty variant: each batch reads the matches of the first one.
ReadBatchFirst(w, b) ==
    /\ scanned
    /\ \E stale \in SUBSET {k \in InBatch(b) : ~Solid(old[k], n)} :
          buf' = [buf EXCEPT ![w] =
                    [k \in 1..Batch |-> IF k \in InBatch(b) \ stale
                                        THEN BytesAt(mem, old[k], n)
                                        ELSE buf[w][k]]]
    /\ job' = [job EXCEPT ![w] = b]
    /\ UNCHANGED skipped

\* A filter: one read per match, in one batch.  Where a read fails, the slot
\* keeps what an earlier batch of this worker left in it.
ReadBatch(w, b) ==
    /\ scanned
    /\ \E stale \in SUBSET {k \in InBatch(b) : ~Solid(old[Place(b, k)], n)} :
          buf' = [buf EXCEPT ![w] =
                    [k \in 1..Batch |-> IF k \in InBatch(b) \ stale
                                        THEN BytesAt(mem, old[Place(b, k)], n)
                                        ELSE buf[w][k]]]
    /\ job' = [job EXCEPT ![w] = b]
    /\ UNCHANGED skipped

Read(w) ==
    /\ busy /\ job[w] = Idle
    /\ \E j \in todo :
          /\ todo' = todo \ {j}
          /\ ReadChunk(w, j) \/ ReadBatch(w, j)
    /\ UNCHANGED <<mem, scanned, matches, busy, data, old, hits, calls, history>>

\* Faulty variant: only the windows that end in the chunk are compared.
EqualInChunk(w) ==
    {k \in Tests(job[w]) : Slot(w, k) = data /\ (~scanned => k + n - 1 <= Page)}

Equal(w) == {k \in Tests(job[w]) : Slot(w, k) = data}

\* Faulty variant: a job without a hit is never handed in.
CompareHanging(w) ==
    /\ job[w] # Idle
    /\ hits' = [hits EXCEPT ![job[w]] = Equal(w)]
    /\ job' = IF Equal(w) = {} THEN job ELSE [job EXCEPT ![w] = Idle]
    /\ UNCHANGED <<mem, scanned, matches, busy, data, old, todo, buf, skipped,
                   calls, history>>

Compare(w) ==
    /\ job[w] # Idle
    /\ hits' = [hits EXCEPT ![job[w]] = Equal(w)]
    /\ job' = [job EXCEPT ![w] = Idle]
    /\ UNCHANGED <<mem, scanned, matches, busy, data, old, todo, buf, skipped,
                   calls, history>>

-----------------------------------------------------------------------------
RangeOf(c) == CHOOSE r \in ScanRanges : c \in Window(r.base, r.size)

Hits == UNION {{c} \X hits[c] : c \in DOMAIN hits}

\* par_bridge hands on the results of a range in any order, those of a chunk
\* together and ascending; the ranges follow each other as in the map.
Collected ==
    {f \in Orders(Hits) :
        \A i, j \in DOMAIN f : i < j =>
            /\ RangeOf(f[i][1]).base <= RangeOf(f[j][1]).base
            /\ f[i][1] = f[j][1] => /\ f[i][2] < f[j][2]
                                    /\ \A k \in i..j : f[k][1] = f[i][1]}

\* par_chunks keeps the order of the batches.
Kept ==
    {f \in Orders(UNION {{Place(b, k) : k \in hits[b]} : b \in DOMAIN hits}) :
        Increasing(f)}

\* Faulty variant: what the filter keeps is added to the list it was given.
FinishAppending ==
    /\ busy /\ todo = {} /\ \A w \in Worker : job[w] = Idle
    /\ busy' = FALSE /\ scanned' = TRUE
    /\ IF scanned
       THEN \E pick \in Kept :
               matches' = old \o [k \in DOMAIN pick |-> old[pick[k]]]
       ELSE \E order \in Collected :
               matches' = matches \o [i \in DOMAIN order |->
                                        order[i][1] + order[i][2] - 1]
    /\ UNCHANGED <<mem, data, old, todo, job, buf, hits, skipped, calls, history>>

Finish ==
    /\ busy /\ todo = {} /\ \A w \in Worker : job[w] = Idle
    /\ busy' = FALSE /\ scanned' = TRUE
    /\ IF scanned
       THEN \E pick \in Kept :
               matches' = [k \in DOMAIN pick |-> old[pick[k]]]
       ELSE \E order \in Collected :
               matches' = matches \o [i \in DOMAIN order |->
                                        order[i][1] + order[i][2] - 1]
    /\ UNCHANGED <<mem, data, old, todo, job, buf, hits, skipped, calls, history>>

TargetWrite ==
    /\ busy /\ writes < MaxWrites
    /\ \E a \in Mapped, b \in Byte : mem' = [mem EXCEPT ![a] = b]
    /\ stable' = stable \cap Holding(mem', data)
    /\ ever' = ever \cup Holding(mem', data)
    /\ writes' = writes + 1
    /\ UNCHANGED <<scanned, matches, pool>>

-----------------------------------------------------------------------------
Work(w) == Read(w) \/ Compare(w)

Next ==
    \/ \E d \in Data : Begin(d)
    \/ \E w \in Worker : Work(w)
    \/ Finish
    \/ TargetWrite

Spec == Init /\ [][Next]_vars

\* A worker of the pool runs on, and the caller collects when all are done.
FairSpec == Spec /\ WF_vars(\E w \in Worker : Work(w)) /\ WF_vars(Finish)

-----------------------------------------------------------------------------
(***************************************************************************)
(* Properties.                                                             *)
(***************************************************************************)
TypeOK ==
    /\ mem \in Memory
    /\ scanned \in BOOLEAN /\ busy \in BOOLEAN
    /\ matches \in Seq(Addr) /\ old \in Seq(Addr)
    /\ todo \subseteq DOMAIN hits
    /\ job \in [Worker -> DOMAIN hits \cup {Idle}]
    /\ busy => \A w \in Worker :
          IF scanned THEN buf[w] \in [1..Batch -> [1..n -> Byte]]
                     ELSE buf[w] \in [1 .. Page + n - 1 -> Byte]
    /\ \A j \in DOMAIN hits : hits[j] \subseteq Nat

Ends == busy /\ ~busy'

\* The list as the caller knows it: a filter that runs has taken it away.
List == IF busy /\ scanned THEN old ELSE matches

Atomic == INSTANCE ValueScanner WITH matches <- List

\* On a memory that holds still the parallel pass is the one atomic step of
\* ValueScanner, whatever the workers do, and before it ends nothing changes
\* (value_scanner.rs:45-150).
QuietScanIsAtomic ==
    [][IF Ends THEN writes = 0 => Atomic!ScanFor2(data)
               ELSE UNCHANGED <<scanned, List>>]_vars

\* While the memory changes: an address that held the value all through the
\* call is found if its chunk was read, across the boundary of two chunks as
\* well; a match that did and could be read is kept.
NothingMissed ==
    [][Ends =>
         IF scanned
         THEN \A i \in 1..Len(old) :
                 old[i] \in stable /\ Solid(old[i], n) => old[i] \in Range(matches')
         ELSE \A a \in stable :
                 (\E c \in Chunks \ skipped : a \in Window(c, Page))
                    => a \in Range(matches')]_vars

\* While the memory changes: what a pass reports held the value at some time
\* of the call.  The exception is a match in a hole, which a filter compares
\* with what an earlier batch left in the buffer (value_scanner.rs:126-140).
NothingInvented ==
    [][Ends =>
         \A a \in Range(matches') :
            \/ a \in ever
            \/ IF scanned THEN ~Solid(a, n) ELSE a \in Range(matches)]_vars

\* A filter keeps the order of the list and adds nothing to it, and a first
\* pass leaves what is in the list where it is and adds no address twice,
\* although the chunks overlap (value_scanner.rs:68, 111-119).
OrderKept ==
    [][Ends =>
         IF scanned
         THEN \E pick \in Picks(Len(old)) :
                 matches' = [k \in DOMAIN pick |-> old[pick[k]]]
         ELSE /\ IsPrefix(matches, matches')
              /\ \A i, j \in Len(matches) + 1 .. Len(matches') :
                    matches'[i] = matches'[j] => i = j]_vars

\* Every call ends.
CallEnds == busy ~> ~busy

=============================================================================
