--------------------------- MODULE ValueScanProofs ---------------------------
(***************************************************************************)
(* The parallel scan for any number of workers, any pages, batches and     *)
(* lists, and whatever the target writes meanwhile: it misses nothing that *)
(* held the value all the time, invents nothing, keeps the order, and on a *)
(* memory that holds still it is the atomic step a session sees.           *)
(***************************************************************************)
EXTENDS ValueScan, TLAPS, SequenceTheorems, FiniteSetTheorems

Jobs == IF scanned THEN Batches(Len(old)) ELSE Chunks

\* The address that comparison k of job j is about.
At(j, k) == IF scanned THEN old[Place(j, k)] ELSE j + k - 1

\* A filter may take anything for what is in a hole.
Sure(a) == ~scanned \/ Solid(a, n)

\* K has the comparisons of j that must succeed, and none that must fail.
Complete(j, K) ==
    \A k \in Tests(j) : At(j, k) \in stable /\ Sure(At(j, k)) => k \in K

Honest(j, K) ==
    \A k \in K : k \in Tests(j) /\ (At(j, k) \in ever \/ ~Sure(At(j, k)))

Types ==
    /\ mem \in Memory /\ scanned \in BOOLEAN /\ busy \in BOOLEAN
    /\ matches \in Seq(Addr) /\ old \in Seq(Addr)
    /\ job \in [Worker -> Nat \cup {Idle}]
    /\ buf = [w \in Worker |-> buf[w]]
    /\ ~busy => \A w \in Worker : job[w] = Idle

\* A call and its jobs.
Running ==
    /\ data \in Data /\ todo \subseteq Jobs
    /\ hits \in [Jobs -> SUBSET Nat]
    /\ scanned => \A w \in Worker : buf[w] = [k \in 1..Batch |-> buf[w][k]]

\* The history variables say what they should.
Tracked ==
    /\ stable \subseteq Holding(mem, data) /\ Holding(mem, data) \subseteq ever
    /\ ever \subseteq Addr /\ writes \in Nat
    /\ writes = 0 => ever \subseteq stable
    /\ skipped \subseteq Unreliable(n)

\* A job that is to do, or was left out, has no hits and nobody works on it.
Once ==
    /\ todo \cap skipped = {}
    /\ \A j \in Jobs : j \in todo \cup skipped =>
          hits[j] = {} /\ \A w \in Worker : job[w] # j

\* No job gets lost: one that nobody works on any more has its result.
Accounted ==
    \A j \in Jobs : \/ j \in todo \cup skipped
                    \/ \E w \in Worker : job[w] = j
                    \/ Complete(j, hits[j])

\* What is handed in, and what will be, is right.
Results == \A j \in Jobs : Honest(j, hits[j])

InHand ==
    \A w \in Worker : job[w] # Idle =>
        /\ job[w] \in Jobs
        /\ Complete(job[w], Equal(w)) /\ Honest(job[w], Equal(w))

NoneSkipped == scanned => skipped = {}

ScanInv ==
    Types /\ (busy => /\ Running /\ Tracked /\ Once /\ Accounted
                      /\ Results /\ InHand /\ NoneSkipped)

-----------------------------------------------------------------------------
(***************************************************************************)
(* Jobs, places and buffers.                                               *)
(***************************************************************************)
LEMMA JobFacts ==
  /\ Page \in Nat \ {0} /\ Batch \in Nat \ {0} /\ Idle \notin Nat
  /\ Addr \subseteq Nat /\ Chunks \subseteq Nat
  /\ \A c \in Chunks : \A k \in 1..Page :
        c + k - 1 \in Addr /\ c + k - 1 \in Window(c, Page)
<1>1. /\ Page \in Nat \ {0} /\ Batch \in Nat \ {0} /\ Idle \notin Nat
      /\ Addr \subseteq Nat /\ Chunks \subseteq Nat
  BY TargetAssumption, ValueScanAssumption
<1>2. ASSUME NEW c \in Chunks, NEW k \in 1..Page
      PROVE  c + k - 1 \in Addr /\ c + k - 1 \in Window(c, Page)
  <2>1. c \in Nat /\ c + k - 1 \in c .. (c + Page - 1)
    BY <1>1
  <2> QED
    BY <2>1, ValueScanAssumption DEF Window
<1> QED
  BY <1>1, <1>2

LEMMA DataFacts ==
  ASSUME data \in Data
  PROVE  data \in Seq(Byte) /\ n \in Nat \ {0}
<1>1. data \in Seq(Byte) /\ data # <<>>
  BY ValueScanAssumption
<1> QED
  BY <1>1 DEF n

\* Each place of a list is one match of one batch.
LEMMA PlaceFacts ==
  ASSUME NEW len \in Nat
  PROVE  /\ \A b \in Batches(len), k \in 1..Batch : Place(b, k) \in Nat \ {0}
         /\ \A i \in 1..len : \E b \in Batches(len), k \in 1..Batch : Place(b, k) = i
<1>1. Batch \in Nat \ {0}
  BY JobFacts
<1>2. ASSUME NEW b \in Batches(len), NEW k \in 1..Batch
      PROVE  Place(b, k) \in Nat \ {0}
  <2>1. b \in Nat \ {0}
    BY <1>1 DEF Batches
  <2>2. (b - 1) * Batch \in Nat
    BY <1>1, <2>1
  <2> QED
    BY <2>2 DEF Place
<1>3. ASSUME NEW i \in 1..len
      PROVE  \E b \in Batches(len), k \in 1..Batch : Place(b, k) = i
  <2> DEFINE q == (i - 1) \div Batch
             r == (i - 1) % Batch
  <2>1. /\ q \in Nat /\ r \in 0 .. Batch - 1 /\ i - 1 = Batch * q + r
        /\ q * Batch = Batch * q
    BY <1>1
  <2>2. q + 1 \in Batches(len)
    <3> DEFINE m == (len + Batch - 1) \div Batch
    <3>1. m \in Nat /\ m * Batch >= len
      BY <1>1
    <3> HIDE DEF q, r
    <3>2. q * Batch < m * Batch
      <4> HIDE DEF m
      <4> QED
        BY <1>1, <2>1, <3>1
    <3>3. q < m
      <4> HIDE DEF m
      <4> QED
        BY <1>1, <2>1, <3>1, <3>2
    <3> QED
      BY <2>1, <3>1, <3>3 DEF Batches
  <2>3. r + 1 \in 1..Batch /\ Place(q + 1, r + 1) = i
    <3> HIDE DEF q, r
    <3> QED
      BY <1>1, <2>1 DEF Place
  <2> QED
    BY <2>2, <2>3
<1> QED
  BY <1>2, <1>3

\* The comparisons of a job are about addresses.
LEMMA AtFacts ==
  ASSUME Types, NEW j \in Jobs, NEW k \in Tests(j)
  PROVE  /\ At(j, k) \in Addr /\ k \in Nat \ {0} /\ j \in Nat
         /\ scanned => Place(j, k) \in 1..Len(old) /\ k \in 1..Batch
<1>1. CASE scanned
  <2>1. j \in Batches(Len(old)) /\ k \in 1..Batch /\ Place(j, k) <= Len(old)
    BY <1>1 DEF Jobs, Tests, InBatch
  <2>2. old \in Seq(Addr) /\ Len(old) \in Nat
    BY DEF Types
  <2>3. Place(j, k) \in 1..Len(old)
    BY <2>1, <2>2, PlaceFacts
  <2>4. j \in Nat
    BY <2>1, <2>2, JobFacts DEF Batches
  <2> QED
    BY <1>1, <2>1, <2>2, <2>3, <2>4, JobFacts DEF At
<1>2. CASE ~scanned
  <2>1. j \in Chunks /\ k \in 1..Page /\ At(j, k) = j + k - 1
    BY <1>2 DEF Jobs, Tests, At
  <2>2. j + k - 1 \in Addr /\ j \in Nat /\ k \in Nat \ {0}
    BY <2>1, JobFacts
  <2> QED
    BY <1>2, <2>1, <2>2
<1> QED
  BY <1>1, <1>2

\* A window of the buffer is what is read at its address.
LEMMA WindowRead ==
  ASSUME NEW c \in Nat, NEW k \in 1..Page, NEW len \in Nat
  PROVE  SubSeq(BytesAt(mem, c, Page + len - 1), k, k + len - 1)
           = BytesAt(mem, c + k - 1, len)
<1> DEFINE s == BytesAt(mem, c, Page + len - 1)
           t == SubSeq(s, k, k + len - 1)
<1>1. Page \in Nat \ {0}
  BY JobFacts
<1>2. s = [i \in 1 .. Page + len - 1 |->
             IF c + i - 1 \in Mapped THEN mem[c + i - 1] ELSE Zero]
  BY DEF BytesAt
<1>3. t = [i \in 1..len |-> s[k + i - 1]]
  <2> DEFINE S == {s[i] : i \in 1 .. Page + len - 1}
  <2>1. \A i \in k .. k + len - 1 : s[i] \in S
    BY <1>1
  <2> HIDE DEF s, S
  <2>2. /\ t \in Seq(S)
        /\ Len(t) = IF k <= k + len - 1 THEN (k + len - 1) - k + 1 ELSE 0
        /\ \A i \in 1 .. (k + len - 1) - k + 1 : t[i] = s[k + i - 1]
    BY <2>1, SubSeqProperties
  <2>3. (k + len - 1) - k + 1 = len /\ (k <= k + len - 1 <=> len > 0)
    BY <1>1
  <2> HIDE DEF t
  <2>4. Len(t) = len /\ \A i \in 1..len : t[i] = s[k + i - 1]
    BY <2>2, <2>3
  <2>5. t = [i \in 1..Len(t) |-> t[i]]
    BY <2>2
  <2> QED
    BY <2>4, <2>5
<1>4. \A i \in 1..len : /\ k + i - 1 \in 1 .. Page + len - 1
                        /\ c + (k + i - 1) - 1 = (c + k - 1) + i - 1
  BY <1>1
<1>5. \A i \in 1..len :
         s[k + i - 1] = IF (c + k - 1) + i - 1 \in Mapped
                        THEN mem[(c + k - 1) + i - 1] ELSE Zero
  BY <1>2, <1>4
<1> HIDE DEF s, t
<1>6. t = BytesAt(mem, c + k - 1, len)
  BY <1>3, <1>5 DEF BytesAt
<1> QED
  BY <1>6 DEF s, t

-----------------------------------------------------------------------------
(***************************************************************************)
(* Every step keeps the invariant.                                         *)
(***************************************************************************)
LEMMA JobsNat ==
  ASSUME Types
  PROVE  Jobs \subseteq Nat /\ Idle \notin Jobs
BY JobFacts DEF Types, Jobs, Batches

\* What a job is about does not change while a call is running.
LEMMA PassSame ==
  ASSUME UNCHANGED <<scanned, old, data>>
  PROVE  /\ Jobs' = Jobs /\ n' = n
         /\ \A j : Tests(j)' = Tests(j)
         /\ \A j, k : At(j, k)' = At(j, k)
         /\ \A a : Sure(a)' = Sure(a)
BY DEF Jobs, n, Tests, InBatch, At, Place, Sure

LEMMA BufferSame ==
  ASSUME UNCHANGED <<scanned, old, data>>, NEW w, buf'[w] = buf[w], job'[w] = job[w]
  PROVE  Equal(w)' = Equal(w)
<1>1. \A k : Slot(w, k)' = Slot(w, k)
  BY DEF Slot, n
<1>2. Tests(job[w])' = Tests(job[w])
  BY DEF Tests, InBatch, Place
<1> QED
  BY <1>1, <1>2 DEF Equal

LEMMA BeginKeeps ==
  ASSUME ScanInv, NEW d \in Data, Begin(d)
  PROVE  ScanInv'
<1>1. /\ Types /\ ~busy /\ busy' = TRUE /\ data' = d
      /\ UNCHANGED <<mem, scanned, job>>
      /\ todo' = Jobs' /\ hits' = [j \in todo' |-> {}] /\ skipped' = {}
      /\ stable' = Holding(mem, d) /\ ever' = Holding(mem, d) /\ writes' = 0
      /\ matches' \in Seq(Addr) /\ old' \in Seq(Addr)
      /\ buf' = [w \in Worker |-> buf'[w]]
      /\ scanned => \A w \in Worker : buf'[w] = [k \in 1..Batch |-> buf'[w][k]]
  <2>1. /\ Types /\ ~busy /\ busy' = TRUE /\ data' = d
        /\ UNCHANGED <<mem, scanned, job>>
        /\ hits' = [j \in todo' |-> {}] /\ skipped' = {}
        /\ stable' = Holding(mem, d) /\ ever' = Holding(mem, d) /\ writes' = 0
    BY DEF ScanInv, Begin
  <2>2. CASE scanned
    <3>1. /\ old' = matches /\ matches' = <<>> /\ todo' = Batches(Len(matches))
          /\ buf' = [w \in Worker |-> [k \in 1..Batch |-> Zeros(Len(d))]]
      BY <2>2 DEF Begin
    <3>2. todo' = Jobs' /\ old' \in Seq(Addr) /\ matches' \in Seq(Addr)
      BY <2>1, <2>2, <3>1 DEF Jobs, Batches, Types
    <3>3. \A w \in Worker : buf'[w] = [k \in 1..Batch |-> Zeros(Len(d))]
      BY <3>1
    <3>4. \A w \in Worker : buf'[w] = [k \in 1..Batch |-> buf'[w][k]]
      BY <3>3
    <3>5. buf' = [w \in Worker |-> buf'[w]]
      BY <3>1
    <3> QED
      BY <2>1, <3>2, <3>4, <3>5
  <2>3. CASE ~scanned
    <3>1. /\ UNCHANGED <<old, matches>> /\ todo' = Chunks
          /\ buf' = [w \in Worker |-> Zeros(Page + Len(d) - 1)]
      BY <2>3 DEF Begin
    <3>2. buf' = [w \in Worker |-> buf'[w]]
      BY <3>1
    <3> QED
      BY <2>1, <2>3, <3>1, <3>2 DEF Jobs, Types
  <2> QED
    BY <2>2, <2>3
<1>2. \A w \in Worker : job'[w] = Idle
  BY <1>1 DEF Types
<1>3. Types'
  BY <1>1 DEF Types
<1>4. Running'
  BY <1>1 DEF Running
<1>5. Tracked'
  BY <1>1 DEF Tracked, Holding
<1>6. Once'
  <2>1. Jobs' \subseteq Nat
    BY <1>3, JobFacts DEF Types, Jobs, Batches
  <2> QED
    BY <1>1, <1>2, <2>1, JobFacts DEF Once
<1>7. Accounted' /\ Results' /\ InHand' /\ NoneSkipped'
  BY <1>1, <1>2 DEF Accounted, Results, Honest, InHand, NoneSkipped
<1> QED
  BY <1>3, <1>4, <1>5, <1>6, <1>7 DEF ScanInv

\* A worker has read the part of the memory a job is about.
LEMMA TakeKeeps ==
  ASSUME ScanInv, busy, NEW w \in Worker, NEW j \in todo, job[w] = Idle,
         todo' = todo \ {j}, job' = [job EXCEPT ![w] = j],
         NEW B, buf' = [buf EXCEPT ![w] = B],
         scanned => B = [k \in 1..Batch |-> B[k]],
         UNCHANGED <<mem, scanned, matches, busy, data, old, hits, skipped, history>>,
         Complete(j, {k \in Tests(j) : Slot(w, k)' = data}),
         Honest(j, {k \in Tests(j) : Slot(w, k)' = data})
  PROVE  ScanInv'
<1>1. /\ Types /\ Running /\ Tracked /\ Once /\ Accounted /\ Results /\ InHand
      /\ NoneSkipped
  BY DEF ScanInv
<1>2. /\ Jobs \subseteq Nat /\ Idle \notin Jobs /\ j \in Jobs /\ j \notin skipped
  BY <1>1, JobsNat DEF Running, Once
<1>3. /\ Jobs' = Jobs /\ n' = n
      /\ \A i : Tests(i)' = Tests(i)
      /\ \A i, k : At(i, k)' = At(i, k)
      /\ \A a : Sure(a)' = Sure(a)
  BY PassSame
<1>4. /\ \A v \in Worker : v # w => job'[v] = job[v] /\ buf'[v] = buf[v]
      /\ job'[w] = j /\ buf'[w] = B /\ job' \in [Worker -> Nat \cup {Idle}]
      /\ buf' = [v \in Worker |-> buf'[v]]
  BY <1>1, <1>2 DEF Types
<1>5. Types'
  BY <1>1, <1>4 DEF Types
<1>6. Running'
  BY <1>1, <1>3, <1>4 DEF Running
<1>7. Tracked'
  BY <1>1, <1>3 DEF Tracked, Holding, history
<1>8. Once'
  BY <1>1, <1>2, <1>3, <1>4 DEF Once
<1>9. \A i, K : /\ Complete(i, K)' = Complete(i, K)
                /\ Honest(i, K)' = Honest(i, K)
  BY <1>3 DEF Complete, Honest, history
<1>10. Accounted'
  BY <1>1, <1>2, <1>3, <1>4, <1>9 DEF Accounted
<1>11. Results'
  BY <1>1, <1>3, <1>9 DEF Results
<1>12. InHand'
  <2> SUFFICES ASSUME NEW v \in Worker, job'[v] # Idle
               PROVE  /\ job'[v] \in Jobs
                      /\ Complete(job'[v], Equal(v)') /\ Honest(job'[v], Equal(v)')
    BY <1>3, <1>9 DEF InHand
  <2>1. CASE v = w
    <3>1. Equal(w)' = {k \in Tests(j) : Slot(w, k)' = data}
      BY <1>3, <1>4 DEF Equal
    <3> QED
      BY <1>2, <1>4, <2>1, <3>1
  <2>2. CASE v # w
    <3>1. Equal(v)' = Equal(v) /\ job'[v] = job[v]
      BY <1>4, <2>2, BufferSame
    <3> QED
      BY <1>1, <2>2, <3>1 DEF InHand
  <2> QED
    BY <2>1, <2>2
<1>13. NoneSkipped'
  BY <1>1 DEF NoneSkipped
<1> QED
  BY <1>5, <1>6, <1>7, <1>8, <1>10, <1>11, <1>12, <1>13 DEF ScanInv

LEMMA ReadKeeps ==
  ASSUME ScanInv, NEW w \in Worker, Read(w)
  PROVE  ScanInv'
<1>1. PICK j \in todo : /\ todo' = todo \ {j}
                        /\ ReadChunk(w, j) \/ ReadBatch(w, j)
  BY DEF Read
<1>2. /\ busy /\ job[w] = Idle
      /\ UNCHANGED <<mem, scanned, matches, busy, data, old, hits, calls, history>>
  BY DEF Read
<1>3. /\ Types /\ Running /\ Tracked /\ Once /\ Accounted /\ Results /\ InHand
      /\ NoneSkipped /\ j \in Jobs
  BY <1>1, <1>2 DEF ScanInv, Running
<1>4. n \in Nat \ {0} /\ Len(data) = n /\ n' = n
  BY <1>2, <1>3, DataFacts DEF Running, n
<1>5. stable \subseteq Holding(mem, data) /\ Holding(mem, data) \subseteq ever
  BY <1>3 DEF Tracked
<1>6. buf = [v \in Worker |-> buf[v]]
  BY <1>3 DEF Types
<1>7. ASSUME ~scanned, job' = [job EXCEPT ![w] = j], UNCHANGED skipped,
             buf' = [buf EXCEPT ![w] = BytesAt(mem, j, Page + n - 1)]
      PROVE  ScanInv'
  <2> DEFINE B == BytesAt(mem, j, Page + n - 1)
  <2>1. buf'[w] = B /\ j \in Nat /\ Tests(j) = 1..Page
    BY <1>3, <1>6, <1>7, JobFacts DEF Jobs, Tests
  <2>2. ASSUME NEW k \in Tests(j)
        PROVE  Slot(w, k)' = BytesAt(mem, j + k - 1, n) /\ At(j, k) = j + k - 1
    <3>1. Slot(w, k)' = SubSeq(B, k, k + n - 1)
      BY <1>2, <1>4, <1>7, <2>1 DEF Slot
    <3> QED
      BY <1>4, <1>7, <2>1, <3>1, WindowRead DEF At
  <2>3. \A k \in Tests(j) : Slot(w, k)' = data <=> At(j, k) \in Holding(mem, data)
    <3>1. \A k \in Tests(j) : At(j, k) \in Addr
      BY <1>3, AtFacts
    <3> QED
      BY <1>4, <2>2, <3>1 DEF Holding, Holds
  <2>4. /\ Complete(j, {k \in Tests(j) : Slot(w, k)' = data})
        /\ Honest(j, {k \in Tests(j) : Slot(w, k)' = data})
    BY <1>5, <2>3 DEF Complete, Honest
  <2> QED
    BY <1>1, <1>2, <1>7, <2>4, TakeKeeps
<1>8. ASSUME ~scanned, ~Solid(j, Page + n - 1), skipped' = skipped \cup {j},
             UNCHANGED <<buf, job>>
      PROVE  ScanInv'
  <2>1. /\ Jobs' = Jobs /\ n' = n /\ Jobs = Chunks
        /\ \A i : Tests(i)' = Tests(i)
        /\ \A i, k : At(i, k)' = At(i, k)
        /\ \A a : Sure(a)' = Sure(a)
    BY <1>2, <1>8, PassSame DEF Jobs
  <2>2. \A i, K : /\ Complete(i, K)' = Complete(i, K)
                  /\ Honest(i, K)' = Honest(i, K)
    BY <1>2, <2>1 DEF Complete, Honest, history
  <2>3. \A v : Equal(v)' = Equal(v)
    BY <1>2, <1>8, BufferSame
  <2>4. Types' /\ Running'
    BY <1>1, <1>2, <1>3, <1>8, <2>1 DEF Types, Running
  <2>5. Tracked'
    BY <1>2, <1>3, <1>8, <2>1 DEF Tracked, Holding, history, Unreliable
  <2>6. Once'
    BY <1>1, <1>2, <1>3, <1>8, <2>1 DEF Once
  <2>7. Accounted'
    BY <1>1, <1>2, <1>3, <1>8, <2>1, <2>2 DEF Accounted
  <2>8. Results' /\ InHand'
    BY <1>2, <1>3, <1>8, <2>1, <2>2, <2>3 DEF Results, InHand
  <2>9. NoneSkipped'
    BY <1>2, <1>8 DEF NoneSkipped
  <2> QED
    BY <2>4, <2>5, <2>6, <2>7, <2>8, <2>9 DEF ScanInv
<1>9. ASSUME NEW stale \in SUBSET {k \in InBatch(j) : ~Solid(old[Place(j, k)], n)},
             scanned, job' = [job EXCEPT ![w] = j], UNCHANGED skipped,
             buf' = [buf EXCEPT ![w] =
                       [k \in 1..Batch |-> IF k \in InBatch(j) \ stale
                                           THEN BytesAt(mem, old[Place(j, k)], n)
                                           ELSE buf[w][k]]]
      PROVE  ScanInv'
  <2> DEFINE B == [k \in 1..Batch |-> IF k \in InBatch(j) \ stale
                                      THEN BytesAt(mem, old[Place(j, k)], n)
                                      ELSE buf[w][k]]
  <2>1. /\ buf'[w] = B /\ B = [k \in 1..Batch |-> B[k]]
        /\ Tests(j) = InBatch(j) /\ InBatch(j) \subseteq 1..Batch
    BY <1>6, <1>9 DEF Tests, InBatch
  <2>2. \A k \in Tests(j) : At(j, k) = old[Place(j, k)] /\ At(j, k) \in Addr
    BY <1>3, <1>9, AtFacts DEF At
  <2>3. \A k \in Tests(j) : Sure(At(j, k)) =>
           Slot(w, k)' = BytesAt(mem, At(j, k), n)
    BY <1>2, <1>9, <2>1, <2>2 DEF Slot, Sure
  <2>4. \A k \in Tests(j) : Sure(At(j, k)) =>
           (Slot(w, k)' = data <=> At(j, k) \in Holding(mem, data))
    BY <1>4, <2>2, <2>3 DEF Holding, Holds
  <2>5. /\ Complete(j, {k \in Tests(j) : Slot(w, k)' = data})
        /\ Honest(j, {k \in Tests(j) : Slot(w, k)' = data})
    BY <1>5, <2>4 DEF Complete, Honest
  <2>6. buf' = [buf EXCEPT ![w] = B]
    BY <1>9
  <2> HIDE DEF B
  <2> QED
    BY <1>1, <1>2, <1>9, <2>1, <2>5, <2>6, TakeKeeps
<1>10. CASE ReadChunk(w, j)
  BY <1>7, <1>8, <1>10 DEF ReadChunk
<1>11. CASE ReadBatch(w, j)
  BY <1>9, <1>11 DEF ReadBatch
<1> QED
  BY <1>1, <1>10, <1>11

LEMMA CompareKeeps ==
  ASSUME ScanInv, NEW w \in Worker, Compare(w)
  PROVE  ScanInv'
<1> DEFINE j == job[w]
<1>1. /\ j # Idle /\ hits' = [hits EXCEPT ![j] = Equal(w)]
      /\ job' = [job EXCEPT ![w] = Idle]
      /\ UNCHANGED <<mem, scanned, matches, busy, data, old, todo, buf, skipped,
                     calls, history>>
  BY DEF Compare
<1>2. busy
  BY <1>1 DEF ScanInv, Types
<1>3. /\ Types /\ Running /\ Tracked /\ Once /\ Accounted /\ Results /\ InHand
      /\ NoneSkipped
  BY <1>2 DEF ScanInv
<1>4. j \in Jobs /\ Complete(j, Equal(w)) /\ Honest(j, Equal(w))
  BY <1>1, <1>3 DEF InHand
<1>5. Jobs \subseteq Nat /\ Idle \notin Jobs
  BY <1>3, JobsNat
<1>6. /\ Jobs' = Jobs /\ n' = n
      /\ \A i : Tests(i)' = Tests(i)
      /\ \A i, k : At(i, k)' = At(i, k)
      /\ \A a : Sure(a)' = Sure(a)
  BY <1>1, PassSame
<1>7. \A i, K : /\ Complete(i, K)' = Complete(i, K)
                /\ Honest(i, K)' = Honest(i, K)
  BY <1>1, <1>6 DEF Complete, Honest, history
<1>8. Equal(w) \in SUBSET Nat
  BY <1>3, <1>4, AtFacts DEF Honest
<1>9. /\ hits' \in [Jobs -> SUBSET Nat] /\ hits'[j] = Equal(w)
      /\ \A i \in Jobs : i # j => hits'[i] = hits[i]
  BY <1>1, <1>3, <1>4, <1>8 DEF Running
<1>10. /\ \A v \in Worker : v # w => job'[v] = job[v]
       /\ job'[w] = Idle /\ job' \in [Worker -> Nat \cup {Idle}]
  BY <1>1, <1>3 DEF Types
<1> HIDE DEF j
<1>11. Types'
  BY <1>1, <1>2, <1>3, <1>10 DEF Types
<1>12. Running'
  BY <1>1, <1>3, <1>6, <1>9 DEF Running
<1>13. Tracked'
  BY <1>1, <1>3, <1>6 DEF Tracked, Holding, history
<1>14. Once'
  <2>1. \A i \in Jobs : i \in todo \cup skipped => i # j
    BY <1>3 DEF Once, j
  <2> QED
    BY <1>1, <1>3, <1>5, <1>6, <1>9, <1>10, <2>1 DEF Once
<1>15. Accounted'
  <2> SUFFICES ASSUME NEW i \in Jobs
               PROVE  \/ i \in todo \cup skipped
                      \/ \E v \in Worker : job'[v] = i
                      \/ Complete(i, hits'[i])
    BY <1>1, <1>6, <1>7 DEF Accounted
  <2>1. CASE i = j
    BY <1>4, <1>9, <2>1
  <2>2. CASE i # j
    BY <1>3, <1>9, <1>10, <2>2 DEF Accounted, j
  <2> QED
    BY <2>1, <2>2
<1>16. Results'
  BY <1>3, <1>4, <1>6, <1>7, <1>9 DEF Results
<1>17. InHand'
  <2> SUFFICES ASSUME NEW v \in Worker, job'[v] # Idle
               PROVE  /\ job'[v] \in Jobs
                      /\ Complete(job'[v], Equal(v)') /\ Honest(job'[v], Equal(v)')
    BY <1>6, <1>7 DEF InHand
  <2>1. v # w /\ job'[v] = job[v]
    BY <1>10
  <2>2. Equal(v)' = Equal(v)
    BY <1>1, <2>1, BufferSame
  <2> QED
    BY <1>3, <2>1, <2>2 DEF InHand
<1>18. NoneSkipped'
  BY <1>1, <1>3 DEF NoneSkipped
<1> QED
  BY <1>11, <1>12, <1>13, <1>14, <1>15, <1>16, <1>17, <1>18 DEF ScanInv

LEMMA TargetKeeps ==
  ASSUME ScanInv, TargetWrite
  PROVE  ScanInv'
<1>1. /\ busy /\ UNCHANGED <<scanned, matches, pool>> /\ writes' = writes + 1
      /\ stable' = stable \cap Holding(mem', data)
      /\ ever' = ever \cup Holding(mem', data)
      /\ \E a \in Mapped, b \in Byte : mem' = [mem EXCEPT ![a] = b]
  BY DEF TargetWrite
<1>2. /\ Types /\ Running /\ Tracked /\ Once /\ Accounted /\ Results /\ InHand
      /\ NoneSkipped
  BY <1>1 DEF ScanInv
<1>3. UNCHANGED <<busy, data, old, todo, job, buf, hits, skipped, calls>>
  BY <1>1 DEF pool
<1>4. mem' \in Memory
  BY <1>1, <1>2 DEF Types, Memory
<1>5. /\ Jobs' = Jobs /\ n' = n
      /\ \A i : Tests(i)' = Tests(i)
      /\ \A i, k : At(i, k)' = At(i, k)
      /\ \A a : Sure(a)' = Sure(a)
  BY <1>1, <1>3, PassSame
<1>6. \A i, K : /\ Complete(i, K) => Complete(i, K)'
                /\ Honest(i, K) => Honest(i, K)'
  BY <1>1, <1>5 DEF Complete, Honest
<1>7. \A v : Equal(v)' = Equal(v)
  BY <1>1, <1>3, BufferSame
<1>8. Types' /\ Running'
  BY <1>1, <1>2, <1>3, <1>4, <1>5 DEF Types, Running
<1>9. Tracked'
  BY <1>1, <1>2, <1>3, <1>5 DEF Tracked, Holding
<1>10. Once' /\ NoneSkipped'
  BY <1>1, <1>2, <1>3, <1>5 DEF Once, NoneSkipped
<1>11. Accounted' /\ Results'
  BY <1>2, <1>3, <1>5, <1>6 DEF Accounted, Results
<1>12. InHand'
  BY <1>2, <1>3, <1>5, <1>6, <1>7 DEF InHand
<1> QED
  BY <1>8, <1>9, <1>10, <1>11, <1>12 DEF ScanInv

LEMMA InitScan == Init => ScanInv
<1>1. ASSUME Init
      PROVE  Types /\ ~busy
  <2>1. /\ mem \in Memory /\ scanned = FALSE /\ busy = FALSE
        /\ matches \in Seq(Addr) /\ old = <<>>
        /\ job = [w \in Worker |-> Idle] /\ buf = [w \in Worker |-> <<>>]
    BY <1>1, ValueScanAssumption DEF Init
  <2>2. /\ job \in [Worker -> Nat \cup {Idle}] /\ \A w \in Worker : job[w] = Idle
        /\ buf = [w \in Worker |-> buf[w]]
    BY <2>1
  <2>3. old \in Seq(Addr)
    BY <2>1
  <2> QED
    BY <2>1, <2>2, <2>3 DEF Types
<1> QED
  BY <1>1 DEF ScanInv

-----------------------------------------------------------------------------
(***************************************************************************)
(* What a pass leaves when its last job is done.                           *)
(***************************************************************************)
LEMMA AllDone ==
  ASSUME ScanInv, Finish
  PROVE  /\ busy /\ Types /\ Running /\ Tracked /\ NoneSkipped
         /\ todo = {} /\ DOMAIN hits = Jobs
         /\ \A j \in Jobs : Honest(j, hits[j])
         /\ \A j \in Jobs \ skipped : Complete(j, hits[j])
         /\ \A j \in Jobs \cap skipped : hits[j] = {}
<1>1. busy /\ todo = {} /\ \A w \in Worker : job[w] = Idle
  BY DEF Finish
<1>2. /\ Types /\ Running /\ Tracked /\ Once /\ Accounted /\ Results
      /\ NoneSkipped
  BY <1>1 DEF ScanInv
<1>3. Idle \notin Jobs
  BY <1>2, JobsNat
<1> QED
  BY <1>1, <1>2, <1>3 DEF Running, Once, Accounted, Results

LEMMA FilterResult ==
  ASSUME ScanInv, Finish, scanned
  PROVE  \E pick \in Picks(Len(old)) :
            /\ matches' = [k \in DOMAIN pick |-> old[pick[k]]]
            /\ \A i \in 1..Len(old) :
                  /\ old[i] \in stable /\ Solid(old[i], n) => i \in Range(pick)
                  /\ i \in Range(pick) => old[i] \in ever \/ ~Solid(old[i], n)
<1> DEFINE P == UNION {{Place(b, k) : k \in hits[b]} : b \in DOMAIN hits}
<1>1. PICK pick \in Orders(P) :
         Increasing(pick) /\ matches' = [k \in DOMAIN pick |-> old[pick[k]]]
  BY DEF Finish, Kept
<1>2. /\ DOMAIN hits = Jobs /\ Jobs = Batches(Len(old)) /\ skipped = {} /\ Types
      /\ \A b \in Jobs : Honest(b, hits[b]) /\ Complete(b, hits[b])
      /\ old \in Seq(Addr) /\ Len(old) \in Nat
  BY AllDone DEF NoneSkipped, Jobs, Types
<1>3. ASSUME NEW b \in Jobs, NEW k \in Tests(b)
      PROVE  /\ Place(b, k) \in 1..Len(old) /\ At(b, k) = old[Place(b, k)]
             /\ Sure(At(b, k)) <=> Solid(At(b, k), n)
  BY <1>2, AtFacts DEF At, Sure
<1>4. \A i \in P : /\ i \in 1..Len(old)
                   /\ old[i] \in ever \/ ~Solid(old[i], n)
  <2> TAKE i \in P
  <2>1. PICK b \in Jobs : \E k \in hits[b] : i = Place(b, k)
    BY <1>2
  <2> PICK k \in hits[b] : i = Place(b, k)
    BY <2>1
  <2>2. k \in Tests(b) /\ (At(b, k) \in ever \/ ~Sure(At(b, k)))
    BY <1>2 DEF Honest
  <2> QED
    BY <1>3, <2>2
<1>5. ASSUME NEW i \in 1..Len(old), old[i] \in stable, Solid(old[i], n)
      PROVE  i \in P
  <2>1. PICK b \in Jobs, k \in 1..Batch : Place(b, k) = i
    BY <1>2, PlaceFacts
  <2>2. k \in Tests(b)
    BY <2>1 DEF Tests, InBatch
  <2>3. k \in hits[b]
    BY <1>2, <1>3, <1>5, <2>1, <2>2 DEF Complete
  <2> QED
    BY <1>2, <2>1, <2>3
<1> HIDE DEF P
<1>6. Cardinality(P) \in 0..Len(old)
  <2> DEFINE len == Len(old)
  <2>1. IsFiniteSet(1..Len(old)) /\ Cardinality(1..Len(old)) <= Len(old)
    <3> HIDE DEF len
    <3>1. /\ IsFiniteSet(1..len)
          /\ Cardinality(1..len) = IF 1 > len THEN 0 ELSE len - 1 + 1
      BY <1>2, FS_Interval DEF len
    <3>2. len \in Nat
      BY <1>2 DEF len
    <3>3. IsFiniteSet(1..len) /\ Cardinality(1..len) <= len
      BY <3>1, <3>2
    <3> QED
      BY <3>3 DEF len
  <2>2. P \in SUBSET (1..Len(old))
    BY <1>4
  <2>3. IsFiniteSet(P) /\ Cardinality(P) <= Cardinality(1..Len(old))
    BY <2>1, <2>2, FS_Subset
  <2>4. Cardinality(P) \in Nat /\ Cardinality(1..Len(old)) \in Nat
    BY <2>1, <2>3, FS_CardinalityType
  <2> QED
    BY <1>2, <2>1, <2>3, <2>4
<1>7. /\ pick \in [1..Cardinality(P) -> P]
      /\ \A i \in P : \E k \in 1..Cardinality(P) : pick[k] = i
  BY DEF Orders, Surjection
<1>8. pick \in Picks(Len(old))
  <2>1. pick \in [1..Cardinality(P) -> 1..Len(old)]
    BY <1>4, <1>7
  <2> QED
    BY <1>1, <1>6, <2>1 DEF Picks
<1>9. Range(pick) = P
  BY <1>7 DEF Range
<1> QED
  BY <1>1, <1>4, <1>5, <1>8, <1>9

LEMMA FirstResult ==
  ASSUME ScanInv, Finish, ~scanned
  PROVE  \E S \in SUBSET Addr : \E g \in Orders(S) :
            /\ matches' = matches \o g
            /\ S \subseteq ever
            /\ \A a \in stable :
                  (\E c \in Chunks \ skipped : a \in Window(c, Page)) => a \in S
            /\ \A a \in S : \E c \in Chunks \ skipped : a \in Window(c, Page)
<1> DEFINE h == [x \in Hits |-> x[1] + x[2] - 1]
           S == {h[x] : x \in Hits}
<1>1. PICK order \in Orders(Hits) :
         matches' = matches \o [i \in DOMAIN order |-> order[i][1] + order[i][2] - 1]
  BY DEF Finish, Collected
<1>2. /\ DOMAIN hits = Jobs /\ Jobs = Chunks /\ Types
      /\ \A c \in Chunks : Honest(c, hits[c])
      /\ \A c \in Chunks \ skipped : Complete(c, hits[c])
      /\ \A c \in Chunks \cap skipped : hits[c] = {}
  BY AllDone DEF Jobs
<1>3. ASSUME NEW c \in Chunks, NEW k \in 1..Page
      PROVE  k \in Tests(c) /\ At(c, k) = c + k - 1 /\ Sure(At(c, k))
  BY <1>3 DEF Tests, At, Sure
<1>4. ASSUME NEW x \in Hits
      PROVE  /\ x = <<x[1], x[2]>> /\ x[1] \in Chunks \ skipped /\ x[2] \in 1..Page
             /\ x[2] \in hits[x[1]]
             /\ h[x] \in Addr /\ h[x] \in ever /\ h[x] \in Window(x[1], Page)
  <2>1. PICK c \in Chunks : x \in {c} \X hits[c]
    BY <1>2 DEF Hits
  <2>2. x = <<x[1], x[2]>> /\ x[1] = c /\ x[2] \in hits[c]
    BY <2>1
  <2>3. x[2] \in 1..Page /\ (At(c, x[2]) \in ever \/ ~Sure(At(c, x[2])))
    BY <1>2, <2>2 DEF Honest, Tests
  <2>4. c \notin skipped
    BY <1>2, <2>2
  <2>5. h[x] = c + x[2] - 1
    BY <2>2
  <2>6. h[x] \in Addr /\ h[x] \in Window(c, Page) /\ h[x] \in ever
    <3> HIDE DEF h
    <3> QED
      BY <1>3, <2>3, <2>5, JobFacts
  <2> QED
    BY <2>2, <2>3, <2>4, <2>6
<1>5. \A x, y \in Hits : h[x] = h[y] => x = y
  <2> SUFFICES ASSUME NEW x \in Hits, NEW y \in Hits, h[x] = h[y]
               PROVE  x = y
    OBVIOUS
  <2>1. x[1] = y[1]
    BY <1>4, ValueScanAssumption
  <2>2. x[1] \in Nat /\ x[2] \in Int /\ y[2] \in Int
    BY <1>4, JobFacts
  <2>3. x[2] = y[2]
    BY <2>1, <2>2
  <2> QED
    BY <1>4, <2>1, <2>3
<1>6. h \in Injection(Hits, S) /\ h \in Surjection(Hits, S)
  BY <1>5 DEF Injection, IsInjective, Surjection
<1>7. S \in SUBSET Addr /\ S \subseteq ever
  BY <1>4
<1>8. ASSUME NEW a \in stable, NEW c \in Chunks \ skipped, a \in Window(c, Page)
      PROVE  a \in S
  <2> DEFINE k == a - c + 1
  <2>1. c \in Nat /\ a \in c .. (c + Page - 1) /\ Page \in Nat
    BY <1>8, JobFacts DEF Window
  <2>2. k \in 1..Page /\ c + k - 1 = a
    BY <2>1
  <2>3. k \in hits[c]
    <3> HIDE DEF k
    <3> QED
      BY <1>2, <1>3, <1>8, <2>2 DEF Complete
  <2>4. <<c, k>> \in Hits
    BY <1>2, <2>3 DEF Hits
  <2>5. h[<<c, k>>] = a
    BY <2>2, <2>4
  <2> QED
    BY <2>4, <2>5
<1>9. \A a \in S : \E c \in Chunks \ skipped : a \in Window(c, Page)
  BY <1>4
<1> DEFINE g == [i \in DOMAIN order |-> order[i][1] + order[i][2] - 1]
<1> HIDE DEF S
<1>10. IsFiniteSet(S) /\ Cardinality(Hits) = Cardinality(S)
  <2>1. IsFiniteSet(S)
    BY <1>7, TargetAssumption, FS_Subset
  <2> HIDE DEF h
  <2> QED
    BY <1>6, <2>1, FS_Injection
<1>11. /\ order \in [1..Cardinality(S) -> Hits]
       /\ \A x \in Hits : \E i \in 1..Cardinality(S) : order[i] = x
  BY <1>10 DEF Orders, Surjection
<1>12. \A i \in 1..Cardinality(S) : g[i] = h[order[i]] /\ h[order[i]] \in S
  BY <1>11 DEF S
<1>13. \A a \in S : \E i \in 1..Cardinality(S) : g[i] = a
  <2> TAKE a \in S
  <2>1. PICK x \in Hits : a = h[x]
    BY DEF S
  <2>2. PICK i \in 1..Cardinality(S) : order[i] = x
    BY <1>11
  <2> QED
    BY <1>12, <2>1, <2>2
<1>14. g \in [1..Cardinality(S) -> S]
  BY <1>11, <1>12
<1>15. g \in Orders(S)
  <2> HIDE DEF g
  <2> QED
    BY <1>13, <1>14 DEF Orders, Surjection
<1> QED
  BY <1>1, <1>7, <1>8, <1>9, <1>15

\* The sequences that list a set of addresses once each.
LEMMA OrderFacts ==
  ASSUME NEW S \in SUBSET Addr, NEW g \in Orders(S)
  PROVE  /\ g \in Seq(Addr) /\ Range(g) = S
         /\ \A i, j \in 1..Len(g) : g[i] = g[j] => i = j
<1>1. /\ IsFiniteSet(S) /\ Cardinality(S) \in Nat
      /\ IsFiniteSet(1..Cardinality(S))
      /\ Cardinality(1..Cardinality(S)) = Cardinality(S)
  <2>1. IsFiniteSet(S) /\ Cardinality(S) \in Nat
    BY TargetAssumption, FS_Subset, FS_CardinalityType
  <2> QED
    BY <2>1, FS_Interval
<1>2. g \in Injection(1..Cardinality(S), S)
  BY <1>1, FS_SurjSameCardinalityImpliesInj DEF Orders
<1>3. /\ g \in [1..Cardinality(S) -> S]
      /\ \A i, j \in 1..Cardinality(S) : g[i] = g[j] => i = j
      /\ \A a \in S : \E i \in 1..Cardinality(S) : g[i] = a
  BY <1>2 DEF Injection, IsInjective, Orders, Surjection
<1>4. Len(g) = Cardinality(S) /\ g \in Seq(Addr)
  BY <1>1, <1>3
<1> QED
  BY <1>3, <1>4 DEF Range

LEMMA PickFacts ==
  ASSUME NEW s \in Seq(Addr), NEW pick \in Picks(Len(s)), NEW t,
         t = [k \in DOMAIN pick |-> s[pick[k]]]
  PROVE  /\ t \in Seq(Addr)
         /\ Range(pick) \subseteq 1..Len(s)
         /\ Range(t) = {s[i] : i \in Range(pick)}
<1>1. PICK m \in 0..Len(s) : pick \in [1..m -> 1..Len(s)]
  BY DEF Picks
<1> QED
  BY <1>1 DEF Range

LEMMA ConcatFacts ==
  ASSUME NEW s \in Seq(Addr), NEW t \in Seq(Addr)
  PROVE  /\ s \o t \in Seq(Addr) /\ Range(s \o t) = Range(s) \cup Range(t)
         /\ IsPrefix(s, s \o t)
         /\ \A i \in Len(s) + 1 .. Len(s \o t) :
               i - Len(s) \in 1..Len(t) /\ (s \o t)[i] = t[i - Len(s)]
<1>1. s \o t \in Seq(Addr) /\ Len(s \o t) = Len(s) + Len(t)
  OBVIOUS
<1>2. /\ \A i \in 1..Len(s) : (s \o t)[i] = s[i]
      /\ \A i \in 1..Len(t) : (s \o t)[Len(s) + i] = t[i]
  OBVIOUS
<1>3. \A i \in Len(s) + 1 .. Len(s \o t) :
         i - Len(s) \in 1..Len(t) /\ (s \o t)[i] = t[i - Len(s)]
  BY <1>1, <1>2
<1>4. Range(s \o t) = Range(s) \cup Range(t)
  <2>1. ASSUME NEW i \in 1..Len(s \o t)
        PROVE  \/ i \in 1..Len(s)
               \/ i - Len(s) \in 1..Len(t) /\ (s \o t)[i] = t[i - Len(s)]
    BY <1>1, <1>2
  <2>2. \A i \in 1..Len(s) : i \in 1..Len(s \o t)
    BY <1>1
  <2>3. \A i \in 1..Len(t) : Len(s) + i \in 1..Len(s \o t)
    BY <1>1
  <2>4. Range(s \o t) \subseteq Range(s) \cup Range(t)
    <3>1. \A i \in 1..Len(s \o t) : (s \o t)[i] \in Range(s) \cup Range(t)
      BY <1>2, <2>1 DEF Range
    <3> QED
      BY <1>1, <3>1 DEF Range
  <2>5. Range(s) \subseteq Range(s \o t) /\ Range(t) \subseteq Range(s \o t)
    <3>1. /\ \A i \in 1..Len(s) : s[i] \in Range(s \o t)
          /\ \A i \in 1..Len(t) : t[i] \in Range(s \o t)
      <4>1. DOMAIN (s \o t) = 1..Len(s \o t)
        BY <1>1
      <4>2. ASSUME NEW i \in 1..Len(s)  PROVE s[i] \in Range(s \o t)
        BY <1>2, <2>2, <4>1 DEF Range
      <4>3. ASSUME NEW i \in 1..Len(t)  PROVE t[i] \in Range(s \o t)
        BY <1>2, <2>3, <4>1 DEF Range
      <4> QED
        BY <4>2, <4>3
    <3> DEFINE R == Range(s \o t)
    <3>2. /\ Range(s) = {s[i] : i \in 1..Len(s)}
          /\ Range(t) = {t[i] : i \in 1..Len(t)}
      BY DEF Range
    <3>3. \A i \in 1..Len(s) : s[i] \in R
      BY <3>1
    <3>4. \A i \in 1..Len(t) : t[i] \in R
      BY <3>1
    <3> HIDE DEF R
    <3>5. Range(s) \subseteq R /\ Range(t) \subseteq R
      BY <3>2, <3>3, <3>4
    <3> QED
      BY <3>5 DEF R
  <2> QED
    BY <2>4, <2>5
<1>5. IsPrefix(s, s \o t)
  <2>1. Len(s) <= Len(s \o t)
    BY <1>1
  <2>2. SubSeq(s, 1, Len(s)) = s
    BY SubSeqFull
  <2>3. SubSeq(s \o t, 1, Len(s)) = s
    <3>1. CASE s = <<>>
      <4>1. Len(s) = 0
        BY <3>1
      <4> QED
        BY <1>1, <3>1, <4>1, SubSeqEmpty
    <3>2. CASE s # <<>>
      <4>1. 1 \in 1..Len(s) /\ Len(s) \in 1..Len(s)
        BY <3>2
      <4> QED
        BY <2>2, <4>1, SubSeqOfConcat1
    <3> QED
      BY <3>1, <3>2
  <2> QED
    BY <2>1, <2>2, <2>3 DEF IsPrefix
<1> QED
  BY <1>1, <1>3, <1>4, <1>5

-----------------------------------------------------------------------------
LEMMA FinishKeeps ==
  ASSUME ScanInv, Finish
  PROVE  ScanInv'
<1>1. Types /\ busy' = FALSE /\ UNCHANGED <<mem, old, job, buf>> /\ scanned' = TRUE
  BY AllDone DEF Finish
<1>2. \A w \in Worker : job[w] = Idle
  BY DEF Finish
<1>3. matches' \in Seq(Addr)
  <2>1. CASE scanned
    BY <1>1, <2>1, FilterResult, PickFacts DEF Types
  <2>2. CASE ~scanned
    BY <1>1, <2>2, FirstResult, OrderFacts, ConcatFacts, ZenonT(60) DEF Types
  <2> QED
    BY <2>1, <2>2
<1> QED
  BY <1>1, <1>2, <1>3 DEF ScanInv, Types

LEMMA StutterKeeps ==
  ASSUME ScanInv, UNCHANGED vars
  PROVE  ScanInv'
<1>1. UNCHANGED <<mem, scanned, matches, busy, data, old, todo, job, buf, hits,
                  skipped, stable, ever, writes>>
  BY DEF vars, pool, history
<1>2. /\ Jobs' = Jobs /\ n' = n
      /\ \A i : Tests(i)' = Tests(i)
      /\ \A i, k : At(i, k)' = At(i, k)
      /\ \A a : Sure(a)' = Sure(a)
  BY <1>1, PassSame
<1>3. \A i, K : /\ Complete(i, K)' = Complete(i, K)
                /\ Honest(i, K)' = Honest(i, K)
  BY <1>1, <1>2 DEF Complete, Honest
<1>4. \A v : Equal(v)' = Equal(v)
  BY <1>1, BufferSame
<1>5. Types' = Types
  BY <1>1 DEF Types
<1>6. Running' = Running /\ Tracked' = Tracked /\ Once' = Once
  BY <1>1, <1>2 DEF Running, Tracked, Holding, Once
<1>7. Accounted' = Accounted /\ Results' = Results /\ NoneSkipped' = NoneSkipped
  BY <1>1, <1>2, <1>3 DEF Accounted, Results, NoneSkipped
<1>8. InHand' = InHand
  BY <1>1, <1>2, <1>3, <1>4 DEF InHand
<1> QED
  BY <1>1, <1>5, <1>6, <1>7, <1>8 DEF ScanInv

LEMMA NextKeeps ==
  ASSUME ScanInv, [Next]_vars
  PROVE  ScanInv'
<1>1. ASSUME NEW d \in Data, Begin(d)
      PROVE  ScanInv'
  BY <1>1, BeginKeeps
<1>2. ASSUME NEW w \in Worker, Work(w)
      PROVE  ScanInv'
  BY <1>2, ReadKeeps, CompareKeeps DEF Work
<1>3. CASE Finish
  BY <1>3, FinishKeeps
<1>4. CASE TargetWrite
  BY <1>4, TargetKeeps
<1>5. CASE UNCHANGED vars
  BY <1>5, StutterKeeps
<1> QED
  BY <1>1, <1>2, <1>3, <1>4, <1>5 DEF Next

LEMMA ScanInductive == Spec => []ScanInv
<1>1. Init => ScanInv
  BY InitScan
<1>2. ScanInv /\ [Next]_vars => ScanInv'
  BY NextKeeps
<1> QED
  BY <1>1, <1>2, PTL DEF Spec

-----------------------------------------------------------------------------
\* What a read returns is bytes.
LEMMA BytesAreBytes ==
  ASSUME mem \in Memory, NEW a \in Nat, NEW len \in Nat
  PROVE  BytesAt(mem, a, len) \in [1..len -> Byte]
BY TargetAssumption DEF BytesAt, Memory

\* What the buffers and the results hold, and which jobs they are about.
Buffers ==
    busy => \A w \in Worker :
        IF scanned THEN buf[w] \in [1..Batch -> [1..n -> Byte]]
                   ELSE buf[w] \in [1 .. Page + n - 1 -> Byte]

Handed ==
    /\ todo \subseteq DOMAIN hits
    /\ job \in [Worker -> DOMAIN hits \cup {Idle}]
    /\ \A j \in DOMAIN hits : hits[j] \subseteq Nat

LEMMA NextBuffers ==
  ASSUME ScanInv, Buffers, [Next]_vars
  PROVE  Buffers'
<1>1. ASSUME NEW d \in Data, Begin(d)
      PROVE  Buffers'
  <2>1. /\ Len(d) \in Nat /\ n' = Len(d) /\ scanned' = scanned
        /\ Zeros(Len(d)) \in [1..Len(d) -> Byte]
        /\ Zeros(Page + Len(d) - 1) \in [1 .. Page + Len(d) - 1 -> Byte]
    BY <1>1, ValueScanAssumption, TargetAssumption DEF Begin, n, Zeros
  <2>2. CASE scanned
    <3>1. \A w \in Worker : buf'[w] = [k \in 1..Batch |-> Zeros(Len(d))]
      BY <1>1, <2>2 DEF Begin
    <3> QED
      BY <2>1, <2>2, <3>1 DEF Buffers
  <2>3. CASE ~scanned
    <3>1. \A w \in Worker : buf'[w] = Zeros(Page + Len(d) - 1)
      BY <1>1, <2>3 DEF Begin
    <3> QED
      BY <2>1, <2>3, <3>1 DEF Buffers
  <2> QED
    BY <2>2, <2>3
<1>2. ASSUME NEW w \in Worker, Read(w)
      PROVE  Buffers'
  <2>1. PICK j \in todo : ReadChunk(w, j) \/ ReadBatch(w, j)
    BY <1>2 DEF Read
  <2>2. /\ busy /\ Types /\ Running /\ j \in Jobs
        /\ UNCHANGED <<busy, scanned, data, old>> /\ n' = n
        /\ buf = [v \in Worker |-> buf[v]] /\ mem \in Memory
    BY <1>2, <2>1 DEF Read, ScanInv, Running, Types, n
  <2>3. n \in Nat \ {0}
    BY <2>2, DataFacts DEF Running
  <2>4. ASSUME NEW B, buf' = [buf EXCEPT ![w] = B],
               IF scanned THEN B \in [1..Batch -> [1..n -> Byte]]
                          ELSE B \in [1 .. Page + n - 1 -> Byte]
        PROVE  Buffers'
    <3>1. \A v \in Worker : buf'[v] = IF v = w THEN B ELSE buf[v]
      BY <2>2, <2>4
    <3> QED
      BY <2>2, <2>4, <3>1 DEF Buffers
  <2>5. CASE ReadChunk(w, j)
    <3>1. CASE buf' = [buf EXCEPT ![w] = BytesAt(mem, j, Page + n - 1)]
      <4>1. ~scanned /\ j \in Nat /\ Page + n - 1 \in Nat
        BY <2>2, <2>3, <2>5, JobFacts DEF ReadChunk, Jobs
      <4>2. BytesAt(mem, j, Page + n - 1) \in [1 .. Page + n - 1 -> Byte]
        BY <2>2, <4>1, BytesAreBytes
      <4> QED
        BY <2>4, <3>1, <4>1, <4>2
    <3>2. CASE UNCHANGED buf
      BY <2>2, <3>2 DEF Buffers
    <3> QED
      BY <2>5, <3>1, <3>2 DEF ReadChunk
  <2>6. CASE ReadBatch(w, j)
    <3>1. PICK stale \in SUBSET {k \in InBatch(j) : ~Solid(old[Place(j, k)], n)} :
             buf' = [buf EXCEPT ![w] =
                       [k \in 1..Batch |-> IF k \in InBatch(j) \ stale
                                           THEN BytesAt(mem, old[Place(j, k)], n)
                                           ELSE buf[w][k]]]
      BY <2>6 DEF ReadBatch
    <3> DEFINE B == [k \in 1..Batch |-> IF k \in InBatch(j) \ stale
                                        THEN BytesAt(mem, old[Place(j, k)], n)
                                        ELSE buf[w][k]]
    <3>2. scanned
      BY <2>6 DEF ReadBatch
    <3>3. \A k \in InBatch(j) : BytesAt(mem, old[Place(j, k)], n) \in [1..n -> Byte]
      <4> TAKE k \in InBatch(j)
      <4>1. Place(j, k) \in 1..Len(old) /\ At(j, k) \in Addr
            /\ At(j, k) = old[Place(j, k)]
        BY <2>2, <3>2, AtFacts DEF Tests, At
      <4> QED
        BY <2>2, <2>3, <4>1, JobFacts, BytesAreBytes
    <3>4. \A k \in 1..Batch : buf[w][k] \in [1..n -> Byte]
      BY <2>2, <3>2 DEF Buffers
    <3>5. B \in [1..Batch -> [1..n -> Byte]]
      BY <3>3, <3>4
    <3>6. buf' = [buf EXCEPT ![w] = B]
      BY <3>1
    <3> HIDE DEF B
    <3> QED
      BY <2>4, <3>2, <3>5, <3>6
  <2> QED
    BY <2>1, <2>5, <2>6
<1>3. ASSUME NEW w \in Worker, Compare(w)
      PROVE  Buffers'
  BY <1>3 DEF Compare, Buffers, n
<1>4. CASE Finish
  BY <1>4 DEF Finish, Buffers
<1>5. CASE TargetWrite
  BY <1>5 DEF TargetWrite, pool, Buffers, n
<1>6. CASE UNCHANGED vars
  <2>1. UNCHANGED <<busy, scanned, buf, data>>
    BY <1>6 DEF vars, pool
  <2> QED
    BY <2>1 DEF Buffers, n
<1> QED
  BY <1>1, <1>2, <1>3, <1>4, <1>5, <1>6 DEF Next, Work

LEMMA NextHanded ==
  ASSUME ScanInv, Handed, [Next]_vars
  PROVE  Handed'
<1>1. ASSUME NEW d \in Data, Begin(d)
      PROVE  Handed'
  <2>1. /\ hits' = [j \in todo' |-> {}] /\ job' = job
        /\ job \in [Worker -> Nat \cup {Idle}] /\ \A w \in Worker : job[w] = Idle
    BY <1>1 DEF Begin, ScanInv, Types
  <2> QED
    BY <2>1 DEF Handed
<1>2. ASSUME NEW w \in Worker, Read(w)
      PROVE  Handed'
  <2>1. PICK j \in todo : todo' = todo \ {j} /\ hits' = hits
                          /\ (job' = job \/ job' = [job EXCEPT ![w] = j])
    BY <1>2 DEF Read, ReadChunk, ReadBatch
  <2> QED
    BY <2>1 DEF Handed
<1>3. ASSUME NEW w \in Worker, Compare(w)
      PROVE  Handed'
  <2>1. /\ hits' = [hits EXCEPT ![job[w]] = Equal(w)] /\ todo' = todo
        /\ job' = [job EXCEPT ![w] = Idle]
    BY <1>3 DEF Compare
  <2>2. Equal(w) \subseteq Nat
    BY JobFacts DEF Equal, Tests, InBatch
  <2>3. DOMAIN hits' = DOMAIN hits
        /\ \A j \in DOMAIN hits : hits'[j] \in {hits[j], Equal(w)}
    BY <2>1
  <2> QED
    BY <2>1, <2>2, <2>3 DEF Handed
<1>4. CASE Finish \/ TargetWrite \/ UNCHANGED vars
  BY <1>4 DEF Finish, TargetWrite, vars, pool, Handed
<1> QED
  BY <1>1, <1>2, <1>3, <1>4 DEF Next, Work

(***************************************************************************)
(* Every buffer has the size its pass needs, whatever was scanned for      *)
(* before, and every result is that of a job of the call                   *)
(* (value_scanner.rs:68, 116).                                      *)
(***************************************************************************)
THEOREM ScanTypesRight == Spec => []TypeOK
<1>1. Init => Buffers /\ Handed
  <2> SUFFICES ASSUME Init
               PROVE  Buffers /\ Handed
    OBVIOUS
  <2>1. /\ busy = FALSE /\ todo = {} /\ hits = <<>>
        /\ job = [w \in Worker |-> Idle]
    BY DEF Init
  <2>2. DOMAIN hits = {}
    BY <2>1
  <2> QED
    BY <2>1, <2>2 DEF Buffers, Handed
<1>2. ScanInv /\ Buffers /\ Handed /\ [Next]_vars => Buffers' /\ Handed'
  BY NextBuffers, NextHanded
<1>3. ScanInv /\ Buffers /\ Handed => TypeOK
  BY DEF ScanInv, Types, Buffers, Handed, TypeOK
<1> QED
  BY <1>1, <1>2, <1>3, ScanInductive, PTL DEF Spec

-----------------------------------------------------------------------------
\* ValueScanner sees the same memory.
LEMMA AtomicSame ==
  /\ Atomic!Chunks = Chunks
  /\ \A k : Atomic!Unreliable(k) = Unreliable(k) /\ Atomic!Picks(k) = Picks(k)
  /\ \A S : Atomic!Orders(S) = Orders(S)
  /\ \A f : Atomic!Range(f) = Range(f)
  /\ \A a, k : Atomic!Solid(a, k) = Solid(a, k)
  /\ \A m, a, d : Atomic!Holds(m, a, d) = Holds(m, a, d)
  /\ \A m, d, s : Atomic!Found(m, d, s) = Found(m, d, s)
<1>1. /\ \A a, k : Atomic!Window(a, k) = Window(a, k)
      /\ \A m, a, k : Atomic!BytesAt(m, a, k) = BytesAt(m, a, k)
      /\ \A f : Atomic!Increasing(f) = Increasing(f)
  BY DEF Atomic!Window, Window, Atomic!BytesAt, BytesAt, Atomic!Increasing,
         Increasing
<1>2. /\ \A a, k : Atomic!Solid(a, k) = Solid(a, k)
      /\ \A m, a, d : Atomic!Holds(m, a, d) = Holds(m, a, d)
      /\ Atomic!Chunks = Chunks
  BY <1>1 DEF Atomic!Solid, Solid, Atomic!Holds, Holds, Atomic!Chunks, Chunks
<1>3. /\ \A k : Atomic!Unreliable(k) = Unreliable(k)
      /\ \A m, d, s : Atomic!Found(m, d, s) = Found(m, d, s)
  BY <1>1, <1>2 DEF Atomic!Unreliable, Unreliable, Atomic!Found, Found
<1>4. \A k : Atomic!Picks(k) = Picks(k)
  BY <1>1 DEF Atomic!Picks, Picks
<1>5. \A S : Atomic!Orders(S) = Orders(S)
  BY DEF Atomic!Orders, Orders, Atomic!Surjection, Surjection, Atomic!Cardinality,
         Cardinality, Atomic!IsFiniteSet, IsFiniteSet
<1>6. \A f : Atomic!Range(f) = Range(f)
  BY DEF Atomic!Range, Range
<1> QED
  BY <1>2, <1>3, <1>4, <1>5, <1>6

\* Only the last step of a call ends it.
LEMMA OnlyFinishEnds ==
  ASSUME [Next]_vars, busy, ~busy'
  PROVE  Finish
BY DEF Next, Begin, Work, Read, Compare, TargetWrite, vars, pool

-----------------------------------------------------------------------------
(***************************************************************************)
(* However the workers interleave, and whatever the target writes, a pass  *)
(* finds all that held the value throughout (value_scanner.rs:45-150).     *)
(***************************************************************************)
THEOREM ScanMissesNothing == Spec => NothingMissed
<1> DEFINE A == Ends =>
         IF scanned
         THEN \A i \in 1..Len(old) :
                 old[i] \in stable /\ Solid(old[i], n) => old[i] \in Range(matches')
         ELSE \A a \in stable :
                 (\E c \in Chunks \ skipped : a \in Window(c, Page))
                    => a \in Range(matches')
<1>1. ScanInv /\ [Next]_vars => A
  <2> SUFFICES ASSUME ScanInv, [Next]_vars, Ends
               PROVE  A
    BY DEF A
  <2>1. Finish /\ Types
    BY OnlyFinishEnds, AllDone DEF Ends
  <2>2. CASE scanned
    BY <2>1, <2>2, FilterResult, PickFacts DEF Types
  <2>3. CASE ~scanned
    <3>1. PICK S \in SUBSET Addr : \E g \in Orders(S) :
             /\ matches' = matches \o g
             /\ \A a \in stable :
                   (\E c \in Chunks \ skipped : a \in Window(c, Page)) => a \in S
      BY <2>1, <2>3, FirstResult
    <3>2. PICK g \in Orders(S) : matches' = matches \o g
      BY <3>1
    <3>3. S \subseteq Range(matches')
      <4>1. g \in Seq(Addr) /\ Range(g) = S /\ matches \in Seq(Addr)
        BY <2>1, OrderFacts DEF Types
      <4> QED
        BY <3>2, <4>1, ConcatFacts
    <3> QED
      BY <2>3, <3>1, <3>3
  <2> QED
    BY <2>2, <2>3
<1> QED
  BY <1>1, ScanInductive, PTL DEF Spec, NothingMissed

(***************************************************************************)
(* What a pass reports held the value at some time, or lies in a hole      *)
(* (value_scanner.rs:126-140), or was in the list before the first pass.   *)
(***************************************************************************)
THEOREM ScanInventsNothing == Spec => NothingInvented
<1> DEFINE A == Ends =>
         \A a \in Range(matches') :
            \/ a \in ever
            \/ IF scanned THEN ~Solid(a, n) ELSE a \in Range(matches)
<1>1. ScanInv /\ [Next]_vars => A
  <2> SUFFICES ASSUME ScanInv, [Next]_vars, Ends
               PROVE  A
    BY DEF A
  <2>1. Finish /\ Types
    BY OnlyFinishEnds, AllDone DEF Ends
  <2>2. CASE scanned
    BY <2>1, <2>2, FilterResult, PickFacts DEF Types
  <2>3. CASE ~scanned
    <3>1. PICK S \in SUBSET Addr : S \subseteq ever /\ \E g \in Orders(S) :
             matches' = matches \o g
      BY <2>1, <2>3, FirstResult
    <3>2. Range(matches') = Range(matches) \cup S
      <4>1. PICK g \in Orders(S) : matches' = matches \o g
        BY <3>1
      <4>2. g \in Seq(Addr) /\ Range(g) = S /\ matches \in Seq(Addr)
        BY <2>1, OrderFacts DEF Types
      <4> QED
        BY <4>1, <4>2, ConcatFacts
    <3> QED
      BY <2>3, <3>1, <3>2
  <2> QED
    BY <2>2, <2>3
<1> QED
  BY <1>1, ScanInductive, PTL DEF Spec, NothingInvented

(***************************************************************************)
(* A filter only takes away, and a first pass only adds, each address once *)
(* (value_scanner.rs:68, 111-119).                                         *)
(***************************************************************************)
THEOREM ScanKeepsOrder == Spec => OrderKept
<1> DEFINE A == Ends =>
         IF scanned
         THEN \E pick \in Picks(Len(old)) :
                 matches' = [k \in DOMAIN pick |-> old[pick[k]]]
         ELSE /\ IsPrefix(matches, matches')
              /\ \A i, j \in Len(matches) + 1 .. Len(matches') :
                    matches'[i] = matches'[j] => i = j
<1>1. ScanInv /\ [Next]_vars => A
  <2> SUFFICES ASSUME ScanInv, [Next]_vars, Ends
               PROVE  A
    BY DEF A
  <2>1. Finish /\ Types
    BY OnlyFinishEnds, AllDone DEF Ends
  <2>2. CASE scanned
    BY <2>1, <2>2, FilterResult
  <2>3. CASE ~scanned
    <3>1. PICK S \in SUBSET Addr : \E g \in Orders(S) : matches' = matches \o g
      BY <2>1, <2>3, FirstResult
    <3>2. PICK g \in Orders(S) : matches' = matches \o g
      BY <3>1
    <3>3. /\ g \in Seq(Addr) /\ matches \in Seq(Addr)
          /\ \A i, j \in 1..Len(g) : g[i] = g[j] => i = j
      BY <2>1, OrderFacts DEF Types
    <3>4. IsPrefix(matches, matches')
      BY <3>2, <3>3, ConcatFacts
    <3>5. ASSUME NEW i \in Len(matches) + 1 .. Len(matches'),
                 NEW j \in Len(matches) + 1 .. Len(matches'),
                 matches'[i] = matches'[j]
          PROVE  i = j
      <4> DEFINE p == i - Len(matches)
                 q == j - Len(matches)
      <4>1. p \in 1..Len(g) /\ q \in 1..Len(g) /\ g[p] = g[q]
        BY <3>2, <3>3, <3>5, ConcatFacts
      <4>2. Len(matches) \in Nat /\ Len(matches') \in Nat
        BY <3>2, <3>3
      <4>3. p = q
        <5> HIDE DEF p, q
        <5> QED
          BY <3>3, <4>1
      <4> QED
        BY <3>5, <4>2, <4>3
    <3> QED
      BY <2>3, <3>4, <3>5
  <2> QED
    BY <2>2, <2>3
<1> QED
  BY <1>1, ScanInductive, PTL DEF Spec, OrderKept

(***************************************************************************)
(* On a memory that holds still the pool implements the atomic scan that   *)
(* Session is built on (value_scanner.rs:45-150).                          *)
(***************************************************************************)
THEOREM PoolImplementsScan == Spec => QuietScanIsAtomic
<1> DEFINE A == IF Ends THEN writes = 0 => Atomic!ScanFor2(data)
                ELSE UNCHANGED <<scanned, List>>
<1>1. ScanInv /\ [Next]_vars => [A]_vars
  <2> SUFFICES ASSUME ScanInv, Next
               PROVE  A
    BY DEF A
  <2>1. CASE Ends
    <3> SUFFICES ASSUME writes = 0
                 PROVE  Atomic!ScanFor2(data)
      BY <2>1 DEF A
    <3>1. /\ Finish /\ Types /\ busy /\ ~busy' /\ Tracked /\ scanned' = TRUE
          /\ skipped \subseteq Unreliable(n) /\ data \in Data /\ n = Len(data)
      BY <2>1, OnlyFinishEnds, AllDone DEF Ends, Finish, Tracked, Running, n
    <3>2. data # <<>>
      BY <3>1, ValueScanAssumption
    <3>3. \A a \in Addr : /\ a \in stable <=> Holds(mem, a, data)
                          /\ a \in ever <=> Holds(mem, a, data)
      BY <3>1 DEF Tracked, Holding
    <3>4. List' = matches'
      BY <3>1 DEF List
    <3>5. CASE scanned
      <4>1. List = old /\ scanned' = scanned
        BY <3>1, <3>5 DEF List, Types
      <4>2. \A i \in 1..Len(old) : old[i] \in Addr
        BY <3>1 DEF Types
      <4>3. \E pick \in Picks(Len(old)) :
               /\ matches' = [k \in DOMAIN pick |-> old[pick[k]]]
               /\ \A i \in 1..Len(old) :
                     Solid(old[i], n) =>
                        (i \in Range(pick) <=> Holds(mem, old[i], data))
        BY <3>1, <3>3, <3>5, <4>2, FilterResult
      <4>4. Atomic!FilterPass(data)
        BY <3>1, <3>2, <3>4, <4>1, <4>3, AtomicSame
           DEF Atomic!FilterPass
      <4> QED
        BY <3>5, <4>4 DEF Atomic!ScanFor2
    <3>6. CASE ~scanned
      <4>1. List = matches
        BY <3>1, <3>6 DEF List
      <4>2. PICK S \in SUBSET Addr : \E g \in Orders(S) :
               /\ matches' = matches \o g
               /\ S \subseteq ever
               /\ \A a \in stable :
                     (\E c \in Chunks \ skipped : a \in Window(c, Page)) => a \in S
               /\ \A a \in S : \E c \in Chunks \ skipped : a \in Window(c, Page)
        BY <3>1, <3>6, FirstResult
      <4>3. S = Found(mem, data, skipped)
        BY <3>3, <4>2 DEF Found
      <4>4. Atomic!FirstPass(data)
        BY <3>1, <3>2, <3>4, <4>1, <4>2, <4>3, AtomicSame
           DEF Atomic!FirstPass
      <4> QED
        BY <3>6, <4>4 DEF Atomic!ScanFor2
    <3> QED
      BY <3>5, <3>6
  <2>2. CASE ~Ends
    <3>1. ASSUME NEW d \in Data, Begin(d)
          PROVE  UNCHANGED <<scanned, List>>
      BY <3>1 DEF Begin, List
    <3>2. ASSUME NEW w \in Worker, Work(w)
          PROVE  UNCHANGED <<scanned, List>>
      BY <3>2 DEF Work, Read, Compare, List
    <3>3. ~Finish
      BY <2>2 DEF Finish, Ends
    <3>4. ASSUME TargetWrite
          PROVE  UNCHANGED <<scanned, List>>
      BY <3>4 DEF TargetWrite, List, pool
    <3> QED
      BY <2>2, <3>1, <3>2, <3>3, <3>4 DEF Next, A
  <2> QED
    BY <2>1, <2>2
<1> QED
  BY <1>1, ScanInductive, PTL DEF Spec, QuietScanIsAtomic

=============================================================================
