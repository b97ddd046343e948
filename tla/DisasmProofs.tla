---------------------------- MODULE DisasmProofs -----------------------------
(***************************************************************************)
(* The globals a collection publishes are those of one linear sweep of     *)
(* each section, for all programs and chunk sizes.  A sweep that has come  *)
(* to a place has found the entries of the linear sweep before that place, *)
(* and no instruction of the linear sweep reaches across it; how far a     *)
(* sweep must have come follows from the steps it has made.                *)
(***************************************************************************)
EXTENDS Sigmaker, SequenceTheorems, TLAPS

Task == [steps : Nat, addr : Int, ip : Int, lim : Int, found : SUBSET (Int \X Int),
         failed : Nat]

Last(s) == SectionEnd(s) - 1

\* The entries of the linear sweep before place p.
EntriesBefore(s, p) == {e \in LinearEntries(s) : e[1] < p}

\* Where the sweep of s stands.
Place(s) ==
    LET t == tasks[s]
    IN  /\ t.ip >= s.base /\ t.lim <= SectionEnd(s)
        /\ t.ip < SectionEnd(s) => t.ip \in Linear(s.base, Last(s))
        /\ \A y \in Linear(s.base, Last(s)) :
              y < t.ip => NextInstr(y) <= t.ip \/ NextInstr(y) >= SectionEnd(s)
        /\ t.ip >= t.lim => \/ t.addr = t.ip
                            \/ t.addr >= SectionEnd(s) /\ t.ip >= SectionEnd(s)

Swept(s) == tasks[s].found = EntriesBefore(s, tasks[s].ip)

Done(s) == StepsOf(s.size, Chunk) - tasks[s].steps - tasks[s].failed

\* A chunk for each read that did not fail.
Reached(s) ==
    LET t == tasks[s]
    IN  /\ Done(s) >= 0
        /\ \E z \in {t.ip, t.lim} : \/ z >= s.base + Done(s) * Chunk
                                    \/ z >= SectionEnd(s)

SweepInv ==
    /\ mem \in Codes /\ loaded \subseteq Modules
    /\ call = "collect" =>
          /\ DOMAIN tasks \subseteq Text /\ tasks \in [DOMAIN tasks -> Task]
          /\ \A s \in DOMAIN tasks : Place(s) /\ Swept(s) /\ Reached(s)

-----------------------------------------------------------------------------
(***************************************************************************)
(* Arithmetic of the chunks, and the linear sweep.                         *)
(***************************************************************************)
LEMMA StepsCover ==
  ASSUME NEW size \in Nat
  PROVE  /\ StepsOf(size, Chunk) \in Nat
         /\ StepsOf(size, Chunk) * Chunk >= size
BY DisasmAssumption DEF StepsOf

LEMMA OneMore ==
  ASSUME NEW k \in Nat
  PROVE  (k + 1) * Chunk = k * Chunk + Chunk
BY DisasmAssumption

LEMMA SectionFacts ==
  ASSUME NEW s \in Text
  PROVE  /\ s.base \in Nat /\ s.size \in Nat
         /\ SectionEnd(s) \in Nat /\ SectionEnd(s) = s.base + s.size
         /\ Last(s) \in Int /\ SectionEnd(s) = Last(s) + 1
         /\ Window(s.base, s.size) = s.base .. Last(s)
<1>1. s.base \in Nat /\ s.size \in Nat
  BY DisasmAssumption DEF Text
<1>2. SectionEnd(s) = s.base + s.size /\ Last(s) = SectionEnd(s) - 1
  BY DEF Last, SectionEnd
<1>3. Window(s.base, s.size) = s.base .. (s.base + s.size - 1)
  BY DEF Window
<1> QED
  BY <1>1, <1>2, <1>3

LEMMA InstrFacts ==
  ASSUME mem \in Codes, NEW a \in Int
  PROVE  /\ InstrAt(a).len \in Nat \ {0} /\ NextInstr(a) \in Int
         /\ NextInstr(a) > a /\ Refers(a) \in Int
<1>1. \A b \in Int : Shown(b) \in Byte
  BY DisasmAssumption DEF Shown
<1>2. InstrAt(a).len \in Nat \ {0}
  BY <1>1, DisasmAssumption DEF InstrAt, Instructions
<1>3. Disp[Shown(a + 1)] \in Int
  BY <1>1, DisasmAssumption
<1> QED
  BY <1>2, <1>3 DEF NextInstr, Refers

LEMMA LinearFacts ==
  ASSUME mem \in Codes, NEW a \in Int, NEW last \in Int
  PROVE  /\ Linear(a, last) \subseteq a .. last
         /\ a <= last => a \in Linear(a, last)
         /\ \A y \in Linear(a, last) :
               NextInstr(y) <= last => NextInstr(y) \in Linear(a, last)
<1>1. Linear(a, last) \subseteq a .. last
  BY DEF Linear
<1>2. a <= last => a \in Linear(a, last)
  BY DEF Linear
<1>3. ASSUME NEW y \in Linear(a, last), NextInstr(y) <= last
      PROVE  NextInstr(y) \in Linear(a, last)
  <2>1. NextInstr(y) \in a .. last
    BY <1>1, <1>3, InstrFacts
  <2> QED
    BY <1>3, <2>1 DEF Linear
<1> QED
  BY <1>1, <1>2, <1>3

LEMMA LinearLeast ==
  ASSUME NEW a \in Int, NEW last \in Int, NEW S \in SUBSET (a .. last), a \in S,
         \A y \in S : NextInstr(y) <= last => NextInstr(y) \in S
  PROVE  Linear(a, last) \subseteq S
BY DEF Linear

\* No address of the linear sweep lies within an instruction of it.
LEMMA NothingBetween ==
  ASSUME mem \in Codes, NEW a \in Int, NEW last \in Int, NEW p \in Linear(a, last),
         \A y \in Linear(a, last) : y < p => NextInstr(y) <= p \/ NextInstr(y) > last
  PROVE  \A x \in Linear(a, last) : x <= p \/ x >= NextInstr(p)
<1> DEFINE S == {x \in Linear(a, last) : x <= p \/ x >= NextInstr(p)}
<1>1. Linear(a, last) \subseteq a .. last /\ a \in Linear(a, last) /\ p \in a .. last
  BY LinearFacts
<1>2. S \in SUBSET (a .. last) /\ a \in S
  BY <1>1
<1>3. ASSUME NEW y \in S, NextInstr(y) <= last
      PROVE  NextInstr(y) \in S
  <2>1. NextInstr(y) \in Linear(a, last) /\ y \in Int /\ NextInstr(y) > y
    BY <1>1, <1>3, LinearFacts, InstrFacts
  <2>2. NextInstr(p) \in Int /\ NextInstr(y) \in Int
    BY <1>1, <2>1, InstrFacts
  <2> QED
    BY <1>1, <1>3, <2>1, <2>2
<1> HIDE DEF S
<1>4. Linear(a, last) \subseteq S
  BY <1>2, <1>3, LinearLeast
<1> QED
  BY <1>4 DEF S

LEMMA EntriesFacts ==
  ASSUME mem \in Codes, NEW s \in Text
  PROVE  /\ LinearEntries(s) \subseteq {<<x, Refers(x)>> : x \in s.base .. Last(s)}
         /\ LinearEntries(s) \subseteq Int \X Int
<1>1. Linear(s.base, Last(s)) \subseteq s.base .. Last(s)
  BY SectionFacts, LinearFacts DEF Last
<1>2. \A x \in s.base .. Last(s) : x \in Int /\ Refers(x) \in Int
  BY SectionFacts, InstrFacts
<1> QED
  BY <1>1, <1>2 DEF LinearEntries, Last

\* The entries up to and with the instruction at p.
LEMMA EntriesOneMore ==
  ASSUME mem \in Codes, NEW s \in Text, NEW p \in Linear(s.base, Last(s)),
         \A y \in Linear(s.base, Last(s)) :
             y < p => NextInstr(y) <= p \/ NextInstr(y) >= SectionEnd(s)
  PROVE  /\ EntriesBefore(s, NextInstr(p)) =
               EntriesBefore(s, p) \cup (IF IsReference(InstrAt(p))
                                          THEN {<<p, Refers(p)>>} ELSE {})
         /\ \A y \in Linear(s.base, Last(s)) : y < NextInstr(p) =>
               NextInstr(y) <= NextInstr(p) \/ NextInstr(y) >= SectionEnd(s)
<1> DEFINE L == Linear(s.base, Last(s))
<1>1. /\ s.base \in Int /\ Last(s) \in Int /\ SectionEnd(s) = Last(s) + 1
      /\ L \subseteq s.base .. Last(s) /\ p \in Int
  BY SectionFacts, LinearFacts DEF Last
<1>2. NextInstr(p) \in Int /\ NextInstr(p) > p
  BY <1>1, InstrFacts
<1>3. \A y \in L : y \in Int /\ NextInstr(y) \in Int
  BY <1>1, InstrFacts
<1>4. \A x \in L : x <= p \/ x >= NextInstr(p)
  <2>1. \A y \in L : y < p => NextInstr(y) <= p \/ NextInstr(y) > Last(s)
    BY <1>1, <1>3
  <2> QED
    BY <1>1, <2>1, NothingBetween
<1>5. \A x \in L : x < NextInstr(p) <=> x < p \/ x = p
  BY <1>1, <1>2, <1>3, <1>4
<1>6. LinearEntries(s) = {<<x, Refers(x)>> : x \in {x \in L : IsReference(InstrAt(x))}}
  BY DEF LinearEntries, Last
<1>7. EntriesBefore(s, NextInstr(p)) =
        EntriesBefore(s, p) \cup (IF IsReference(InstrAt(p)) THEN {<<p, Refers(p)>>} ELSE {})
  BY <1>2, <1>3, <1>5, <1>6 DEF EntriesBefore
<1>8. ASSUME NEW y \in L, y < NextInstr(p)
      PROVE  NextInstr(y) <= NextInstr(p) \/ NextInstr(y) >= SectionEnd(s)
  BY <1>1, <1>2, <1>3, <1>5, <1>8
<1> QED
  BY <1>7, <1>8

\* Behind the section there is nothing left to find.
LEMMA EntriesAll ==
  ASSUME mem \in Codes, NEW s \in Text, NEW p \in Int, p >= SectionEnd(s)
  PROVE  EntriesBefore(s, p) = LinearEntries(s)
<1>1. \A e \in LinearEntries(s) : e[1] \in s.base .. Last(s)
  BY EntriesFacts
<1> QED
  BY <1>1, SectionFacts DEF EntriesBefore, Last

-----------------------------------------------------------------------------
\* The text stays as it is while a call is running.
LEMMA TextSame ==
  ASSUME UNCHANGED target
  PROVE  /\ \A a \in Int : /\ NextInstr(a)' = NextInstr(a) /\ Refers(a)' = Refers(a)
                            /\ InstrAt(a)' = InstrAt(a)
         /\ \A s \in Text : /\ Linear(s.base, Last(s))' = Linear(s.base, Last(s))
                             /\ LinearEntries(s)' = LinearEntries(s)
BY DEF target, NextInstr, Refers, InstrAt, Shown, Present, Linear, LinearEntries

LEMMA SectionSame ==
  ASSUME mem \in Codes, UNCHANGED target, NEW s \in Text
  PROVE  /\ Linear(s.base, Last(s))' = Linear(s.base, Last(s))
         /\ LinearEntries(s)' = LinearEntries(s)
         /\ \A y \in Linear(s.base, Last(s)) : /\ y \in Int /\ y < SectionEnd(s)
                                                /\ NextInstr(y)' = NextInstr(y)
                                                /\ NextInstr(y) \in Int
<1>1. Linear(s.base, Last(s)) \subseteq s.base .. Last(s)
  BY SectionFacts, LinearFacts
<1>2. \A y \in Linear(s.base, Last(s)) : y \in Int /\ y < SectionEnd(s)
  BY <1>1, SectionFacts
<1> QED
  BY <1>2, TextSame, InstrFacts

\* Where a sweep stands after a step, in terms of the text before it.
LEMMA PlaceAfter ==
  ASSUME mem \in Codes, UNCHANGED target, NEW s \in Text, NEW u, tasks'[s] = u,
         u.ip >= s.base, u.lim <= SectionEnd(s),
         u.ip < SectionEnd(s) => u.ip \in Linear(s.base, Last(s)),
         \A y \in Linear(s.base, Last(s)) :
            y < u.ip => NextInstr(y) <= u.ip \/ NextInstr(y) >= SectionEnd(s),
         u.ip >= u.lim => \/ u.addr = u.ip
                          \/ u.addr >= SectionEnd(s) /\ u.ip >= SectionEnd(s)
  PROVE  Place(s)'
<1> DEFINE L == Linear(s.base, Last(s))
<1>1. L' = L /\ \A y \in L : NextInstr(y)' = NextInstr(y)
  BY SectionSame
<1>2. u.ip < SectionEnd(s) => u.ip \in L'
  BY <1>1
<1>3. \A y \in L' : y < u.ip => NextInstr(y)' <= u.ip \/ NextInstr(y)' >= SectionEnd(s)
  BY <1>1
<1> HIDE DEF L
<1> QED
  BY <1>2, <1>3 DEF Place, L

\* A step of one sweep leaves the others alone.
LEMMA OneSweep ==
  ASSUME SweepInv, call = "collect", NEW s \in DOMAIN tasks, NEW t \in Task,
         tasks' = [tasks EXCEPT ![s] = t], UNCHANGED <<target, call>>,
         Place(s)', Swept(s)', Reached(s)'
  PROVE  SweepInv'
<1>1. /\ DOMAIN tasks' = DOMAIN tasks /\ tasks' \in [DOMAIN tasks' -> Task]
      /\ \A r \in DOMAIN tasks : r # s => tasks'[r] = tasks[r]
      /\ DOMAIN tasks \subseteq Text /\ mem' = mem /\ loaded' = loaded
  BY DEF SweepInv, target
<1>2. ASSUME NEW r \in DOMAIN tasks, r # s
      PROVE  Place(r)' /\ Swept(r)' /\ Reached(r)'
  <2>1. Place(r) /\ Swept(r) /\ Reached(r) /\ r \in Text /\ tasks'[r] = tasks[r]
    BY <1>1, <1>2 DEF SweepInv
  <2>2. /\ Linear(r.base, Last(r))' = Linear(r.base, Last(r))
        /\ LinearEntries(r)' = LinearEntries(r)
        /\ \A y \in Linear(r.base, Last(r)) : NextInstr(y)' = NextInstr(y)
    BY <2>1, SectionSame DEF SweepInv
  <2>3. Place(r)'
    BY <2>1, <2>2 DEF Place, SectionEnd
  <2>4. Swept(r)'
    BY <2>1, <2>2 DEF Swept, EntriesBefore
  <2>5. Reached(r)'
    BY <2>1 DEF Reached, Done, SectionEnd
  <2> QED
    BY <2>3, <2>4, <2>5
<1> QED
  BY <1>1, <1>2 DEF SweepInv

LEMMA ReadKeeps ==
  ASSUME SweepInv, NEW s \in DOMAIN tasks, ReadChunk(s)
  PROVE  SweepInv'
<1> DEFINE t == tasks[s]
<1>1. /\ call = "collect" /\ t.ip >= t.lim /\ t.steps > 0
      /\ UNCHANGED <<target, call, map>>
  BY DEF ReadChunk
<1>2. /\ s \in Text /\ t \in Task /\ Place(s) /\ Swept(s) /\ Reached(s)
      /\ mem \in Codes
  BY <1>1 DEF SweepInv
<1>3. /\ s.base \in Nat /\ SectionEnd(s) \in Nat /\ Chunk \in Nat \ {0}
      /\ StepsOf(s.size, Chunk) \in Nat /\ Done(s) \in Nat
      /\ Done(s) * Chunk \in Nat /\ (Done(s) + 1) * Chunk = Done(s) * Chunk + Chunk
  <2>1. /\ s.base \in Nat /\ s.size \in Nat /\ SectionEnd(s) \in Nat
        /\ StepsOf(s.size, Chunk) \in Nat /\ Chunk \in Nat \ {0}
    BY <1>2, SectionFacts, StepsCover, DisasmAssumption
  <2>2. t.steps \in Nat /\ t.failed \in Nat
    BY <1>2 DEF Task
  <2>3. Done(s) \in Nat
    BY <1>2, <2>1, <2>2 DEF Reached, Done
  <2> QED
    BY <2>1, <2>3, OneMore
<1>4. /\ t.steps - 1 \in Nat /\ t.failed + 1 \in Nat /\ t.addr \in Int
      /\ t.ip \in Int /\ t.lim \in Int /\ t.addr + Chunk \in Int
      /\ Lesser(SectionEnd(s), t.addr + Chunk) \in Int
  BY <1>1, <1>2, <1>3 DEF Task, Lesser
<1>5. /\ Linear(s.base, Last(s))' = Linear(s.base, Last(s))
      /\ LinearEntries(s)' = LinearEntries(s)
      /\ \A y \in Linear(s.base, Last(s)) : /\ y \in Int /\ y < SectionEnd(s)
                                             /\ NextInstr(y)' = NextInstr(y)
                                             /\ NextInstr(y) \in Int
  BY <1>1, <1>2, SectionSame
<1>6. ASSUME tasks' = [tasks EXCEPT ![s] =
                 [t EXCEPT !.steps = @ - 1, !.ip = t.addr, !.addr = @ + Chunk,
                           !.lim = Lesser(SectionEnd(s), t.addr + Chunk)]]
      PROVE  SweepInv'
  <2> DEFINE u == [t EXCEPT !.steps = @ - 1, !.ip = t.addr, !.addr = @ + Chunk,
                            !.lim = Lesser(SectionEnd(s), t.addr + Chunk)]
  <2>1. /\ u \in Task /\ u.steps = t.steps - 1 /\ u.failed = t.failed
        /\ u.ip = t.addr /\ u.addr = t.addr + Chunk /\ u.found = t.found
        /\ u.lim = Lesser(SectionEnd(s), t.addr + Chunk)
    BY <1>2, <1>4 DEF Task
  <2>2. tasks'[s] = u
    BY <1>2, <1>6
  <2>3. \/ t.addr = t.ip
        \/ t.addr >= SectionEnd(s) /\ t.ip >= SectionEnd(s)
    BY <1>1, <1>2 DEF Place
  <2> HIDE DEF u
  <2>4. Place(s)'
    <3>1. u.ip >= s.base /\ u.lim <= SectionEnd(s)
      <4>1. t.ip >= s.base /\ SectionEnd(s) >= s.base
        BY <1>2, <1>3, SectionFacts DEF Place
      <4>2. u.ip >= s.base
        BY <1>3, <1>4, <2>1, <2>3, <4>1
      <4>3. u.lim <= SectionEnd(s)
        BY <1>3, <1>4, <2>1 DEF Lesser
      <4> QED
        BY <4>2, <4>3
    <3>2. u.ip < SectionEnd(s) => u.ip \in Linear(s.base, Last(s))
      BY <1>2, <1>3, <1>4, <2>1, <2>3 DEF Place
    <3>3. \A y \in Linear(s.base, Last(s)) :
             y < u.ip => NextInstr(y) <= u.ip \/ NextInstr(y) >= SectionEnd(s)
      BY <1>2, <1>3, <1>5, <1>4, <2>1, <2>3 DEF Place
    <3>4. u.ip >= u.lim => u.addr >= SectionEnd(s) /\ u.ip >= SectionEnd(s)
      BY <1>3, <1>4, <2>1 DEF Lesser
    <3> QED
      BY <1>1, <1>2, <2>2, <3>1, <3>2, <3>3, <3>4, PlaceAfter
  <2>5. Swept(s)'
    <3>1. EntriesBefore(s, u.ip) = EntriesBefore(s, t.ip)
      BY <1>2, <2>1, <2>3, EntriesAll DEF Task
    <3> QED
      BY <1>2, <1>5, <2>1, <2>2, <3>1 DEF Swept, EntriesBefore
  <2>6. Reached(s)'
    <3>1. Done(s)' = Done(s) + 1
      BY <1>2, <1>3, <2>1, <2>2 DEF Done, Task
    <3>2. t.ip >= s.base + Done(s) * Chunk \/ t.ip >= SectionEnd(s)
      BY <1>1, <1>2, <1>3 DEF Reached, Task
    <3>3. \/ u.lim >= s.base + (Done(s) + 1) * Chunk
          \/ u.lim >= SectionEnd(s)
      BY <1>2, <1>3, <2>1, <2>3, <3>2 DEF Lesser, Task
    <3> QED
      BY <1>3, <2>2, <3>1, <3>3 DEF Reached, SectionEnd
  <2> QED
    BY <1>1, <1>6, <2>1, <2>4, <2>5, <2>6, OneSweep DEF u
<1>7. ASSUME tasks' = [tasks EXCEPT ![s] = [t EXCEPT !.steps = @ - 1, !.failed = @ + 1]]
      PROVE  SweepInv'
  <2> DEFINE u == [t EXCEPT !.steps = @ - 1, !.failed = @ + 1]
  <2>1. /\ u \in Task /\ u.steps = t.steps - 1 /\ u.failed = t.failed + 1
        /\ u.ip = t.ip /\ u.addr = t.addr /\ u.found = t.found /\ u.lim = t.lim
    BY <1>2, <1>4 DEF Task
  <2>2. tasks'[s] = u
    BY <1>2, <1>7
  <2> HIDE DEF u
  <2>3. Place(s)'
    BY <1>2, <1>3, <1>5, <2>1, <2>2 DEF Place, SectionEnd
  <2>4. Swept(s)'
    BY <1>2, <1>5, <2>1, <2>2 DEF Swept, EntriesBefore
  <2>5. Reached(s)'
    <3>1. Done(s)' = Done(s)
      BY <1>2, <1>3, <2>1, <2>2 DEF Done, Task
    <3> QED
      BY <1>2, <2>1, <2>2, <3>1 DEF Reached, SectionEnd
  <2> QED
    BY <1>1, <1>7, <2>1, <2>3, <2>4, <2>5, OneSweep DEF u
<1> QED
  BY <1>6, <1>7 DEF ReadChunk

LEMMA DecodeKeeps ==
  ASSUME SweepInv, NEW s \in DOMAIN tasks, Decode(s)
  PROVE  SweepInv'
<1> DEFINE t == tasks[s]
           p == t.ip
           more == IF IsReference(InstrAt(p)) THEN {<<p, Refers(p)>>} ELSE {}
           u == [t EXCEPT !.ip = NextInstr(p), !.addr = NextInstr(p),
                          !.found = @ \cup more]
<1>1. /\ call = "collect" /\ p < t.lim /\ UNCHANGED <<target, call, map>>
      /\ tasks' = [tasks EXCEPT ![s].ip = NextInstr(p), ![s].addr = NextInstr(p),
                                ![s].found = @ \cup more]
  BY DEF Decode
<1>2. /\ s \in Text /\ t \in Task /\ Place(s) /\ Swept(s) /\ Reached(s)
      /\ mem \in Codes
  BY <1>1 DEF SweepInv
<1>3. /\ s.base \in Nat /\ SectionEnd(s) \in Nat /\ p \in Int /\ t.lim \in Int
      /\ p < SectionEnd(s) /\ p \in Linear(s.base, Last(s))
  BY <1>1, <1>2, SectionFacts DEF Place, Task
<1>4. NextInstr(p) \in Int /\ NextInstr(p) > p /\ Refers(p) \in Int
  BY <1>2, <1>3, InstrFacts
<1>5. /\ Linear(s.base, Last(s))' = Linear(s.base, Last(s))
      /\ LinearEntries(s)' = LinearEntries(s)
      /\ \A y \in Linear(s.base, Last(s)) : /\ y \in Int /\ y < SectionEnd(s)
                                             /\ NextInstr(y)' = NextInstr(y)
                                             /\ NextInstr(y) \in Int
  BY <1>1, <1>2, SectionSame
<1>6. /\ EntriesBefore(s, NextInstr(p)) = EntriesBefore(s, p) \cup more
      /\ \A y \in Linear(s.base, Last(s)) : y < NextInstr(p) =>
            NextInstr(y) <= NextInstr(p) \/ NextInstr(y) >= SectionEnd(s)
  BY <1>2, <1>3, EntriesOneMore DEF Place
<1>7. NextInstr(p) < SectionEnd(s) => NextInstr(p) \in Linear(s.base, Last(s))
  BY <1>2, <1>3, <1>4, SectionFacts, LinearFacts DEF Last
<1>8. more \subseteq Int \X Int
  BY <1>3, <1>4
<1> HIDE DEF more
<1>9. /\ u \in Task /\ u.steps = t.steps /\ u.failed = t.failed /\ u.lim = t.lim
      /\ u.ip = NextInstr(p) /\ u.addr = NextInstr(p) /\ u.found = t.found \cup more
  BY <1>2, <1>4, <1>8 DEF Task
<1>10. tasks' = [tasks EXCEPT ![s] = u]
  BY <1>1, <1>2 DEF SweepInv, Task
<1>11. tasks'[s] = u
  BY <1>10
<1> HIDE DEF u
<1>12. Place(s)'
  <2>1. u.ip >= s.base /\ u.lim <= SectionEnd(s)
    BY <1>2, <1>3, <1>4, <1>9 DEF Place
  <2>2. u.ip < SectionEnd(s) => u.ip \in Linear(s.base, Last(s))
    BY <1>7, <1>9
  <2>3. \A y \in Linear(s.base, Last(s)) :
           y < u.ip => NextInstr(y) <= u.ip \/ NextInstr(y) >= SectionEnd(s)
    BY <1>6, <1>9
  <2>4. u.ip >= u.lim => \/ u.addr = u.ip
                         \/ u.addr >= SectionEnd(s) /\ u.ip >= SectionEnd(s)
    BY <1>9
  <2>5. mem \in Codes /\ UNCHANGED target /\ s \in Text /\ tasks'[s] = u
    BY <1>1, <1>2, <1>11
  <2> HIDE DEF p, t
  <2> QED
    BY <2>1, <2>2, <2>3, <2>4, <2>5, PlaceAfter
<1>13. Swept(s)'
  BY <1>2, <1>5, <1>6, <1>9, <1>11 DEF Swept, EntriesBefore
<1>14. Reached(s)'
  <2>1. Done(s)' = Done(s) /\ Done(s) \in Int
    <3>1. StepsOf(s.size, Chunk) \in Nat
      BY <1>2, SectionFacts, StepsCover
    <3>2. t.steps \in Nat /\ t.failed \in Nat
      BY <1>2 DEF Task
    <3> QED
      BY <1>9, <1>11, <3>1, <3>2 DEF Done
  <2>2. Done(s) * Chunk \in Int
    BY <2>1, DisasmAssumption
  <2>3. \E z \in {t.ip, t.lim} : \/ z >= s.base + Done(s) * Chunk
                                 \/ z >= SectionEnd(s)
    BY <1>2 DEF Reached
  <2>4. \E z \in {u.ip, u.lim} : \/ z >= s.base + Done(s) * Chunk
                                 \/ z >= SectionEnd(s)
    BY <1>3, <1>4, <1>9, <2>2, <2>3
  <2>5. Done(s) >= 0
    BY <1>2 DEF Reached
  <2> QED
    BY <1>11, <2>1, <2>4, <2>5 DEF Reached, SectionEnd
<1> QED
  BY <1>1, <1>9, <1>10, <1>12, <1>13, <1>14, OneSweep

\* A collection begins: every sweep stands at the start of its section.
LEMMA CollectKeeps ==
  ASSUME SweepInv, NEW name, CollectGlobals(name)
  PROVE  SweepInv'
<1>1. mem' = mem /\ loaded' = loaded /\ UNCHANGED target /\ mem \in Codes
  BY DEF CollectGlobals, target, SweepInv
<1>2. CASE UNCHANGED <<call, tasks>>
  BY <1>1, <1>2 DEF SweepInv, CollectGlobals
<1>3. CASE \E listed \in SUBSET loaded :
              /\ tasks' = [s \in Chosen(name, listed) |-> Sweep(s)]
              /\ call' = "collect"
  <2>1. PICK listed \in SUBSET loaded : tasks' = [s \in Chosen(name, listed) |-> Sweep(s)]
    BY <1>3
  <2>2. Chosen(name, listed) \subseteq Text
    BY DEF Chosen, Text, SweepInv
  <2>3. ASSUME NEW s \in Chosen(name, listed)
        PROVE  /\ tasks'[s] = Sweep(s) /\ Sweep(s) \in Task
               /\ Place(s)' /\ Swept(s)' /\ Reached(s)'
    <3>1. /\ s \in Text /\ s.base \in Nat /\ s.size \in Nat /\ SectionEnd(s) \in Nat
          /\ SectionEnd(s) = s.base + s.size /\ Last(s) \in Int
          /\ SectionEnd(s) = Last(s) + 1 /\ StepsOf(s.size, Chunk) \in Nat
      BY <2>2, SectionFacts, StepsCover
    <3>2. /\ tasks'[s] = Sweep(s) /\ Sweep(s) \in Task
          /\ Sweep(s).steps = StepsOf(s.size, Chunk) /\ Sweep(s).failed = 0
          /\ Sweep(s).ip = s.base /\ Sweep(s).addr = s.base
          /\ Sweep(s).lim = s.base /\ Sweep(s).found = {}
      BY <2>1, <3>1 DEF Sweep, Task
    <3>3. /\ Linear(s.base, Last(s))' = Linear(s.base, Last(s))
          /\ LinearEntries(s)' = LinearEntries(s)
      BY <1>1, <3>1, SectionSame
    <3>4. /\ s.base < SectionEnd(s) => s.base \in Linear(s.base, Last(s))
          /\ \A y \in Linear(s.base, Last(s)) : y >= s.base
      BY <1>1, <3>1, LinearFacts
    <3>5. Place(s)'
      <4>1. \A y \in Linear(s.base, Last(s)) : y < s.base => FALSE
        BY <1>1, <3>1, <3>4, LinearFacts
      <4>2. Sweep(s).ip >= s.base /\ Sweep(s).lim <= SectionEnd(s)
        BY <3>1, <3>2
      <4>3. \A y \in Linear(s.base, Last(s)) :
               y < Sweep(s).ip => \/ NextInstr(y) <= Sweep(s).ip
                                  \/ NextInstr(y) >= SectionEnd(s)
        BY <3>2, <4>1
      <4>4. /\ Sweep(s).ip < SectionEnd(s) => Sweep(s).ip \in Linear(s.base, Last(s))
            /\ Sweep(s).ip >= Sweep(s).lim =>
                 \/ Sweep(s).addr = Sweep(s).ip
                 \/ Sweep(s).addr >= SectionEnd(s) /\ Sweep(s).ip >= SectionEnd(s)
        BY <3>2, <3>4
      <4>5. mem \in Codes /\ UNCHANGED target /\ s \in Text /\ tasks'[s] = Sweep(s)
        BY <1>1, <3>1, <3>2
      <4> QED
        BY <4>2, <4>3, <4>4, <4>5, PlaceAfter
    <3>6. EntriesBefore(s, s.base) = {}
      BY <1>1, <3>1, EntriesFacts DEF EntriesBefore
    <3>7. Swept(s)'
      BY <3>2, <3>3, <3>6 DEF Swept, EntriesBefore
    <3>8. Done(s)' = 0 /\ 0 * Chunk = 0
      BY <3>1, <3>2, DisasmAssumption DEF Done
    <3>9. Reached(s)'
      BY <3>1, <3>2, <3>8 DEF Reached
    <3> QED
      BY <3>2, <3>5, <3>7, <3>9
  <2>4. DOMAIN tasks' = Chosen(name, listed) /\ tasks' \in [DOMAIN tasks' -> Task]
    BY <2>1, <2>3
  <2> QED
    BY <1>1, <2>2, <2>3, <2>4 DEF SweepInv
<1> QED
  BY <1>2, <1>3 DEF CollectGlobals

-----------------------------------------------------------------------------
(***************************************************************************)
(* The end of a collection.                                                *)
(***************************************************************************)
Published ==
    call = "collect" /\ call' = "idle" =>
        /\ DOMAIN map' \subseteq UNION {Window(s.base, s.size) : s \in DOMAIN tasks}
        /\ \A s \in DOMAIN tasks :
              LET here == {<<ip, map'[ip]>> :
                             ip \in DOMAIN map' \cap Window(s.base, s.size)}
                  sure == SectionEnd(s) - tasks[s].failed * Chunk
              IN  /\ here \subseteq LinearEntries(s)
                  /\ {e \in LinearEntries(s) : e[1] < sure} \subseteq here

\* A sweep that has made all of its steps has come to the end of the
\* section, but for a chunk for each read that failed.
LEMMA SweepReached ==
  ASSUME SweepInv, call = "collect", NEW s \in DOMAIN tasks,
         tasks[s].steps = 0, tasks[s].ip >= tasks[s].lim
  PROVE  \/ tasks[s].ip >= SectionEnd(s) - tasks[s].failed * Chunk
         \/ tasks[s].ip >= SectionEnd(s)
<1> DEFINE t == tasks[s]
           n == StepsOf(s.size, Chunk)
<1>1. s \in Text /\ t \in Task /\ Reached(s)
  BY DEF SweepInv
<1>2. /\ s.base \in Nat /\ s.size \in Nat /\ SectionEnd(s) = s.base + s.size
      /\ n \in Nat /\ n * Chunk >= s.size /\ Chunk \in Nat
  BY <1>1, SectionFacts, StepsCover, DisasmAssumption
<1>3. t.ip \in Int /\ t.lim \in Int /\ t.failed \in Nat /\ Done(s) = n - t.failed
  BY <1>1, <1>2 DEF Task, Done
<1>4. (n - t.failed) * Chunk = n * Chunk - t.failed * Chunk
  <2> HIDE DEF n
  <2> QED
    BY <1>2, <1>3
<1>5. n * Chunk \in Int /\ t.failed * Chunk \in Int
  BY <1>2, <1>3
<1>6. t.ip >= s.base + Done(s) * Chunk \/ t.ip >= SectionEnd(s)
  BY <1>1, <1>2, <1>3, <1>4, <1>5 DEF Reached
<1> HIDE DEF n
<1> QED
  BY <1>2, <1>3, <1>4, <1>5, <1>6

\* What has been found are addresses of instructions with what they refer to,
\* each in the section of its sweep.
LEMMA FoundFacts ==
  ASSUME SweepInv, call = "collect", NEW s \in DOMAIN tasks
  PROVE  /\ s \in Text /\ tasks[s].found \subseteq LinearEntries(s)
         /\ \A e \in LinearEntries(s) : /\ e[1] \in Window(s.base, s.size)
                                         /\ e = <<e[1], Refers(e[1])>>
<1>1. s \in Text /\ Swept(s) /\ mem \in Codes
  BY DEF SweepInv
<1>2. \A e \in LinearEntries(s) : \E x \in s.base .. Last(s) : e = <<x, Refers(x)>>
  BY <1>1, EntriesFacts
<1> QED
  BY <1>1, <1>2, SectionFacts DEF Swept, EntriesBefore

LEMMA PublishIsTheSweep ==
  ASSUME SweepInv, Publish
  PROVE  Published
<1> DEFINE C == Collected(tasks)
<1>1. /\ call = "collect"
      /\ \A s \in DOMAIN tasks : tasks[s].steps = 0 /\ tasks[s].ip >= tasks[s].lim
      /\ map' = [ip \in {e[1] : e \in C} |->
                    CHOOSE g \in {e[2] : e \in C} : <<ip, g>> \in C]
  BY DEF Publish
<1>2. \A e \in C : \E s \in DOMAIN tasks : e \in tasks[s].found
  BY DEF Collected
<1>3. \A s \in DOMAIN tasks : tasks[s].found \subseteq C
  BY DEF Collected
<1>4. \A e \in C : e = <<e[1], Refers(e[1])>>
  BY <1>1, <1>2, FoundFacts
<1> HIDE DEF C
<1>5. ASSUME NEW e \in C
      PROVE  e[1] \in DOMAIN map' /\ map'[e[1]] = e[2]
  <2> DEFINE p == e[1]
  <2>1. p \in DOMAIN map' /\ map'[p] = CHOOSE g \in {d[2] : d \in C} : <<p, g>> \in C
    BY <1>1
  <2>2. e = <<p, e[2]>> /\ e[2] = Refers(p)
    BY <1>4
  <2>3. \E g \in {d[2] : d \in C} : <<p, g>> \in C
    BY <2>2
  <2>4. <<p, map'[p]>> \in C
    BY <2>1, <2>3
  <2>5. map'[p] = Refers(p)
    BY <1>4, <2>4
  <2> QED
    BY <2>1, <2>2, <2>5
<1>6. \A p \in DOMAIN map' : \E e \in C : p = e[1]
  BY <1>1
<1>7. DOMAIN map' \subseteq UNION {Window(s.base, s.size) : s \in DOMAIN tasks}
  BY <1>1, <1>2, <1>6, FoundFacts
<1>8. ASSUME NEW s \in DOMAIN tasks, NEW p \in DOMAIN map' \cap Window(s.base, s.size)
      PROVE  <<p, map'[p]>> \in LinearEntries(s)
  <2>1. PICK e \in C : p = e[1]
    BY <1>6
  <2>2. PICK r \in DOMAIN tasks : e \in tasks[r].found
    BY <1>2
  <2>3. p \in Window(r.base, r.size) /\ r \in Text /\ s \in Text
    BY <1>1, <2>1, <2>2, FoundFacts
  <2>4. r = s
    BY <1>8, <2>3, DisasmAssumption
  <2>5. <<p, map'[p]>> = e
    BY <1>4, <1>5, <2>1
  <2> QED
    BY <1>1, <2>2, <2>4, <2>5, FoundFacts
<1>9. ASSUME NEW s \in DOMAIN tasks, NEW e \in LinearEntries(s),
             e[1] < SectionEnd(s) - tasks[s].failed * Chunk
      PROVE  e \in {<<ip, map'[ip]>> : ip \in DOMAIN map' \cap Window(s.base, s.size)}
  <2>1. /\ s \in Text /\ tasks[s] \in Task /\ Swept(s)
        /\ e[1] \in Window(s.base, s.size) /\ e = <<e[1], Refers(e[1])>>
    BY <1>1, FoundFacts DEF SweepInv
  <2>2. e[1] \in Int /\ e[1] < SectionEnd(s) /\ SectionEnd(s) \in Int
    BY <2>1, SectionFacts
  <2>3. tasks[s].ip \in Int /\ tasks[s].failed * Chunk \in Int
    BY <2>1, DisasmAssumption DEF Task
  <2>4. e[1] < tasks[s].ip
    BY <1>1, <1>9, <2>2, <2>3, SweepReached
  <2>5. e \in C
    BY <1>3, <2>1, <2>4 DEF Swept, EntriesBefore
  <2>6. e[1] \in DOMAIN map' /\ e = <<e[1], map'[e[1]]>>
    BY <1>5, <2>1, <2>5
  <2> QED
    BY <2>1, <2>6
<1> QED
  BY <1>7, <1>8, <1>9 DEF Published

LEMMA InitSweep == Init => SweepInv
BY DEF Init, DisasmInit, SweepInv

LEMMA StepSweep == SweepInv /\ [Next]_vars => SweepInv' /\ [Published]_vars
<1> SUFFICES ASSUME SweepInv, [Next]_vars
             PROVE  SweepInv' /\ (Published \/ UNCHANGED vars)
  OBVIOUS
<1>1. ASSUME NEW s \in DOMAIN tasks, ReadChunk(s) \/ Decode(s)
      PROVE  SweepInv' /\ Published
  <2>1. SweepInv'
    BY <1>1, ReadKeeps, DecodeKeeps
  <2>2. Published
    BY <1>1 DEF ReadChunk, Decode, Published
  <2> QED
    BY <2>1, <2>2
<1>2. CASE Publish
  BY <1>2, PublishIsTheSweep DEF Publish, SweepInv, target
<1>3. CASE \E name \in Names : Collect(name)
  BY <1>3, CollectKeeps DEF Collect, CollectGlobals, Published
<1>4. CASE \E g \in Asked : FindSigs(g) \/ FindSigsRefused(g)
  BY <1>4 DEF FindSigs, FindSigsRefused, SweepInv, target, disasm, Published
<1>5. CASE Grow \/ CheckChunk \/ CheckEnd
  BY <1>5 DEF Grow, CheckChunk, CheckEnd, SweepInv, target, disasm, Published
<1>6. CASE TargetMoves
  BY <1>6 DEF TargetMoves, SweepInv, Published
<1>7. CASE UNCHANGED vars
  <2>1. /\ UNCHANGED target /\ tasks' = tasks /\ call' = call
        /\ mem' = mem /\ loaded' = loaded
    BY <1>7 DEF vars, target, disasm
  <2>2. ASSUME call = "collect", NEW s \in DOMAIN tasks
        PROVE  Place(s)' /\ Swept(s)' /\ Reached(s)'
    <3>1. s \in Text /\ mem \in Codes /\ Place(s) /\ Swept(s) /\ Reached(s)
      BY <2>2 DEF SweepInv
    <3> QED
      BY <2>1, <3>1, SectionSame
         DEF Place, Swept, Reached, Done, EntriesBefore, SectionEnd
  <2> QED
    BY <1>7, <2>1, <2>2 DEF SweepInv
<1> QED
  BY <1>1, <1>2, <1>3, <1>4, <1>5, <1>6, <1>7 DEF Next, Start, Step, Collecting

\* What a collection publishes is what one linear sweep of each section
\* finds, for every program, decoder and chunk size; a read that fails costs
\* the end of the section, a chunk at most for each (disasm.rs:82-124).
THEOREM SweepsAreLinear == Spec => GlobalsAreTheSweep
BY InitSweep, StepSweep, PTL DEF Spec, GlobalsAreTheSweep, Published

-----------------------------------------------------------------------------
(***************************************************************************)
(* The signature maker.  A state that is no duplicate matches nowhere in   *)
(* the chunks searched so far, and the chunks cover the text.              *)
(***************************************************************************)
NoMatchYet ==
    \A u \in States \ dups : \A c \in ChunkStarts \ todo :
        \A a \in Searched(c) \ {u} : ~Matches(a, u)

SigInv ==
    /\ mem \in Codes /\ loaded \subseteq Modules /\ ranges \subseteq Text
    /\ \A u \in States : mask[u] \in Seq(BOOLEAN)
    /\ call # "idle" => answer.sigs = {}
    /\ call = "check" => NoMatchYet
    /\ SignatureUnique

LEMMA ShownIsByte ==
  ASSUME mem \in Codes, NEW a
  PROVE  Shown(a) \in Byte
BY DisasmAssumption DEF Shown

LEMMA LastMultiple ==
  ASSUME NEW n \in Nat, NEW d \in Nat \ {0}
  PROVE  \E m \in 0..n : m % d = 0 /\ n - m \in 0 .. d - 1
<1> DEFINE q == n \div d
           p == (q * d) \div d
           r == (q * d) % d
<1>1. q \in Nat /\ n = (q * d) + (n % d) /\ n % d \in 0 .. d - 1
  OBVIOUS
<1> HIDE DEF q
<1>2. q * d \in 0..n
  BY <1>1
<1>3. p \in Int /\ q * d = (p * d) + r /\ r \in 0 .. d - 1
  BY <1>2
<1> HIDE DEF p, r
<1>4. (q - p) * d = r
  BY <1>1, <1>3
<1>5. q - p <= 0 => (q - p) * d <= 0
  BY <1>1, <1>3
<1>6. q - p >= 1 => (q - p) * d >= d
  BY <1>1, <1>3
<1>7. r = 0
  BY <1>1, <1>3, <1>4, <1>5, <1>6
<1> QED
  BY <1>1, <1>2, <1>7 DEF r

\* Each byte of the text that is searched lies in one of the chunks.
LEMMA ChunksCover ==
  ASSUME ranges \subseteq Text, NEW r \in ranges, NEW a \in Window(r.base, r.size)
  PROVE  \E c \in ChunkStarts : a \in Searched(c)
<1>1. /\ r.base \in Nat /\ r.size \in Nat /\ SigChunk \in Nat \ {0}
      /\ a \in r.base .. (r.base + r.size - 1)
  BY SectionFacts, SigmakerAssumption DEF Window
<1> DEFINE n == a - r.base
<1>2. n \in Nat
  BY <1>1
<1> HIDE DEF n
<1>3. PICK m \in 0 .. n : m % SigChunk = 0 /\ n - m \in 0 .. SigChunk - 1
  BY <1>1, <1>2, LastMultiple
<1>4. r.base + m \in Window(r.base, r.size) /\ (r.base + m) - r.base = m
  BY <1>1, <1>2, <1>3 DEF Window, n
<1>5. r.base + m \in ChunkStarts
  BY <1>3, <1>4 DEF ChunkStarts
<1>6. a \in Searched(r.base + m)
  BY <1>1, <1>2, <1>3 DEF Searched, n
<1> QED
  BY <1>5, <1>6

\* A signature hits where the mask it is made from matches.
LEMMA HitsAreMatches ==
  ASSUME mem \in Codes, NEW u \in States, mask[u] \in Seq(BOOLEAN), NEW a
  PROVE  SigHits(a, [at |-> u, bytes |-> SigOf(u)]) <=> Matches(a, u)
<1> DEFINE s == SigOf(u)
<1>1. /\ Len(mask[u]) \in Nat /\ Len(s) = Len(mask[u])
      /\ \A k \in 1..Len(mask[u]) :
            s[k] = IF mask[u][k] THEN Shown(u + k - 1) ELSE Wild
  BY DEF SigOf
<1>2. \A b : Shown(b) \in Byte /\ Shown(b) # Wild
  BY ShownIsByte, SigmakerAssumption
<1> HIDE DEF s
<1>3. (\A k \in 1..Len(s) : s[k] \in {Wild, Shown(a + k - 1)}) <=> Matches(a, u)
  BY <1>1, <1>2 DEF Matches
<1> QED
  BY <1>3 DEF SigHits, s

LEMMA UniqueSame ==
  ASSUME SignatureUnique, UNCHANGED <<target, answer, ranges>>
  PROVE  SignatureUnique'
<1>1. \A a : Shown(a)' = Shown(a)
  BY DEF Shown, Present, target
<1>2. \A a, s : SigHits(a, s)' = SigHits(a, s)
  BY <1>1 DEF SigHits
<1> QED
  BY <1>2 DEF SignatureUnique

\* Clearing fields of a mask that is all literal leaves just the bytes literal
\* that do not move.
LEMMA InstrMaskFacts ==
  ASSUME NEW i \in Instructions
  PROVE  /\ InstrMask(i) \in [1..i.len -> BOOLEAN]
         /\ \A k \in 1..i.len : InstrMask(i)[k] <=> k - 1 \notin Moving(i)
<1>1. /\ i.len \in Nat /\ i.imm.size \in Nat /\ i.imm.off \in Nat
      /\ i.base \in {"ip", "segment", "none", "register"}
      /\ i.op0 \in {"near", "far", "other"}
  BY DEF Instructions, Fields
<1> DEFINE D == 1..i.len
           m == IF i.base # "register" THEN MaskMem(Literal(i), i) ELSE Literal(i)
<1>2. ASSUME NEW f, NEW w \in [D -> BOOLEAN]
      PROVE  /\ Cleared(w, f) \in [D -> BOOLEAN]
             /\ \A k \in D : Cleared(w, f)[k] <=> w[k] /\ k - 1 \notin FieldBytes(f)
  BY Zenon DEF Cleared
<1>3. Literal(i) \in [D -> BOOLEAN] /\ \A k \in D : Literal(i)[k]
  BY Zenon DEF Literal
<1>4. /\ m \in [D -> BOOLEAN]
      /\ \A k \in D : m[k] <=> ~(k - 1 \in FieldBytes(i.disp) /\ i.base # "register")
  <2>1. CASE i.base # "register"
    BY <1>2, <1>3, <2>1, Zenon DEF MaskMem
  <2>2. CASE i.base = "register"
    BY <1>3, <2>2, Zenon
  <2> QED
    BY <2>1, <2>2
<1>5. InstrMask(i) = IF i.op0 # "other" THEN MaskBranch(m, i, 1) ELSE m
  BY <1>1 DEF InstrMask
<1> HIDE DEF m
<1>6. i.imm.size = 0 => FieldBytes(i.imm) = {}
  BY <1>1 DEF FieldBytes
<1>7. \A k \in D : k - 1 \in Moving(i) <=>
          \/ k - 1 \in FieldBytes(i.disp) /\ i.base # "register"
          \/ k - 1 \in FieldBytes(i.imm) /\ i.op0 # "other" /\ i.imm.size # 1
  BY <1>1 DEF Moving
<1>8. CASE i.op0 # "other" /\ i.imm.size > 1
  <2>1. InstrMask(i) = Cleared(m, i.imm) /\ i.imm.size # 1
    BY <1>1, <1>5, <1>8 DEF MaskBranch
  <2>2. /\ Cleared(m, i.imm) \in [D -> BOOLEAN]
        /\ \A k \in D : Cleared(m, i.imm)[k] <=> m[k] /\ k - 1 \notin FieldBytes(i.imm)
    BY <1>2, <1>4
  <2>3. ASSUME NEW k \in D
        PROVE  InstrMask(i)[k] <=> k - 1 \notin Moving(i)
    <3>1. InstrMask(i)[k] <=> m[k] /\ k - 1 \notin FieldBytes(i.imm)
      BY <2>1, <2>2
    <3>2. m[k] <=> ~(k - 1 \in FieldBytes(i.disp) /\ i.base # "register")
      BY <1>4
    <3>3. k - 1 \in Moving(i) <=>
              \/ k - 1 \in FieldBytes(i.disp) /\ i.base # "register"
              \/ k - 1 \in FieldBytes(i.imm)
      BY <1>7, <1>8, <2>1
    <3> QED
      BY <3>1, <3>2, <3>3, Zenon
  <2> QED
    BY <2>1, <2>2, <2>3
<1>9. CASE ~(i.op0 # "other" /\ i.imm.size > 1)
  <2>1. InstrMask(i) = m
    BY <1>5, <1>9 DEF MaskBranch
  <2>2. i.op0 = "other" \/ i.imm.size = 1 \/ FieldBytes(i.imm) = {}
    BY <1>1, <1>6, <1>9
  <2>3. \A k \in D : k - 1 \in Moving(i) <=>
            k - 1 \in FieldBytes(i.disp) /\ i.base # "register"
    BY <1>7, <2>2, Zenon
  <2> QED
    BY <1>4, <2>1, <2>3, Zenon
<1> QED
  BY <1>8, <1>9

LEMMA InstrHereFacts ==
  ASSUME mem \in Codes, NEW u
  PROVE  InstrHere(u) \in Instructions /\ InstrHere(u).len \in Nat \ {0}
<1>1. InstrHere(u) \in Instructions
  BY ShownIsByte, DisasmAssumption DEF InstrHere, InstrAt
<1> QED
  BY <1>1 DEF Instructions

LEMMA ExtendedIsMask ==
  ASSUME mem \in Codes, NEW u \in States, mask[u] \in Seq(BOOLEAN)
  PROVE  Extended(u) \in Seq(BOOLEAN)
<1>1. InstrHere(u).len \in Nat
  BY InstrHereFacts
<1> DEFINE n == InstrHere(u).len
<1>2. InstrMask(InstrHere(u)) \in [1..n -> BOOLEAN]
  BY InstrHereFacts, InstrMaskFacts
<1>3. InstrMask(InstrHere(u)) \in Seq(BOOLEAN)
  BY <1>1, <1>2, SeqDef, Zenon
<1> QED
  BY <1>3 DEF Extended

LEMMA GrowKeepsSig ==
  ASSUME SigInv, Grow
  PROVE  SigInv'
<1>1. /\ call = "grow" /\ answer.sigs = {} /\ UNCHANGED <<target, ranges>>
      /\ mem' = mem /\ loaded' = loaded
  BY DEF Grow, SigInv, target
<1>2. CASE /\ mask' = [u \in States |-> IF Adds(u) THEN Extended(u) ELSE mask[u]]
           /\ call' = "check" /\ todo' = ChunkStarts /\ UNCHANGED answer
  <2>1. \A u \in States' : mask'[u] \in Seq(BOOLEAN)
    BY <1>2, ExtendedIsMask DEF SigInv, States
  <2>2. NoMatchYet'
    BY <1>1, <1>2 DEF NoMatchYet, ChunkStarts, States
  <2> QED
    BY <1>1, <1>2, <2>1, <2>2 DEF SigInv, SignatureUnique
<1>3. CASE call' = "idle" /\ Answer("ok", answer.of, {}) /\ Ended
  BY <1>1, <1>3 DEF SigInv, SignatureUnique, Answer, Ended, States
<1> QED
  BY <1>2, <1>3 DEF Grow

LEMMA CheckChunkKeepsSig ==
  ASSUME SigInv, CheckChunk
  PROVE  SigInv'
<1>1. /\ call = "check" /\ answer.sigs = {} /\ UNCHANGED <<target, ranges>>
      /\ mem' = mem /\ loaded' = loaded /\ NoMatchYet
  BY DEF CheckChunk, SigInv, target
<1>2. PICK c \in todo :
        \/ /\ dups' = dups \cup {u \in States : \E a \in Searched(c) \ {u} : Matches(a, u)}
           /\ todo' = todo \ {c}
           /\ UNCHANGED <<call, answer, mask, pos>>
        \/ call' = "idle" /\ Answer("failed", answer.of, {}) /\ Ended
  BY DEF CheckChunk
<1>3. CASE /\ dups' = dups \cup {u \in States : \E a \in Searched(c) \ {u} : Matches(a, u)}
           /\ todo' = todo \ {c}
           /\ UNCHANGED <<call, answer, mask, pos>>
  <2>1. /\ States' = States /\ ChunkStarts' = ChunkStarts
        /\ \A d, a, u : Searched(d)' = Searched(d) /\ Matches(a, u)' = Matches(a, u)
    BY <1>1, <1>3 DEF States, ChunkStarts, Searched, Matches, Shown, Present, target
  <2>2. ASSUME NEW u \in States \ dups', NEW d \in ChunkStarts \ todo',
               NEW a \in Searched(d) \ {u}
        PROVE  ~Matches(a, u)
    BY <1>1, <1>3, <2>2 DEF NoMatchYet
  <2>3. NoMatchYet'
    BY <2>1, <2>2 DEF NoMatchYet
  <2>4. SignatureUnique'
    BY <1>1, <1>3, UniqueSame DEF SigInv
  <2> QED
    BY <1>1, <1>3, <2>3, <2>4 DEF SigInv, States
<1>4. CASE call' = "idle" /\ Answer("failed", answer.of, {}) /\ Ended
  BY <1>1, <1>4 DEF SigInv, SignatureUnique, Answer, Ended, States
<1> QED
  BY <1>2, <1>3, <1>4

\* The states left match nowhere in the text: all chunks have been searched.
LEMMA CheckEndKeepsSig ==
  ASSUME SigInv, CheckEnd
  PROVE  SigInv'
<1>1. /\ call = "check" /\ todo = {} /\ answer.sigs = {}
      /\ UNCHANGED <<target, ranges>> /\ mem' = mem /\ loaded' = loaded
      /\ NoMatchYet
  BY DEF CheckEnd, SigInv, target
<1>2. CASE call' = "grow" /\ UNCHANGED <<answer, sigmaker>>
  BY <1>1, <1>2, UniqueSame DEF SigInv, States, sigmaker
<1>3. CASE /\ call' = "idle" /\ Ended
           /\ Answer("ok", answer.of,
                     {[at |-> u, bytes |-> SigOf(u)] : u \in States \ dups})
  <2>1. answer'.sigs = {[at |-> u, bytes |-> SigOf(u)] : u \in States \ dups}
    BY <1>3 DEF Answer
  <2>2. ASSUME NEW u \in States \ dups
        PROVE  LET s == [at |-> u, bytes |-> SigOf(u)]
               IN  /\ SigHits(s.at, s)
                   /\ \A r \in ranges : \A a \in Window(r.base, r.size) \ {s.at} :
                         ~SigHits(a, s)
    <3>1. mem \in Codes /\ mask[u] \in Seq(BOOLEAN) /\ ranges \subseteq Text
      BY DEF SigInv
    <3>2. Matches(u, u)
      BY DEF Matches
    <3>3. ASSUME NEW r \in ranges, NEW a \in Window(r.base, r.size) \ {u}
          PROVE  ~Matches(a, u)
      <4>1. PICK c \in ChunkStarts : a \in Searched(c)
        BY <3>1, ChunksCover
      <4> QED
        BY <1>1, <4>1 DEF NoMatchYet
    <3> QED
      BY <3>1, <3>2, <3>3, HitsAreMatches
  <2>3. \A a, s : SigHits(a, s)' = SigHits(a, s)
    BY <1>1 DEF SigHits, Shown, Present, target
  <2>4. SignatureUnique'
    BY <1>1, <2>1, <2>2, <2>3 DEF SignatureUnique
  <2> QED
    BY <1>1, <1>3, <2>4 DEF SigInv, States, Ended
<1> QED
  BY <1>2, <1>3 DEF CheckEnd

LEMMA InitSig == Init => SigInv
BY DEF States, Init, DisasmInit, SigInv, SignatureUnique, NoAnswer

LEMMA StepSig == SigInv /\ [Next]_vars => SigInv'
<1> SUFFICES ASSUME SigInv, [Next]_vars
             PROVE  SigInv'
  OBVIOUS
<1>1. CASE Collecting /\ UNCHANGED <<search, answer, writes>>
  <2>1. /\ UNCHANGED <<target, answer, ranges, mask>> /\ mem' = mem
        /\ loaded' = loaded /\ call = "collect" /\ call' \in {"collect", "idle"}
    BY <1>1 DEF Collecting, ReadChunk, Decode, Publish, search, sigmaker, target
  <2> QED
    BY <2>1, UniqueSame DEF SigInv, States
<1>2. CASE \E name \in Names : Collect(name)
  BY <1>2 DEF Collect, CollectGlobals, States, SigInv, SignatureUnique, NoAnswer, target,
              search, sigmaker
<1>3. CASE \E g \in Asked : FindSigsRefused(g)
  BY <1>3 DEF FindSigsRefused, Answer, States, SigInv, SignatureUnique, target,
              search, sigmaker
<1>4. CASE \E g \in Asked : FindSigs(g)
  <2>1. PICK g \in Asked : FindSigs(g)
    BY <1>4
  <2>2. /\ call' = "grow" /\ answer'.sigs = {} /\ mem' = mem /\ loaded' = loaded
        /\ mask' = [u \in InverseMap(g) |-> << >>]
        /\ \E m \in loaded : ranges' = m.text
    BY <2>1 DEF FindSigs, Answer, target
  <2>3. ranges' \subseteq Text
    BY <2>2 DEF Text, SigInv
  <2> QED
    BY <2>2, <2>3 DEF SigInv, States, SignatureUnique
<1>5. CASE Grow \/ CheckChunk \/ CheckEnd
  BY <1>5, GrowKeepsSig, CheckChunkKeepsSig, CheckEndKeepsSig
<1>6. CASE TargetMoves
  BY <1>6 DEF TargetMoves, States, SigInv, SignatureUnique, NoAnswer, search, sigmaker
<1>7. CASE UNCHANGED vars
  <2>1. /\ UNCHANGED <<target, call, answer, ranges, mask, todo, dups>>
        /\ mem' = mem /\ loaded' = loaded
    BY <1>7 DEF vars, search, sigmaker, target
  <2>2. ChunkStarts' = ChunkStarts /\ \A a, u : Matches(a, u)' = Matches(a, u)
    BY <2>1 DEF ChunkStarts, Matches, Shown, Present, target
  <2>3. call = "check" => NoMatchYet'
    BY <2>1, <2>2 DEF SigInv, States, NoMatchYet, Searched
  <2> QED
    BY <2>1, <2>3, UniqueSame DEF SigInv, States
<1> QED
  BY <1>1, <1>2, <1>3, <1>4, <1>5, <1>6, <1>7 DEF Next, Start, Step

\* A signature that is returned stands at its instruction and at no other
\* place of the text searched, for every program, decoder and layout of
\* sections and every length of chunk and signature (sigmaker.rs:107-126).
THEOREM SignaturesAreUnique == Spec => []SignatureUnique
<1>1. SigInv => SignatureUnique
  BY DEF SigInv
<1> QED
  BY InitSig, StepSig, <1>1, PTL DEF Spec

-----------------------------------------------------------------------------
(***************************************************************************)
(* What the variables of the two components hold.                          *)
(***************************************************************************)
Marks ==
    /\ DOMAIN pos = States /\ States \subseteq TextBytes
    /\ \A u \in States : /\ mask[u] \in Seq(BOOLEAN) /\ Len(mask[u]) <= pos[u]
                         /\ pos[u] \in 0..SigLen
    /\ dups \subseteq States

TypeInv ==
    /\ SweepInv
    /\ call \in {"idle", "collect", "grow", "check"}
    /\ IF call = "collect" THEN \A s \in DOMAIN tasks : tasks[s].addr >= 0
                           ELSE tasks = << >>
    /\ DOMAIN map \subseteq TextBytes /\ Range(map) \subseteq Int
    /\ Marks

LEMMA MarksSame ==
  ASSUME Marks, UNCHANGED <<mask, pos, dups>>
  PROVE  Marks'
BY DEF Marks, States

LEMMA MarksEnd ==
  ASSUME Ended
  PROVE  Marks' /\ States' = {}
BY DEF Ended, Marks, States

\* What a round of Grow does to one state.
GrowsTo(u) ==
    /\ pos'[u] \in 0..SigLen /\ Moved(u, pos'[u])
    /\ mask'[u] = IF Adds(u) THEN Extended(u) ELSE mask[u]

LEMMA GrowFacts ==
  ASSUME mem \in Codes, Marks, NEW u \in States, GrowsTo(u)
  PROVE  /\ u \in Int /\ Len(mask[u]) \in Nat /\ pos[u] \in 0..SigLen
         /\ Len(mask'[u]) \in Nat
         /\ mask'[u] \in Seq(BOOLEAN) /\ Len(mask'[u]) <= pos'[u]
         /\ \A k \in 1..Len(mask[u]) : mask'[u][k] = mask[u][k]
         /\ Len(mask[u]) <= Len(mask'[u])
         /\ Adds(u) =>
              LET i == InstrAt(u + pos[u])
              IN  /\ i.valid /\ pos[u] < SigLen /\ pos'[u] = pos[u] + i.len
                  /\ Len(mask'[u]) = Len(mask[u]) + i.len
                  /\ \A k \in 1..i.len :
                        mask'[u][Len(mask[u]) + k] <=> k - 1 \notin Moving(i)
         /\ ~Adds(u) =>
              /\ mask'[u] = mask[u] /\ (pos[u] = SigLen => pos'[u] = pos[u])
              /\ \/ pos[u] = SigLen \/ ~InstrAt(u + pos[u]).valid
                 \/ pos[u] + InstrAt(u + pos[u]).len > SigLen
<1> DEFINE i == InstrHere(u)
           n == i.len
           m == mask[u]
           new == InstrMask(i)
<1>1. /\ pos[u] \in 0..SigLen /\ SigLen \in Nat \ {0} /\ m \in Seq(BOOLEAN)
      /\ Len(m) \in Nat /\ Len(m) <= pos[u] /\ Left(u) = SigLen - pos[u]
  BY SigmakerAssumption DEF Marks, Left
<1>2. u \in Int
  <2>1. \A s \in Text : s.base \in Nat /\ s.size \in Nat
    BY SectionFacts
  <2> QED
    BY <2>1 DEF Marks, TextBytes, Window
<1>3. n \in Nat \ {0} /\ i = InstrAt(u + pos[u]) /\ i \in Instructions
  BY InstrHereFacts DEF InstrHere
<1>4. new \in Seq(BOOLEAN) /\ Len(new) = n /\ \A k \in 1..n : new[k] <=> k - 1 \notin Moving(i)
  <2>1. new \in [1..n -> BOOLEAN]
    BY <1>3, InstrMaskFacts
  <2>2. new \in Seq(BOOLEAN)
    BY <1>3, <2>1, SeqDef, Zenon
  <2>3. Len(new) = n
    BY <1>3, <2>1, <2>2
  <2>4. \A k \in 1..n : new[k] <=> k - 1 \notin Moving(i)
    BY <1>3, InstrMaskFacts
  <2> QED
    BY <2>2, <2>3, <2>4
<1> HIDE DEF i, n, m, new
<1>5. pos'[u] \in 0..SigLen
  BY DEF GrowsTo
<1>6. CASE Adds(u)
  <2>1. i.valid /\ n <= SigLen - pos[u]
    BY <1>1, <1>6 DEF Adds, i, n
  <2>2. pos'[u] = pos[u] + n
    BY <1>1, <1>3, <2>1 DEF GrowsTo, Moved, i, n
  <2>3. mask'[u] = m \o new
    BY <1>6 DEF GrowsTo, Extended, m, new, i
  <2>4. /\ m \o new \in Seq(BOOLEAN) /\ Len(m \o new) = Len(m) + n
        /\ \A k \in 1..Len(m) : (m \o new)[k] = m[k]
        /\ \A k \in 1..n : (m \o new)[Len(m) + k] = new[k]
    <3>1. \A j \in 1 .. Len(m) + Len(new) :
             (m \o new)[j] = IF j <= Len(m) THEN m[j] ELSE new[j - Len(m)]
      BY <1>1, <1>4, ConcatProperties
    <3>2. ASSUME NEW k \in 1..n
          PROVE  (m \o new)[Len(m) + k] = new[k]
      <4>1. /\ Len(m) + k \in 1 .. Len(m) + Len(new) /\ ~(Len(m) + k <= Len(m))
            /\ (Len(m) + k) - Len(m) = k
        BY <1>1, <1>3, <1>4
      <4> QED
        BY <3>1, <4>1
    <3>3. \A k \in 1..Len(m) : k \in 1 .. Len(m) + Len(new) /\ k <= Len(m)
      BY <1>1, <1>3, <1>4
    <3>4. m \o new \in Seq(BOOLEAN) /\ Len(m \o new) = Len(m) + n
      BY <1>1, <1>4, ConcatProperties
    <3> QED
      BY <3>1, <3>2, <3>3, <3>4
  <2>5. ASSUME NEW k \in 1..n
        PROVE  mask'[u][Len(m) + k] <=> k - 1 \notin Moving(i)
    <3>1. mask'[u][Len(m) + k] = new[k]
      BY <2>3, <2>4
    <3>2. new[k] <=> k - 1 \notin Moving(i)
      BY <1>4
    <3> QED
      BY <3>1, <3>2, Zenon
  <2>6. /\ Len(mask'[u]) \in Nat /\ Len(mask'[u]) = Len(m) + n
        /\ Len(m) <= Len(mask'[u]) /\ Len(mask'[u]) <= pos'[u] /\ pos[u] < SigLen
        /\ mask'[u] \in Seq(BOOLEAN)
        /\ \A k \in 1..Len(m) : mask'[u][k] = m[k]
    BY <1>1, <1>3, <1>5, <2>1, <2>2, <2>3, <2>4
  <2>7. \A k \in 1..i.len : mask'[u][Len(mask[u]) + k] <=> k - 1 \notin Moving(i)
    BY <2>5, Zenon DEF m, n
  <2>8. /\ u \in Int /\ Len(mask[u]) \in Nat /\ pos[u] \in 0..SigLen
        /\ i.valid /\ pos[u] < SigLen /\ pos'[u] = pos[u] + i.len
        /\ Len(mask'[u]) = Len(mask[u]) + i.len
    BY <1>1, <1>2, <2>1, <2>2, <2>6, Zenon DEF m, n
  <2> QED
    BY <1>3, <1>6, <2>6, <2>7, <2>8, Zenon DEF m
<1>7. CASE ~Adds(u)
  <2>1. mask'[u] = m
    BY <1>7 DEF GrowsTo, m
  <2>2. ~i.valid \/ n > SigLen - pos[u]
    BY <1>1, <1>3, <1>7 DEF Adds, i, n
  <2>3. pos'[u] >= pos[u] /\ (pos[u] = SigLen => pos'[u] = pos[u])
    <3>1. CASE Left(u) > 0 /\ n > Left(u)
      BY <1>1, <1>3, <1>5, <3>1 DEF GrowsTo, Moved, i, n
    <3>2. CASE Left(u) > 0 /\ ~(n > Left(u))
      BY <1>1, <1>3, <1>5, <3>2 DEF GrowsTo, Moved, i, n
    <3>3. CASE ~(Left(u) > 0)
      BY <1>1, <1>3, <1>5, <3>3 DEF GrowsTo, Moved, i, n
    <3> QED
      BY <3>1, <3>2, <3>3
  <2> QED
    BY <1>1, <1>2, <1>3, <1>5, <1>7, <2>1, <2>2, <2>3 DEF m, n
<1> QED
  BY <1>6, <1>7

\* A round gives each state of the search its step, or the search is over.
LEMMA GrowCases ==
  ASSUME Grow
  PROVE  \/ /\ call' = "check" /\ dups' = {} /\ UNCHANGED <<answer, ranges>>
            /\ todo' = ChunkStarts /\ \E u \in States : Adds(u)
            /\ DOMAIN mask' = States /\ DOMAIN pos' = States
            /\ \A u \in States : GrowsTo(u)
         \/ /\ call' = "idle" /\ Answer("ok", answer.of, {}) /\ Ended
            /\ UNCHANGED ranges /\ ~\E u \in States : Adds(u)
<1>1. CASE /\ \E u \in States : Adds(u)
           /\ pos' \in [States -> 0..SigLen] /\ \A u \in States : Moved(u, pos'[u])
           /\ mask' = [u \in States |-> IF Adds(u) THEN Extended(u) ELSE mask[u]]
           /\ call' = "check" /\ todo' = ChunkStarts /\ dups' = {}
           /\ UNCHANGED answer
  <2>1. \A u \in States : GrowsTo(u)
    BY <1>1 DEF GrowsTo
  <2>2. DOMAIN mask' = States /\ DOMAIN pos' = States
    BY <1>1
  <2> QED
    BY <1>1, <2>1, <2>2 DEF Grow
<1>2. CASE /\ ~\E u \in States : Adds(u)
           /\ call' = "idle" /\ Answer("ok", answer.of, {}) /\ Ended
  BY <1>2 DEF Grow
<1> QED
  BY <1>1, <1>2 DEF Grow

LEMMA GrowMarks ==
  ASSUME mem \in Codes, Marks, Grow
  PROVE  Marks'
<1>1. CASE /\ dups' = {} /\ DOMAIN mask' = States /\ DOMAIN pos' = States
           /\ \A u \in States : GrowsTo(u)
  <2>1. \A u \in States : /\ mask'[u] \in Seq(BOOLEAN)
                          /\ Len(mask'[u]) <= pos'[u] /\ pos'[u] \in 0..SigLen
    BY <1>1, GrowFacts DEF GrowsTo
  <2>2. States' = States /\ States \subseteq TextBytes
    BY <1>1 DEF States, Marks
  <2> QED
    BY <1>1, <2>1, <2>2 DEF Marks
<1> QED
  BY <1>1, GrowCases, MarksEnd

\* What a collection publishes lies in the text and refers to addresses.
LEMMA PublishTypes ==
  ASSUME SweepInv, Publish
  PROVE  DOMAIN map' \subseteq TextBytes /\ Range(map') \subseteq Int
<1>1. /\ call = "collect" /\ call' = "idle"
      /\ DOMAIN tasks \subseteq Text /\ mem \in Codes
  BY DEF Publish, SweepInv
<1>2. /\ DOMAIN map' \subseteq UNION {Window(s.base, s.size) : s \in DOMAIN tasks}
      /\ \A s \in DOMAIN tasks :
            {<<ip, map'[ip]>> : ip \in DOMAIN map' \cap Window(s.base, s.size)}
              \subseteq LinearEntries(s)
  BY <1>1, PublishIsTheSweep DEF Published
<1>3. DOMAIN map' \subseteq TextBytes
  BY <1>1, <1>2 DEF TextBytes
<1>4. ASSUME NEW ip \in DOMAIN map'
      PROVE  map'[ip] \in Int
  <2>1. PICK s \in DOMAIN tasks : ip \in Window(s.base, s.size)
    BY <1>2
  <2>2. <<ip, map'[ip]>> \in LinearEntries(s)
    BY <1>2, <2>1
  <2> QED
    BY <1>1, <2>2, EntriesFacts
<1> QED
  BY <1>3, <1>4 DEF Range

LEMMA InitTypes == Init => TypeInv
<1> SUFFICES ASSUME Init PROVE TypeInv
  OBVIOUS
<1>1. SweepInv
  BY InitSweep
<1>2. Marks
  BY DEF Init, Marks, States
<1>3. DOMAIN map = {} /\ Range(map) = {}
  BY DEF Init, DisasmInit, NoGlobals, Range
<1> QED
  BY <1>1, <1>2, <1>3 DEF Init, DisasmInit, TypeInv

LEMMA StepTypes == TypeInv /\ [Next]_vars => TypeInv'
<1> SUFFICES ASSUME TypeInv, [Next]_vars
             PROVE  TypeInv'
  OBVIOUS
<1>0. SweepInv' /\ SweepInv /\ Marks /\ mem \in Codes
  BY StepSweep DEF TypeInv, SweepInv
<1>1. ASSUME NEW s \in DOMAIN tasks, ReadChunk(s) \/ Decode(s),
             UNCHANGED <<search, answer, writes>>
      PROVE  TypeInv'
  <2>1. /\ call = "collect" /\ call' = call /\ map' = map
        /\ UNCHANGED <<mask, pos, dups>>
    BY <1>1 DEF ReadChunk, Decode, search, sigmaker
  <2>2. /\ s \in Text /\ tasks[s] \in Task /\ Place(s) /\ tasks[s].addr >= 0
        /\ \A r \in DOMAIN tasks : tasks[r].addr >= 0
    BY <2>1 DEF TypeInv, SweepInv
  <2>3. tasks[s].ip \in Nat
    BY <2>2, SectionFacts DEF Place, Task
  <2>4. /\ tasks[s].addr + Chunk >= 0 /\ NextInstr(tasks[s].ip) >= 0
    BY <1>0, <2>2, <2>3, InstrFacts, DisasmAssumption DEF Task
  <2>5. DOMAIN tasks' = DOMAIN tasks /\ tasks'[s].addr >= 0
    BY <1>1, <2>2, <2>4 DEF ReadChunk, Decode, Task
  <2>6. \A r \in DOMAIN tasks : r # s => tasks'[r] = tasks[r]
    BY <1>1 DEF ReadChunk, Decode
  <2>7. \A r \in DOMAIN tasks' : tasks'[r].addr >= 0
    BY <2>2, <2>5, <2>6
  <2>8. Marks'
    BY <1>0, <2>1, MarksSame
  <2> QED
    BY <1>0, <2>1, <2>7, <2>8 DEF TypeInv
<1>2. ASSUME Publish, UNCHANGED <<search, answer, writes>>
      PROVE  TypeInv'
  <2>1. call' = "idle" /\ tasks' = << >> /\ UNCHANGED <<mask, pos, dups>>
    BY <1>2 DEF Publish, search, sigmaker
  <2>2. DOMAIN map' \subseteq TextBytes /\ Range(map') \subseteq Int
    BY <1>0, <1>2, PublishTypes
  <2>3. Marks'
    BY <1>0, <2>1, MarksSame
  <2>4. Range(map)' = Range(map')
    BY DEF Range
  <2> QED
    BY <1>0, <2>1, <2>2, <2>3, <2>4 DEF TypeInv
<1>3. ASSUME NEW name \in Names, Collect(name)
      PROVE  TypeInv'
  <2>1. /\ call = "idle" /\ map' = NoGlobals /\ UNCHANGED <<mask, pos, dups>>
        /\ tasks = << >>
    BY <1>3 DEF Collect, CollectGlobals, Reset, search, sigmaker, TypeInv
  <2>2. Marks' /\ DOMAIN map' = {} /\ Range(map)' = {}
    BY <1>0, <2>1, MarksSame DEF NoGlobals, Range
  <2>3. CASE UNCHANGED <<call, tasks>>
    BY <1>0, <2>1, <2>2, <2>3 DEF TypeInv
  <2>4. CASE \E listed \in SUBSET loaded :
                /\ tasks' = [s \in Chosen(name, listed) |-> Sweep(s)]
                /\ call' = "collect"
    <3>1. PICK listed \in SUBSET loaded :
             tasks' = [s \in Chosen(name, listed) |-> Sweep(s)]
      BY <2>4
    <3>2. ASSUME NEW s \in DOMAIN tasks'
          PROVE  tasks'[s].addr >= 0
      <4>1. s \in Text /\ tasks'[s] = Sweep(s)
        BY <2>4, <3>1, <1>0 DEF SweepInv
      <4> QED
        BY <4>1, SectionFacts DEF Sweep
    <3> QED
      BY <1>0, <2>2, <2>4, <3>2 DEF TypeInv
  <2> QED
    BY <1>3, <2>3, <2>4 DEF Collect, CollectGlobals
<1>4. ASSUME NEW g \in Asked, FindSigs(g)
      PROVE  TypeInv'
  <2>1. /\ call = "idle" /\ call' = "grow" /\ map' = map /\ tasks' = tasks
        /\ mask' = [u \in InverseMap(g) |-> << >>]
        /\ pos' = [u \in InverseMap(g) |-> 0] /\ dups' = {}
    BY <1>4 DEF FindSigs, disasm
  <2>2. InverseMap(g) \subseteq TextBytes
    BY DEF InverseMap, TypeInv
  <2>3. 0 \in 0..SigLen
    BY SigmakerAssumption
  <2>4. Marks'
    BY <2>1, <2>2, <2>3 DEF Marks, States
  <2> QED
    BY <1>0, <2>1, <2>4 DEF TypeInv
<1>5. ASSUME \/ \E g \in Asked : FindSigsRefused(g)
             \/ TargetMoves
             \/ UNCHANGED vars
      PROVE  TypeInv'
  <2>1. call' = call /\ map' = map /\ tasks' = tasks /\ UNCHANGED <<mask, pos, dups>>
    BY <1>5 DEF FindSigsRefused, TargetMoves, vars, disasm, search, sigmaker
  <2>2. Marks'
    BY <1>0, <2>1, MarksSame
  <2> QED
    BY <1>0, <2>1, <2>2 DEF TypeInv
<1>6. ASSUME Grow \/ CheckChunk \/ CheckEnd
      PROVE  TypeInv'
  <2>1. /\ map' = map /\ tasks' = tasks /\ call \in {"grow", "check"}
        /\ call' \in {"idle", "grow", "check"}
    BY <1>6 DEF Grow, CheckChunk, CheckEnd, disasm
  <2>2. Marks'
    <3>1. CASE Grow
      BY <1>0, <3>1, GrowMarks
    <3>2. CASE CheckChunk
      <4>1. \/ Ended
            \/ UNCHANGED <<mask, pos>> /\ dups' \subseteq dups \cup States
        BY <3>2 DEF CheckChunk
      <4> QED
        BY <1>0, <4>1, MarksEnd DEF Marks, States
    <3>3. CASE CheckEnd
      <4>1. Ended \/ UNCHANGED <<mask, pos, dups>>
        BY <3>3 DEF CheckEnd, sigmaker
      <4> QED
        BY <1>0, <4>1, MarksEnd, MarksSame
    <3> QED
      BY <1>6, <3>1, <3>2, <3>3
  <2> QED
    BY <1>0, <2>1, <2>2 DEF TypeInv
<1> QED
  BY <1>1, <1>2, <1>3, <1>4, <1>5, <1>6 DEF Next, Start, Step, Collecting

LEMMA TypesAreInvariant == Spec => []TypeInv
BY InitTypes, StepTypes, PTL DEF Spec

\* The sweeps stay in their sections and count their reads, the globals stay
\* in the text, and a mask is never longer than the decoder has come
\* (disasm.rs:61-124, sigmaker.rs:18-40).
THEOREM SigmakerTypes == Spec => []TypeOK
<1>1. TypeInv => TypeOK
  <2> SUFFICES ASSUME TypeInv PROVE TypeOK
    OBVIOUS
  <2>1. ASSUME NEW s \in DOMAIN tasks
        PROVE  /\ s \in Text /\ tasks[s].steps \in Nat
               /\ tasks[s].steps + tasks[s].failed <= StepsOf(s.size, Chunk)
               /\ tasks[s].ip \in Nat /\ tasks[s].addr \in Nat
    <3>1. call = "collect"
      BY DEF TypeInv
    <3>2. /\ s \in Text /\ tasks[s] \in Task /\ Place(s) /\ Reached(s)
          /\ tasks[s].addr >= 0
      BY <3>1 DEF TypeInv, SweepInv
    <3>3. s.base \in Nat /\ StepsOf(s.size, Chunk) \in Nat
      BY <3>2, SectionFacts, StepsCover
    <3>4. /\ tasks[s].steps \in Nat /\ tasks[s].failed \in Nat
          /\ tasks[s].ip \in Int /\ tasks[s].addr \in Int
      BY <3>2 DEF Task
    <3> QED
      BY <3>2, <3>3, <3>4 DEF Place, Reached, Done
  <2>2. DOMAIN tasks \subseteq Text
    BY <2>1
  <2> QED
    BY <2>1, <2>2 DEF TypeInv, TypeOK, Marks, SweepInv
<1> QED
  BY TypesAreInvariant, <1>1, PTL

-----------------------------------------------------------------------------
(***************************************************************************)
(* The masks.  The first p bytes of the mask m of u are those of whole     *)
(* instructions, and either the mask is no longer, and ends where the      *)
(* decoder stands (at o), or the decoder has rejected the instruction      *)
(* after them.                                                             *)
(***************************************************************************)
Rejected(u, p) ==
    p < SigLen /\ (~InstrAt(u + p).valid \/ NextInstr(u + p) > u + SigLen)

Masked(u, i) == \E b \in Decoded(u) : i - b \in Moving(InstrAt(b))

Prefix(u, p, m, o) ==
    /\ p <= Len(m)
    /\ p < SigLen => u + p \in Decoded(u)
    /\ \A y \in Decoded(u) : y < u + p => NextInstr(y) <= u + p
    /\ \A k \in 1..p : ~m[k] <=> Masked(u, u + k - 1)
    /\ (p = o /\ p = Len(m)) \/ Rejected(u, p)

\* The code of u is found a second time where the search looks.
Again(u) == \E c \in ChunkStarts : \E a \in Searched(c) \ {u} : Matches(a, u)

MaskInv ==
    /\ TypeInv /\ SigInv
    /\ call \in {"idle", "collect"} => States = {}
    /\ call # "idle" => answer.kind = "none"
    /\ call \in {"grow", "check"} => States = InverseMap(answer.of)
    /\ call = "check" => todo \subseteq ChunkStarts
    /\ \A u \in States : \E p \in 0..SigLen : Prefix(u, p, mask[u], pos[u])
    /\ \A u \in dups : Again(u)
    /\ call = "grow" => \A u \in States : pos[u] = 0 \/ u \in dups
    /\ EmptyMeansNone

LEMMA InstrSpan ==
  ASSUME mem \in Codes, NEW a \in Int
  PROVE  /\ Moving(InstrAt(a)) \subseteq 0 .. InstrAt(a).len - 1
         /\ InstrAt(a).len \in 1..SigLen /\ SigLen \in Nat \ {0}
         /\ NextInstr(a) = a + InstrAt(a).len
<1>1. InstrAt(a).len \in Nat \ {0}
  BY InstrFacts
<1>2. /\ Moving(InstrAt(a)) \subseteq 0 .. InstrAt(a).len - 1
      /\ InstrAt(a).len <= SigLen
  BY ShownIsByte, SigmakerAssumption DEF InstrAt, Moving
<1> QED
  BY <1>1, <1>2, SigmakerAssumption DEF NextInstr

\* The instructions of a linear sweep do not overlap.
LEMMA LinearOrdered ==
  ASSUME mem \in Codes, NEW a \in Int, NEW last \in Int,
         NEW x \in Linear(a, last), NEW y \in Linear(a, last), x < y
  PROVE  NextInstr(x) <= y
<1> DEFINE L == Linear(a, last)
           S == {p \in L : \A z \in L : z < p => NextInstr(z) <= p}
<1>1. /\ L \subseteq a .. last /\ a \in L
      /\ \A z \in L : NextInstr(z) <= last => NextInstr(z) \in L
      /\ \A z \in L : z \in Int /\ NextInstr(z) \in Int /\ NextInstr(z) > z
  <2>1. L \subseteq a .. last /\ x \in a .. last
    BY LinearFacts
  <2>2. a \in L /\ \A z \in L : NextInstr(z) <= last => NextInstr(z) \in L
    BY <2>1, LinearFacts
  <2>3. \A z \in L : z \in Int
    BY <2>1
  <2> QED
    BY <2>1, <2>2, <2>3, InstrFacts
<1>2. a \in S
  BY <1>1
<1>3. ASSUME NEW p \in S, NextInstr(p) <= last
      PROVE  NextInstr(p) \in S
  <2>1. p \in L /\ NextInstr(p) \in L /\ \A z \in L : z < p => NextInstr(z) <= p
    BY <1>1, <1>3
  <2>2. \A z \in L : z <= p \/ z >= NextInstr(p)
    <3>1. \A z \in L : z < p => NextInstr(z) <= p \/ NextInstr(z) > last
      BY <2>1
    <3> QED
      BY <2>1, <3>1, NothingBetween
  <2>3. ASSUME NEW z \in L, z < NextInstr(p)
        PROVE  NextInstr(z) <= NextInstr(p)
    <3>1. z = p \/ z < p
      BY <1>1, <2>1, <2>2, <2>3
    <3> QED
      BY <1>1, <2>1, <2>3, <3>1
  <2> QED
    BY <2>1, <2>3
<1>4. S \in SUBSET (a .. last)
  BY <1>1
<1>5. L \subseteq S
  <2> HIDE DEF S
  <2> QED
    BY <1>2, <1>3, <1>4, LinearLeast
<1> QED
  BY <1>5

LEMMA DecodedFacts ==
  ASSUME mem \in Codes, NEW u \in Int
  PROVE  /\ u \in Decoded(u)
         /\ \A y \in Decoded(u) : /\ y \in Int /\ u <= y /\ y < u + SigLen
                                  /\ NextInstr(y) \in Int /\ NextInstr(y) > y
                                  /\ NextInstr(y) < u + SigLen =>
                                        NextInstr(y) \in Decoded(u)
         /\ \A x, y \in Decoded(u) : x < y => NextInstr(x) <= y
<1> DEFINE last == u + SigLen - 1
<1>1. SigLen \in Nat \ {0} /\ last \in Int /\ u <= last
      /\ \A i \in Int : i <= last <=> i < u + SigLen
  BY SigmakerAssumption
<1>2. Decoded(u) = Linear(u, last)
  BY DEF Decoded
<1> HIDE DEF last
<1>3. /\ Linear(u, last) \subseteq u .. last /\ u \in Linear(u, last)
      /\ \A y \in Linear(u, last) :
            NextInstr(y) <= last => NextInstr(y) \in Linear(u, last)
  BY <1>1, LinearFacts
<1>4. \A x, y \in Linear(u, last) : x < y => NextInstr(x) <= y
  BY <1>1, LinearOrdered
<1>5. \A y \in Linear(u, last) : /\ y \in Int /\ u <= y /\ y <= last
                                 /\ NextInstr(y) \in Int /\ NextInstr(y) > y
  BY <1>1, <1>3, InstrFacts
<1> QED
  BY <1>1, <1>2, <1>3, <1>4, <1>5

\* A byte of an instruction is masked by that instruction or not at all.
LEMMA MaskedWithin ==
  ASSUME mem \in Codes, NEW u \in Int, NEW x \in Decoded(u), NEW i \in Int,
         x <= i, i < NextInstr(x)
  PROVE  Masked(u, i) <=> i - x \in Moving(InstrAt(x))
<1>1. ASSUME NEW b \in Decoded(u), i - b \in Moving(InstrAt(b))
      PROVE  b = x
  <2>1. /\ b \in Int /\ x \in Int
        /\ NextInstr(b) \in Int /\ NextInstr(x) \in Int
        /\ x < b => NextInstr(x) <= b
        /\ b < x => NextInstr(b) <= x
    BY DecodedFacts
  <2>2. i - b \in 0 .. InstrAt(b).len - 1 /\ NextInstr(b) = b + InstrAt(b).len
        /\ InstrAt(b).len \in Int
    BY <1>1, <2>1, InstrSpan
  <2> QED
    BY <2>1, <2>2
<1> QED
  BY <1>1 DEF Masked

\* A round of Grow keeps the masks sound: an instruction that is rejected
\* leaves a mask behind that may be longer, but is sound before it.
LEMMA GrowPrefix ==
  ASSUME mem \in Codes, Marks, NEW u \in States, GrowsTo(u),
         NEW p \in 0..SigLen, Prefix(u, p, mask[u], pos[u])
  PROVE  \E q \in 0..SigLen : Prefix(u, q, mask'[u], pos'[u])
<1> DEFINE n == InstrAt(u + p).len
           x == u + p
<1>1. /\ u \in Int /\ Len(mask[u]) \in Nat /\ Len(mask'[u]) \in Nat
      /\ Len(mask[u]) <= Len(mask'[u]) /\ pos[u] \in 0..SigLen
      /\ pos'[u] \in 0..SigLen /\ Len(mask[u]) <= pos[u]
      /\ \A k \in 1..Len(mask[u]) : mask'[u][k] = mask[u][k]
      /\ SigLen \in Nat \ {0}
  BY GrowFacts, SigmakerAssumption DEF GrowsTo, Marks
<1>2. /\ p <= Len(mask[u]) /\ (p < SigLen => u + p \in Decoded(u))
      /\ \A y \in Decoded(u) : y < u + p => NextInstr(y) <= u + p
      /\ \A k \in 1..p : ~mask[u][k] <=> Masked(u, u + k - 1)
      /\ (p = pos[u] /\ p = Len(mask[u])) \/ Rejected(u, p)
  BY DEF Prefix
<1>3. ASSUME NEW k \in 1..p
      PROVE  ~mask'[u][k] <=> Masked(u, u + k - 1)
  <2>1. k \in 1..Len(mask[u])
    BY <1>1, <1>2
  <2> QED
    BY <1>1, <1>2, <2>1
<1>4. CASE Rejected(u, p)
  <2>1. p <= Len(mask'[u])
    BY <1>1, <1>2
  <2> QED
    BY <1>2, <1>3, <1>4, <2>1 DEF Prefix
<1>5. CASE p = pos[u] /\ p = Len(mask[u]) /\ ~Adds(u)
  <2>1. /\ mask'[u] = mask[u] /\ (p = SigLen => pos'[u] = p)
        /\ p = SigLen \/ ~InstrAt(u + p).valid \/ p + InstrAt(u + p).len > SigLen
    BY <1>5, GrowFacts
  <2>2. CASE p = SigLen
    BY <1>2, <1>3, <1>5, <2>1, <2>2 DEF Prefix
  <2>3. CASE p # SigLen
    <3>1. NextInstr(u + p) = u + p + InstrAt(u + p).len /\ InstrAt(u + p).len \in Nat
      BY <1>1, InstrSpan
    <3>2. Rejected(u, p)
      BY <1>1, <2>1, <2>3, <3>1 DEF Rejected
    <3> QED
      BY <1>4, <3>2
  <2> QED
    BY <2>2, <2>3
<1>6. CASE p = pos[u] /\ p = Len(mask[u]) /\ Adds(u)
  <2> DEFINE q == p + n
  <2>1. /\ InstrAt(x).valid /\ p < SigLen /\ pos'[u] = q /\ Len(mask'[u]) = q
        /\ \A k \in 1..n : mask'[u][p + k] <=> k - 1 \notin Moving(InstrAt(x))
    BY <1>6, GrowFacts
  <2>2. x \in Decoded(u) /\ x \in Int /\ n \in 1..SigLen /\ NextInstr(x) = x + n
    BY <1>1, <1>2, <2>1, InstrSpan
  <2>3. /\ q \in 0..SigLen /\ q \in Int /\ x = u + p /\ NextInstr(x) = u + q
        /\ q = p + n /\ p \in Int
    BY <1>1, <2>1, <2>2
  <2> HIDE DEF n, x, q
  <2>4. q < SigLen => u + q \in Decoded(u)
    BY <1>1, <2>2, <2>3, DecodedFacts
  <2>5. ASSUME NEW y \in Decoded(u), y < u + q
        PROVE  NextInstr(y) <= u + q
    <3>1. /\ y \in Int /\ NextInstr(y) \in Int
          /\ x < y => NextInstr(x) <= y
      BY <1>1, <2>2, DecodedFacts
    <3>2. y < x => NextInstr(y) <= x
      BY <1>2, <2>3
    <3> QED
      BY <1>1, <2>2, <2>3, <2>5, <3>1, <3>2, SMTT(40)
  <2>6. ASSUME NEW k \in 1..q
        PROVE  ~mask'[u][k] <=> Masked(u, u + k - 1)
    <3>1. CASE k <= p
      BY <1>3, <2>3, <3>1
    <3>2. CASE k > p
      <4> DEFINE j == k - p
                 i == u + k - 1
      <4>1. /\ j \in 1..n /\ k = p + j /\ i \in Int /\ x <= i /\ i < NextInstr(x)
            /\ i - x = j - 1
        BY <1>1, <2>2, <2>3, <3>2
      <4> HIDE DEF i, j
      <4>2. ~mask'[u][k] <=> j - 1 \in Moving(InstrAt(x))
        BY <2>1, <4>1
      <4>3. Masked(u, i) <=> i - x \in Moving(InstrAt(x))
        BY <1>1, <2>2, <4>1, MaskedWithin
      <4>4. i - x = j - 1
        BY <4>1
      <4>5. ~mask'[u][k] <=> Masked(u, i)
        BY <4>2, <4>3, <4>4, Zenon
      <4> QED
        BY <4>5 DEF i
    <3> QED
      BY <1>1, <2>3, <3>1, <3>2
  <2> QED
    BY <2>1, <2>3, <2>4, <2>5, <2>6 DEF Prefix
<1> QED
  BY <1>2, <1>4, <1>5, <1>6

LEMMA CodeSame ==
  ASSUME UNCHANGED target
  PROVE  /\ \A a : /\ Shown(a)' = Shown(a) /\ InstrAt(a)' = InstrAt(a)
                   /\ NextInstr(a)' = NextInstr(a)
         /\ \A u : /\ Decoded(u)' = Decoded(u) /\ Whole(u)' = Whole(u)
         /\ \A u, p, m, o : Prefix(u, p, m, o)' <=> Prefix(u, p, m, o)
<1>1. \A a : /\ Shown(a)' = Shown(a) /\ InstrAt(a)' = InstrAt(a)
             /\ NextInstr(a)' = NextInstr(a)
  BY DEF target, NextInstr, InstrAt, Shown, Present
<1>2. ASSUME NEW u
      PROVE  Decoded(u)' = Decoded(u) /\ Whole(u)' = Whole(u)
  <2>1. Decoded(u)' = Decoded(u)
    BY <1>1 DEF Decoded, Linear
  <2> QED
    BY <1>1, <2>1 DEF Whole
<1>3. ASSUME NEW u, NEW p, NEW m, NEW o
      PROVE  Prefix(u, p, m, o)' <=> Prefix(u, p, m, o)
  <2>1. \A i : Masked(u, i)' <=> Masked(u, i)
    BY <1>1, <1>2 DEF Masked
  <2>2. Rejected(u, p)' <=> Rejected(u, p)
    BY <1>1 DEF Rejected
  <2> QED
    BY <1>1, <1>2, <2>1, <2>2 DEF Prefix
<1> QED
  BY <1>1, <1>2, <1>3

\* Where a mask that has taken all whole instructions matches, they stand.
LEMMA WholeMatches ==
  ASSUME mem \in Codes, NEW u \in Int, NEW a \in Int, NEW p \in 0..SigLen, NEW m,
         NEW o, Len(m) \in Nat, Prefix(u, p, m, o),
         p = SigLen \/ NextInstr(u + p) > u + SigLen,
         \A k \in 1..Len(m) : m[k] => Shown(a + k - 1) = Shown(u + k - 1),
         NEW b \in Whole(u), NEW k \in 0 .. InstrAt(b).len - 1,
         k \notin Moving(InstrAt(b))
  PROVE  Shown(a + (b - u) + k) = Shown(b + k)
<1>1. /\ b \in Decoded(u) /\ b \in Int /\ u <= b /\ b < u + SigLen
      /\ NextInstr(b) \in Int /\ NextInstr(b) <= u + SigLen
      /\ NextInstr(b) = b + InstrAt(b).len /\ InstrAt(b).len \in 1..SigLen
      /\ SigLen \in Nat
  BY DecodedFacts, InstrSpan DEF Whole
<1>2. b < u + p
  <2>1. ASSUME u + p <= b
        PROVE  FALSE
    <3>0. p < SigLen /\ p # SigLen
      BY <1>1, <2>1
    <3>1. p < SigLen /\ u + p \in Decoded(u) /\ NextInstr(u + p) > u + SigLen
      BY <3>0 DEF Prefix
    <3>2. /\ NextInstr(u + p) \in Int
          /\ u + p < b => NextInstr(u + p) <= b
      BY <1>1, <3>1, DecodedFacts
    <3> DEFINE n == NextInstr(u + p)
               e == NextInstr(b)
    <3>3. u + p = b => n = e
      OBVIOUS
    <3>4. n \in Int /\ n > u + SigLen /\ e <= u + SigLen /\ e \in Int /\ b < e
      <4>1. b < e
        BY <1>1
      <4> QED
        BY <1>1, <3>1, <3>2, <4>1
    <3>5. u + p < b => n <= b
      BY <3>2
    <3>6. /\ u \in Int /\ p \in Int /\ b \in Int /\ SigLen \in Int
          /\ b < u + SigLen
      BY <1>1
    <3> HIDE DEF n, e
    <3> QED
      BY <2>1, <3>3, <3>4, <3>5, <3>6
  <2> QED
    BY <1>1, <2>1
<1>3. NextInstr(b) <= u + p
  BY <1>1, <1>2 DEF Prefix
<1> DEFINE i == b + k
           j == (b - u) + k + 1
<1>4. /\ j \in 1..p /\ j \in 1..Len(m) /\ i \in Int /\ b <= i /\ i < NextInstr(b)
      /\ i - b = k /\ u + j - 1 = i /\ a + j - 1 = a + (b - u) + k
  <2>1. p <= Len(m)
    BY DEF Prefix
  <2> QED
    BY <1>1, <1>3, <2>1, SMTT(40)
<1> HIDE DEF i, j
<1>5. ~Masked(u, i)
  BY <1>1, <1>4, MaskedWithin
<1>6. ~m[j] <=> Masked(u, u + j - 1)
  BY <1>4 DEF Prefix
<1>7. m[j]
  BY <1>4, <1>5, <1>6
<1> QED
  BY <1>4, <1>7 DEF i

LEMMA StateIsInt ==
  ASSUME Marks, NEW u \in States
  PROVE  u \in Int /\ mask[u] \in Seq(BOOLEAN) /\ Len(mask[u]) \in Nat
<1>1. \A s \in Text : s.base \in Nat /\ s.size \in Nat
  BY SectionFacts
<1> QED
  BY <1>1 DEF Marks, TextBytes, Window

\* The search may give up: every state has been found a second time with all
\* the whole instructions of its code, or it has met an invalid one.
LEMMA GivesUp ==
  ASSUME MaskInv, call = "grow", NEW u \in States, ~Adds(u),
         \A b \in Decoded(u) : InstrAt(b).valid
  PROVE  \E a \in (UNION {Searched(c) : c \in ChunkStarts}) \ {u} :
            \A b \in Whole(u) : \A k \in 0 .. InstrAt(b).len - 1 :
                k \notin Moving(InstrAt(b)) => Shown(a + (b - u) + k) = Shown(b + k)
<1>1. /\ mem \in Codes /\ Marks /\ ranges \subseteq Text
  BY DEF MaskInv, TypeInv, SigInv
<1>2. /\ u \in Int /\ mask[u] \in Seq(BOOLEAN) /\ Len(mask[u]) \in Nat
      /\ SigLen \in Nat \ {0} /\ pos[u] \in 0..SigLen
  BY <1>1, StateIsInt, SigmakerAssumption DEF Marks
<1>3. ~Adds(u) => \/ pos[u] = SigLen \/ ~InstrAt(u + pos[u]).valid
                  \/ NextInstr(u + pos[u]) > u + SigLen
  <2>1. NextInstr(u + pos[u]) = u + pos[u] + InstrAt(u + pos[u]).len
        /\ InstrAt(u + pos[u]).len \in Nat
    BY <1>1, <1>2, InstrSpan
  <2> QED
    BY <1>2, <2>1 DEF Adds, InstrHere, Left
<1>4. PICK p \in 0..SigLen : Prefix(u, p, mask[u], pos[u])
  BY DEF MaskInv
<1>5. u \in dups
  <2>1. ASSUME pos[u] = 0
        PROVE  FALSE
    <3>1. /\ u + 0 = u /\ u \in Decoded(u) /\ InstrAt(u).valid
          /\ NextInstr(u) = u + InstrAt(u).len /\ InstrAt(u).len \in 1..SigLen
      BY <1>1, <1>2, DecodedFacts, InstrSpan
    <3> QED
      BY <1>2, <1>3, <2>1, <3>1
  <2> QED
    BY <2>1 DEF MaskInv
<1>6. PICK c \in ChunkStarts : \E a \in Searched(c) \ {u} : Matches(a, u)
  BY <1>5 DEF MaskInv, Again
<1>7. PICK a \in Searched(c) \ {u} : Matches(a, u)
  BY <1>6
<1>8. a \in Int
  <2>1. PICK r \in ranges : c \in Window(r.base, r.size)
    BY DEF ChunkStarts
  <2>2. c \in Int
    BY <1>1, <2>1, SectionFacts DEF Window
  <2> QED
    BY <2>2, SigmakerAssumption DEF Searched
<1>9. p = SigLen \/ NextInstr(u + p) > u + SigLen
  <2>1. CASE Rejected(u, p)
    <3>1. u + p \in Decoded(u)
      BY <1>4, <2>1 DEF Rejected, Prefix
    <3> QED
      BY <2>1, <3>1 DEF Rejected
  <2>2. CASE p = pos[u] /\ p # SigLen
    <3>1. u + p \in Decoded(u)
      BY <1>2, <1>4, <2>2 DEF Prefix
    <3> QED
      BY <1>3, <2>2, <3>1
  <2> QED
    BY <1>4, <2>1, <2>2 DEF Prefix
<1>10. \A b \in Whole(u) : \A k \in 0 .. InstrAt(b).len - 1 :
          k \notin Moving(InstrAt(b)) => Shown(a + (b - u) + k) = Shown(b + k)
  <2>1. \A k \in 1..Len(mask[u]) : mask[u][k] => Shown(a + k - 1) = Shown(u + k - 1)
    BY <1>7 DEF Matches
  <2>2. PICK m : m = mask[u]
    OBVIOUS
  <2>3. PICK o : o = pos[u]
    OBVIOUS
  <2>4. /\ Prefix(u, p, m, o) /\ Len(m) \in Nat
        /\ \A k \in 1..Len(m) : m[k] => Shown(a + k - 1) = Shown(u + k - 1)
    BY <1>2, <1>4, <2>1, <2>2, <2>3
  <2> QED
    BY <1>1, <1>2, <1>8, <1>9, <2>4, WholeMatches
<1> QED
  BY <1>6, <1>7, <1>10

\* What is said of a mask stays true while neither it nor the target changes.
LEMMA MasksSame ==
  ASSUME MaskInv, UNCHANGED <<target, mask, pos, ranges>>
  PROVE  /\ \A u \in States' : \E p \in 0..SigLen : Prefix(u, p, mask[u], pos[u])'
         /\ ChunkStarts' = ChunkStarts
         /\ \A u : Again(u)' <=> Again(u)
<1>1. \A a, u : Matches(a, u)' <=> Matches(a, u)
  BY CodeSame DEF Matches
<1>2. ChunkStarts' = ChunkStarts
  BY DEF ChunkStarts
<1>3. \A u : Again(u)' <=> Again(u)
  BY <1>1, <1>2 DEF Again, Searched
<1>4. ASSUME NEW u \in States'
      PROVE  \E p \in 0..SigLen : Prefix(u, p, mask[u], pos[u])'
  <2>1. u \in States
    BY DEF States
  <2>2. PICK p \in 0..SigLen : Prefix(u, p, mask[u], pos[u])
    BY <2>1 DEF MaskInv
  <2>3. PICK m : m = mask[u]
    OBVIOUS
  <2>4. PICK o : o = pos[u]
    OBVIOUS
  <2>5. Prefix(u, p, m, o)'
    BY <2>2, <2>3, <2>4, CodeSame
  <2> QED
    BY <2>3, <2>4, <2>5
<1> QED
  BY <1>2, <1>3, <1>4

LEMMA NoneSame ==
  ASSUME EmptyMeansNone, UNCHANGED <<target, map, ranges, answer>>
  PROVE  EmptyMeansNone'
<1>1. ChunkStarts' = ChunkStarts /\ \A g : InverseMap(g)' = InverseMap(g)
  BY DEF ChunkStarts, InverseMap
<1>2. \A c : Searched(c)' = Searched(c)
  BY DEF Searched
<1> QED
  BY <1>1, <1>2, CodeSame DEF EmptyMeansNone

\* The steps of the other calls, and those of the target.
LEMMA IdleKeepsMasks ==
  ASSUME MaskInv, States' = {}, dups' = {}, call' \in {"idle", "collect"},
         call' # "idle" => answer'.kind = "none", EmptyMeansNone',
         TypeInv' /\ SigInv'
  PROVE  MaskInv'
BY DEF MaskInv

LEMMA FindSigsMasks ==
  ASSUME MaskInv, NEW g \in Asked, FindSigs(g), TypeInv' /\ SigInv'
  PROVE  MaskInv'
<1>1. /\ call' = "grow" /\ answer'.kind = "none" /\ answer'.of = g
      /\ mask' = [u \in InverseMap(g) |-> << >>]
      /\ pos' = [u \in InverseMap(g) |-> 0] /\ dups' = {}
      /\ UNCHANGED target /\ map' = map /\ mem \in Codes
  BY DEF FindSigs, Answer, disasm, MaskInv, SigInv
<1>2. InverseMap(g)' = InverseMap(g) /\ States' = InverseMap(g)
  BY <1>1 DEF InverseMap, States
<1>3. InverseMap(answer.of)' = States'
  BY <1>1, <1>2 DEF InverseMap
<1>4. ASSUME NEW u \in States'
      PROVE  Prefix(u, 0, mask[u], pos[u])'
  <2>1. u \in Int
    <3>1. u \in TextBytes
      BY <1>2 DEF InverseMap, MaskInv, TypeInv
    <3>2. \A s \in Text : s.base \in Nat /\ s.size \in Nat
      BY SectionFacts
    <3> QED
      BY <3>1, <3>2 DEF TextBytes, Window
  <2>2. u + 0 = u /\ u \in Decoded(u) /\ \A y \in Decoded(u) : ~(y < u)
    BY <1>1, <2>1, DecodedFacts
  <2>3. PICK m : m = mask'[u]
    OBVIOUS
  <2>4. PICK o : o = pos'[u]
    OBVIOUS
  <2>5. m = << >> /\ o = 0
    BY <1>1, <1>2, <2>3, <2>4
  <2>6. Prefix(u, 0, m, o)
    BY <2>2, <2>5 DEF Prefix
  <2>7. Prefix(u, 0, m, o)'
    BY <1>1, <2>6, CodeSame
  <2> QED
    BY <2>3, <2>4, <2>7
<1>5. 0 \in 0..SigLen
  BY SigmakerAssumption
<1>6. \A u \in States' : pos'[u] = 0
  BY <1>1, <1>2
<1>7. EmptyMeansNone'
  BY <1>1 DEF EmptyMeansNone
<1>8. \A u \in States' : (\E p \in 0..SigLen : Prefix(u, p, mask[u], pos[u]))'
  BY <1>4, <1>5
<1> QED
  BY <1>1, <1>3, <1>6, <1>7, <1>8 DEF MaskInv

LEMMA GrowMasks ==
  ASSUME MaskInv, Grow, TypeInv' /\ SigInv'
  PROVE  MaskInv'
<1>1. /\ call = "grow" /\ UNCHANGED target /\ map' = map /\ ranges' = ranges
      /\ mem \in Codes /\ Marks /\ answer.kind = "none"
      /\ States = InverseMap(answer.of)
  BY DEF Grow, disasm, MaskInv, TypeInv, SigInv
<1>2. CASE /\ call' = "check" /\ dups' = {} /\ UNCHANGED <<answer, ranges>>
           /\ todo' = ChunkStarts /\ \E u \in States : Adds(u)
           /\ DOMAIN mask' = States /\ DOMAIN pos' = States
           /\ \A u \in States : GrowsTo(u)
  <2>1. /\ States' = States /\ ChunkStarts' = ChunkStarts
        /\ InverseMap(answer.of)' = InverseMap(answer.of)
    BY <1>1, <1>2 DEF States, ChunkStarts, InverseMap
  <2>2. ASSUME NEW u \in States
        PROVE  \E q \in 0..SigLen : Prefix(u, q, mask[u], pos[u])'
    <3>1. PICK p \in 0..SigLen : Prefix(u, p, mask[u], pos[u])
      BY DEF MaskInv
    <3>2. PICK q \in 0..SigLen : Prefix(u, q, mask'[u], pos'[u])
      BY <1>1, <1>2, <3>1, GrowPrefix
    <3>3. PICK m : m = mask'[u]
      OBVIOUS
    <3>4. PICK o : o = pos'[u]
      OBVIOUS
    <3>5. Prefix(u, q, m, o)'
      BY <1>1, <3>2, <3>3, <3>4, CodeSame
    <3> QED
      BY <3>3, <3>4, <3>5
  <2>3. EmptyMeansNone'
    BY <1>1, <1>2 DEF EmptyMeansNone
  <2> QED
    BY <1>1, <1>2, <2>1, <2>2, <2>3 DEF MaskInv
<1>3. CASE /\ call' = "idle" /\ Answer("ok", answer.of, {}) /\ Ended
           /\ UNCHANGED ranges /\ ~\E u \in States : Adds(u)
  <2>1. answer'.of = answer.of
    BY <1>3 DEF Answer
  <2>2. ChunkStarts' = ChunkStarts /\ \A c : Searched(c)' = Searched(c)
    BY <1>3 DEF ChunkStarts, Searched
  <2>3. InverseMap(answer.of)' = States
    BY <1>1, <2>1 DEF InverseMap
  <2>4. ASSUME NEW u \in States, \A b \in Decoded(u) : InstrAt(b).valid
        PROVE  \E a \in (UNION {Searched(c) : c \in ChunkStarts}) \ {u} :
                  \A b \in Whole(u) : \A k \in 0 .. InstrAt(b).len - 1 :
                      k \notin Moving(InstrAt(b)) =>
                          Shown(a + (b - u) + k) = Shown(b + k)
    BY <1>1, <1>3, <2>4, GivesUp
  <2>5. EmptyMeansNone'
    BY <1>1, <2>2, <2>3, <2>4, CodeSame DEF EmptyMeansNone
  <2>6. States' = {} /\ dups' = {}
    BY <1>3, MarksEnd DEF Ended
  <2> QED
    BY <1>3, <2>5, <2>6, IdleKeepsMasks
<1> QED
  BY <1>2, <1>3, GrowCases

LEMMA CheckMasks ==
  ASSUME MaskInv, CheckChunk \/ CheckEnd, TypeInv' /\ SigInv'
  PROVE  MaskInv'
<1>1. /\ call = "check" /\ UNCHANGED <<target, map, ranges>>
      /\ answer.kind = "none" /\ States = InverseMap(answer.of)
      /\ todo \subseteq ChunkStarts
  BY DEF CheckChunk, CheckEnd, disasm, MaskInv
<1>2. CASE CheckChunk /\ call' # "idle"
  <2>1. PICK c \in todo :
          /\ dups' = dups \cup {u \in States : \E a \in Searched(c) \ {u} : Matches(a, u)}
          /\ todo' = todo \ {c} /\ UNCHANGED <<call, answer, mask, pos>>
    BY <1>2 DEF CheckChunk
  <2>2. /\ \A u \in States' : \E p \in 0..SigLen : Prefix(u, p, mask[u], pos[u])'
        /\ ChunkStarts' = ChunkStarts
        /\ \A u : Again(u)' <=> Again(u)
    BY <1>1, <2>1, MasksSame
  <2>3. ASSUME NEW u \in dups'
        PROVE  Again(u)'
    <3>1. Again(u)
      BY <1>1, <2>1 DEF MaskInv, Again
    <3> QED
      BY <2>2, <3>1
  <2>4. States' = States /\ InverseMap(answer.of)' = InverseMap(answer.of)
    BY <1>1, <2>1 DEF States, InverseMap
  <2>5. EmptyMeansNone'
    BY <1>1, <2>1, NoneSame DEF MaskInv
  <2> QED
    BY <1>1, <2>1, <2>2, <2>3, <2>4, <2>5 DEF MaskInv
<1>3. CASE CheckEnd /\ call' # "idle"
  <2>1. States \subseteq dups /\ call' = "grow" /\ UNCHANGED <<answer, mask, pos, todo, dups>>
    BY <1>3 DEF CheckEnd, sigmaker
  <2>2. /\ \A u \in States' : \E p \in 0..SigLen : Prefix(u, p, mask[u], pos[u])'
        /\ \A u : Again(u)' <=> Again(u)
    BY <1>1, <2>1, MasksSame
  <2>3. States' = States /\ InverseMap(answer.of)' = InverseMap(answer.of)
    BY <1>1, <2>1 DEF States, InverseMap
  <2>4. EmptyMeansNone'
    BY <1>1, <2>1, NoneSame DEF MaskInv
  <2> QED
    BY <1>1, <2>1, <2>2, <2>3, <2>4 DEF MaskInv
<1>4. CASE call' = "idle"
  <2>1. /\ Ended
        /\ \/ answer'.kind = "failed"
           \/ /\ ~(States \subseteq dups)
              /\ answer'.sigs = {[at |-> u, bytes |-> SigOf(u)] : u \in States \ dups}
    BY <1>1, <1>4 DEF CheckChunk, CheckEnd, Answer
  <2>2. answer'.kind = "failed" \/ answer'.sigs # {}
    BY <2>1
  <2>3. EmptyMeansNone'
    BY <2>2 DEF EmptyMeansNone
  <2>4. States' = {} /\ dups' = {}
    BY <2>1, MarksEnd DEF Ended
  <2> QED
    BY <1>4, <2>3, <2>4, IdleKeepsMasks
<1> QED
  BY <1>2, <1>3, <1>4

LEMMA InitMasks == Init => MaskInv
<1> SUFFICES ASSUME Init PROVE MaskInv
  OBVIOUS
<1>1. TypeInv /\ SigInv
  BY InitTypes, InitSig
<1>2. States = {} /\ dups = {} /\ call = "idle" /\ answer.kind = "none"
  BY DEF Init, DisasmInit, States, NoAnswer
<1> QED
  BY <1>1, <1>2 DEF MaskInv, EmptyMeansNone

LEMMA StepMasks == MaskInv /\ [Next]_vars => MaskInv'
<1> SUFFICES ASSUME MaskInv, [Next]_vars
             PROVE  MaskInv'
  OBVIOUS
<1>0. TypeInv' /\ SigInv' /\ TypeInv
  BY StepTypes, StepSig DEF MaskInv
<1>1. CASE Collecting /\ UNCHANGED <<search, answer, writes>>
  <2>1. /\ call = "collect" /\ call' \in {"idle", "collect"}
        /\ UNCHANGED <<mask, pos, dups, answer>>
    BY <1>1 DEF Collecting, ReadChunk, Decode, Publish, search, sigmaker
  <2>2. States' = {} /\ dups' = {} /\ answer'.kind = "none"
    BY <2>1 DEF MaskInv, TypeInv, Marks, States
  <2> QED
    BY <1>0, <2>1, <2>2, IdleKeepsMasks DEF EmptyMeansNone
<1>2. CASE (\E name \in Names : Collect(name)) \/ TargetMoves
  <2>1. /\ call = "idle" /\ call' \in {"idle", "collect"}
        /\ UNCHANGED <<mask, pos, dups>> /\ answer' = NoAnswer
    BY <1>2 DEF Collect, CollectGlobals, TargetMoves, search, sigmaker
  <2>2. States' = {} /\ dups' = {} /\ answer'.kind = "none"
    BY <2>1 DEF MaskInv, TypeInv, Marks, States, NoAnswer
  <2> QED
    BY <1>0, <2>1, <2>2, IdleKeepsMasks DEF EmptyMeansNone
<1>3. CASE \E g \in Asked : FindSigsRefused(g)
  <2>1. /\ call = "idle" /\ call' = "idle" /\ UNCHANGED <<mask, pos, dups>>
        /\ answer'.kind # "ok"
    BY <1>3 DEF FindSigsRefused, search, sigmaker, Answer
  <2>2. States' = {} /\ dups' = {}
    BY <2>1 DEF MaskInv, TypeInv, Marks, States
  <2> QED
    BY <1>0, <2>1, <2>2, IdleKeepsMasks DEF EmptyMeansNone
<1>4. CASE \E g \in Asked : FindSigs(g)
  BY <1>0, <1>4, FindSigsMasks
<1>5. CASE Grow
  BY <1>0, <1>5, GrowMasks
<1>6. CASE CheckChunk \/ CheckEnd
  BY <1>0, <1>6, CheckMasks
<1>7. CASE UNCHANGED vars
  <2>1. UNCHANGED <<target, map, call, mask, pos, todo, dups, ranges, answer>>
    BY <1>7 DEF vars, disasm, search, sigmaker
  <2>2. /\ \A u \in States' : \E p \in 0..SigLen : Prefix(u, p, mask[u], pos[u])'
        /\ ChunkStarts' = ChunkStarts
        /\ \A u : Again(u)' <=> Again(u)
    BY <2>1, MasksSame
  <2>3. States' = States /\ InverseMap(answer.of)' = InverseMap(answer.of)
    BY <2>1 DEF States, InverseMap
  <2>4. EmptyMeansNone'
    BY <2>1, NoneSame DEF MaskInv
  <2> QED
    BY <1>0, <2>1, <2>2, <2>3, <2>4 DEF MaskInv
<1> QED
  BY <1>1, <1>2, <1>3, <1>4, <1>5, <1>6, <1>7 DEF Next, Start, Step

LEMMA MasksAreInvariant == Spec => []MaskInv
BY InitMasks, StepMasks, PTL DEF Spec

\* The wildcards of a mask are the displacements of operands without a general
\* register and the targets of branches that are not short, and no others, up
\* to the first instruction the decoder rejects, for every decoder, program and
\* number of rounds (sigmaker.rs:29-32, 38-87).
THEOREM WildcardsAreTheOperands == Spec => []WildcardsAreOperands
<1>1. MaskInv => WildcardsAreOperands
  <2> SUFFICES ASSUME MaskInv, NEW u \in States, NEW k \in 1..Len(mask[u]),
                      \A b \in Decoded(u) :
                         ~InstrAt(b).valid \/ NextInstr(b) > u + SigLen
                            => u + k - 1 < b
               PROVE  FitsCode(u, k, Decoded(u))
    BY DEF WildcardsAreOperands
  <2>1. PICK p \in 0..SigLen : Prefix(u, p, mask[u], pos[u])
    BY DEF MaskInv
  <2>2. /\ u \in Int /\ Len(mask[u]) \in Nat /\ mem \in Codes /\ k \in Int
        /\ SigLen \in Nat
    BY StateIsInt, SigmakerAssumption DEF MaskInv, TypeInv, SigInv
  <2>3. k \in 1..p
    <3>1. CASE p = Len(mask[u])
      BY <3>1
    <3>2. CASE Rejected(u, p)
      <4>1. /\ u + p \in Decoded(u)
            /\ ~InstrAt(u + p).valid \/ NextInstr(u + p) > u + SigLen
        BY <2>1, <3>2 DEF Prefix, Rejected
      <4>2. u + k - 1 < u + p
        BY <4>1
      <4> QED
        BY <2>2, <4>2
    <3> QED
      BY <2>1, <3>1, <3>2 DEF Prefix
  <2>4. ~mask[u][k] <=> Masked(u, u + k - 1)
    BY <2>1, <2>3 DEF Prefix
  <2>5. \A b \in Decoded(u) : (u + k - 1) - b = u + k - 1 - b
    <3>1. \A b \in Decoded(u) : b \in Int
      BY <2>2, DecodedFacts
    <3> QED
      BY <2>2, <3>1
  <2>6. (\E b \in Decoded(u) : (u + k - 1) - b \in Moving(InstrAt(b)))
          <=> \E b \in Decoded(u) : u + k - 1 - b \in Moving(InstrAt(b))
    BY <2>5
  <2> QED
    BY <2>4, <2>6, Zenon DEF Masked, FitsCode
<1> QED
  BY MasksAreInvariant, <1>1, PTL

\* An empty answer is not given up early: each instruction whose code decodes
\* to the end of the buffer is found a second time where the search looks,
\* with all the whole instructions that fit (sigmaker.rs:220-230).
THEOREM EmptyAnswersMeanNone == Spec => []EmptyMeansNone
<1>1. MaskInv => EmptyMeansNone
  BY DEF MaskInv
<1> QED
  BY MasksAreInvariant, <1>1, PTL

=============================================================================
