------------------------- MODULE PointerWalkProofs --------------------------
(***************************************************************************)
(* Every chain the walk reports leads to the match and keeps the bounds,   *)
(* for every pointer map, every set of entry points and all bounds.        *)
(*                                                                         *)
(* The invariant relates the stack of calls and the way: the call on level *)
(* i + 1 is for a pointer that holds the pointee of entry i of the way,    *)
(* and that entry leads to the address of the call on level i.             *)
(***************************************************************************)
EXTENDS PointerWalk, TLAPS

Link == Addr \X Int

Frames == [addr : Addr, keys : SUBSET Addr, open : BOOLEAN, left : SUBSET Addr]

Args ==
    /\ map \in [DOMAIN map -> Addr] /\ DOMAIN map \subseteq Addr
    /\ starts \subseteq Addr
    /\ reach \in Nat \X Nat /\ depth \in Nat /\ match \in Addr

Offsets == -reach[1] .. reach[2]

\* The entry of a way that belongs to a call for address a.
Leads(link, a) == link[1] + link[2] = a /\ link[2] \in Offsets

\* The calls that have not returned are those on the way, and perhaps one
\* that is not at a pointee.
Depth ==
    /\ \A i \in 1 .. Len(stack) - 1 : stack[i].open
    /\ Len(stack) = 0 => Len(tmp) = 0
    /\ Len(stack) > 0 => Len(tmp) = IF stack[Len(stack)].open THEN Len(stack)
                                                         ELSE Len(stack) - 1

Linked ==
    /\ Len(stack) > 0 => stack[1].addr = match
    /\ \A i \in 1..Len(tmp) : Leads(tmp[i], stack[i].addr)
    /\ \A i \in 1..Len(tmp) : i < Len(stack) =>
          /\ stack[i + 1].addr \in DOMAIN map
          /\ map[stack[i + 1].addr] = tmp[i][1]

Pending ==
    \A i \in 1..Len(stack) :
        /\ stack[i].keys \subseteq ReachOf(stack[i].addr)
        /\ stack[i].keys # {} => i < depth
        /\ i <= Len(tmp) =>
              /\ i < depth
              /\ \A v \in stack[i].left : v \in DOMAIN map /\ map[v] = tmp[i][1]

Good(c) ==
    /\ c \in Seq(Link) /\ c # <<>>
    /\ c[1][1] \in starts
    /\ Arrives(c, Len(c)) = match
    /\ \A i \in 1 .. Len(c) - 1 :
          Arrives(c, i) \in DOMAIN map /\ map[Arrives(c, i)] = c[i + 1][1]
    /\ Len(c) <= MaxLevel
    /\ \A i \in 1..Len(c) : c[i][2] \in Offsets

\* A way that leads from the pointer a to the match, the last link first.
GoodWay(way, a) ==
    /\ way \in Seq(Link) /\ Len(way) < MaxLevel
    /\ Len(way) = 0 => a = match
    /\ Len(way) > 0 => /\ a \in DOMAIN map /\ map[a] = way[Len(way)][1]
                     /\ Arrives(way, 1) = match
    /\ \A i \in 1 .. Len(way) - 1 :
          /\ Arrives(way, i + 1) \in DOMAIN map
          /\ map[Arrives(way, i + 1)] = way[i][1]
    /\ \A i \in 1..Len(way) : way[i][2] \in Offsets

WalkInv ==
    /\ Args
    /\ stack \in Seq(Frames) /\ tmp \in Seq(Link)
    /\ Depth /\ Linked /\ Pending
    /\ out \in Seq(Seq(Link))
    /\ \A n \in 1..Len(out) : Good(out[n])

-----------------------------------------------------------------------------
(***************************************************************************)
(* Lemmas about the operators.                                             *)
(***************************************************************************)
\* What is in reach of an address differs from it by an offset in bounds.
LEMMA ReachBounds ==
  ASSUME Args, NEW a \in Addr, NEW e \in ReachOf(a)
  PROVE  e \in Addr /\ a - e \in Offsets
BY PointerWalkAssumption DEF Args, ReachOf, Addr, Offsets

\* A frame is one, and has no pointee when the level is the last.
LEMMA FrameType ==
  ASSUME Args, NEW a \in Addr, NEW level \in Nat
  PROVE  /\ Frame(a, level) \in Frames
         /\ Frame(a, level).addr = a
         /\ Frame(a, level).keys \subseteq ReachOf(a)
         /\ Frame(a, level).keys # {} => level < depth
         /\ ~Frame(a, level).open /\ Frame(a, level).left = {}
<1>1. ReachOf(a) \subseteq Addr
  BY ReachBounds
<1> QED
  BY <1>1 DEF Frame, Frames

\* The links of a way in the opposite order.
LEMMA ReverseWay ==
  ASSUME NEW way \in Seq(Link), NEW l \in Link
  PROVE  LET c == Reverse(Append(way, l))
         IN  /\ c \in Seq(Link) /\ Len(c) = Len(way) + 1
             /\ c[1] = l
             /\ \A i \in 2..Len(c) : c[i] = way[Len(way) + 2 - i]
BY DEF Reverse

\* A chain made from a way that leads to a is good.
LEMMA VisitedGood ==
  ASSUME Args, NEW a \in Addr, NEW way, GoodWay(way, a),
         NEW chains \in Seq(Seq(Link)),
         \A n \in 1..Len(chains) : Good(chains[n])
  PROVE  /\ Visited(chains, a, way) \in Seq(Seq(Link))
         /\ \A n \in 1..Len(Visited(chains, a, way)) :
               Good(Visited(chains, a, way)[n])
<1> USE DEF GoodWay
<1>1. CASE Nearest(a) = {}
  BY <1>1 DEF Visited
<1>2. CASE Nearest(a) # {}
  <2> DEFINE e == CHOOSE e \in Nearest(a) : TRUE
             l == <<e, a - e>>
             c == Reverse(Append(way, l))
  <2>1. e \in Nearest(a)
    BY <1>2
  <2>2. e \in starts /\ e \in ReachOf(a)
    BY <2>1 DEF Nearest
  <2> HIDE DEF e
  <2>3. e \in Addr /\ a - e \in Offsets
    BY <2>2, ReachBounds
  <2>4. a \in Int /\ e \in Int /\ Addr \subseteq Int
    BY <2>3, PointerWalkAssumption DEF Addr
  <2>5. l \in Link
    BY <2>3, <2>4 DEF Link
  <2> HIDE DEF l
  <2>6. /\ c \in Seq(Link) /\ Len(c) = Len(way) + 1 /\ c[1] = l
        /\ \A i \in 2..Len(c) : c[i] = way[Len(way) + 2 - i]
    BY <2>5, ReverseWay
  <2>7. l[1] = e /\ l[2] = a - e
    BY DEF l
  <2> HIDE DEF c
  <2>8. Arrives(c, 1) = a
    BY <2>4, <2>6, <2>7 DEF Arrives
  <2>9. Arrives(c, Len(c)) = match
    <3>1. CASE way = <<>>
      BY <2>6, <2>8, <3>1
    <3>2. CASE way # <<>>
      <4>1. Len(way) \in Nat /\ Len(way) >= 1
        BY <3>2
      <4>2. c[Len(c)] = way[1]
        BY <2>6, <4>1
      <4> QED
        BY <3>2, <4>2 DEF Arrives
    <3> QED
      BY <3>1, <3>2
  <2>10. ASSUME NEW i \in 1 .. Len(c) - 1
         PROVE  Arrives(c, i) \in DOMAIN map /\ map[Arrives(c, i)] = c[i + 1][1]
    <3>1. way # <<>> /\ Len(way) \in Nat /\ i \in 1..Len(way)
      BY <2>6
    <3>2. c[i + 1] = way[Len(way) + 1 - i]
      BY <2>6, <3>1
    <3>3. CASE i = 1
      BY <2>8, <3>1, <3>2, <3>3
    <3>4. CASE i # 1
      <4>1. c[i] = way[Len(way) + 2 - i]
        BY <2>6, <3>1, <3>4
      <4> DEFINE j == Len(way) + 1 - i
      <4>2. j \in 1 .. Len(way) - 1 /\ j + 1 = Len(way) + 2 - i
        BY <3>1, <3>4
      <4> HIDE DEF j
      <4>3. Arrives(way, j + 1) \in DOMAIN map /\ map[Arrives(way, j + 1)] = way[j][1]
        BY <4>2
      <4> QED
        BY <4>1, <4>2, <4>3, <3>2 DEF Arrives, j
    <3> QED
      BY <3>3, <3>4
  <2>11. ASSUME NEW i \in 1..Len(c)
         PROVE  c[i][2] \in Offsets
    <3>1. CASE i = 1
      BY <2>3, <2>6, <2>7, <3>1
    <3>2. CASE i # 1
      <4>1. c[i] = way[Len(way) + 2 - i] /\ Len(way) + 2 - i \in 1..Len(way)
        BY <2>6, <3>2
      <4> QED
        BY <4>1
    <3> QED
      BY <3>1, <3>2
  <2>12. MaxLevel \in Nat
    BY DEF MaxLevel, Args
  <2>13. Good(c)
    BY <2>2, <2>6, <2>7, <2>9, <2>10, <2>11, <2>12 DEF Good
  <2>14. Visited(chains, a, way) = Append(chains, c)
    BY <1>2 DEF Visited, c, l, e
  <2> QED
    BY <2>6, <2>13, <2>14
<1> QED
  BY <1>1, <1>2

-----------------------------------------------------------------------------
(***************************************************************************)
(* The invariant is inductive.                                             *)
(***************************************************************************)
LEMMA WalkInit == Init => WalkInv
<1> SUFFICES ASSUME Init PROVE WalkInv
  OBVIOUS
<1>1. Args
  BY PointerWalkAssumption DEF Init, Args
<1>2. /\ Frame(match, 1) \in Frames /\ Frame(match, 1).addr = match
      /\ Frame(match, 1).keys \subseteq ReachOf(match)
      /\ Frame(match, 1).keys # {} => 1 < depth
      /\ ~Frame(match, 1).open
  BY <1>1, FrameType DEF Args
<1>3. /\ stack = <<Frame(match, 1)>> /\ tmp = <<>>
      /\ out = Visited(<<>>, match, <<>>)
  BY DEF Init
<1>4. /\ out \in Seq(Seq(Link)) /\ \A n \in 1..Len(out) : Good(out[n])
  <2>1. MaxLevel \in Nat \ {0}
    BY <1>1 DEF MaxLevel, Args
  <2>2. GoodWay(<<>>, match)
    BY <2>1 DEF GoodWay
  <2>3. match \in Addr /\ <<>> \in Seq(Seq(Link))
    BY <1>1 DEF Args
  <2> DEFINE none == <<>>
  <2>4. \A n \in 1..Len(none) : Good(none[n])
    OBVIOUS
  <2>5. /\ Visited(none, match, <<>>) \in Seq(Seq(Link))
        /\ \A n \in 1..Len(Visited(none, match, <<>>)) :
              Good(Visited(none, match, <<>>)[n])
    BY <1>1, <2>2, <2>3, <2>4, VisitedGood
  <2> QED
    BY <1>3, <2>5
<1>5. Depth /\ Linked /\ Pending
  BY <1>2, <1>3 DEF Depth, Linked, Pending
<1> QED
  BY <1>1, <1>2, <1>3, <1>4, <1>5 DEF WalkInv

\* What the invariant says of the calls on the stack.
LEMMA CallFacts ==
  ASSUME WalkInv, stack # <<>>
  PROVE  /\ Level \in Nat \ {0} /\ Call \in Frames /\ Call.addr \in Addr
         /\ Len(tmp) = IF Call.open THEN Level ELSE Level - 1
<1>1. Level \in Nat \ {0} /\ Call \in Frames
  <2>1. stack \in Seq(Frames)
    BY DEF WalkInv
  <2> QED
    BY <2>1 DEF Level, Call
<1>2. Len(tmp) = IF Call.open THEN Level ELSE Level - 1
  BY DEF WalkInv, Depth, Level, Call
<1> QED
  BY <1>1, <1>2 DEF Frames

\* What the invariant says of each call and of each link.
LEMMA LinkFacts ==
  ASSUME WalkInv
  PROVE  /\ stack \in Seq(Frames) /\ tmp \in Seq(Link)
         /\ \A i \in 1 .. Len(stack) - 1 : stack[i].open
         /\ Len(stack) > 0 => stack[1].addr = match
         /\ \A i \in 1..Len(tmp) :
               Leads(tmp[i], stack[i].addr)
         /\ \A i, j \in Nat : (j = i + 1 /\ 0 < i /\ i <= Len(tmp) /\ j <= Len(stack)) =>
               stack[j].addr \in DOMAIN map /\ map[stack[j].addr] = tmp[i][1]
         /\ \A i \in 1..Len(stack) :
               /\ stack[i].keys \subseteq ReachOf(stack[i].addr)
               /\ stack[i].keys # {} => i < depth
               /\ i <= Len(tmp) =>
                     /\ i < depth
                     /\ \A v \in stack[i].left :
                           v \in DOMAIN map /\ map[v] = tmp[i][1]
<1>1. stack \in Seq(Frames) /\ tmp \in Seq(Link)
  BY DEF WalkInv
<1>2. ASSUME NEW i \in Nat, NEW j \in Nat,
             j = i + 1, 0 < i, i <= Len(tmp), j <= Len(stack)
      PROVE  stack[j].addr \in DOMAIN map /\ map[stack[j].addr] = tmp[i][1]
  <2>1. i \in 1..Len(tmp) /\ i < Len(stack)
    BY <1>1, <1>2
  <2> QED
    BY <1>2, <2>1 DEF WalkInv, Linked
<1> QED
  BY <1>1, <1>2 DEF WalkInv, Depth, Linked, Pending

\* The same said of the state after a step that leaves the arguments alone:
\* whoever shows it has shown that the invariant still holds.
LEMMA LinkIntro ==
  ASSUME WalkInv, UNCHANGED args,
         NEW n \in Nat, NEW m \in Nat,
         stack' \in Seq(Frames), Len(stack') = n,
         tmp' \in Seq(Link), Len(tmp') = m,
         out' \in Seq(Seq(Link)),
         \A i \in 1 .. n - 1 : stack'[i].open,
         n = 0 => m = 0,
         n > 0 => m = IF stack'[n].open THEN n ELSE n - 1,
         n > 0 => stack'[1].addr = match,
         \A i \in 1..m : Leads(tmp'[i], stack'[i].addr),
         \A i, j \in Nat : (j = i + 1 /\ 0 < i /\ i <= m /\ j <= n) =>
            stack'[j].addr \in DOMAIN map /\ map[stack'[j].addr] = tmp'[i][1],
         \A i \in 1..n :
            /\ stack'[i].keys \subseteq ReachOf(stack'[i].addr)
            /\ stack'[i].keys # {} => i < depth
            /\ i <= m =>
                  /\ i < depth
                  /\ \A v \in stack'[i].left :
                        v \in DOMAIN map /\ map[v] = tmp'[i][1],
         \A k \in 1..Len(out') : Good(out'[k])
  PROVE  WalkInv'
<1>1. Args' /\ UNCHANGED <<map, starts, reach, depth, match>>
  BY DEF WalkInv, Args, args
<1>2. Depth'
  <2>1. /\ Len(stack') = n /\ Len(tmp') = m
        /\ \A i \in 1 .. n - 1 : stack'[i].open
        /\ n = 0 => m = 0
        /\ n > 0 => m = IF stack'[n].open THEN n ELSE n - 1
    OBVIOUS
  <2> QED
    BY <2>1 DEF Depth
<1>3. Linked'
  <2>1. Len(stack') > 0 => stack'[1].addr = match'
    BY <1>1
  <2>2. \A i \in 1..Len(tmp') :
           /\ tmp'[i][1] + tmp'[i][2] = stack'[i].addr
           /\ tmp'[i][2] \in -reach'[1] .. reach'[2]
    BY <1>1 DEF Leads, Offsets
  <2>3. ASSUME NEW i \in 1..Len(tmp'), i < Len(stack')
        PROVE  /\ stack'[i + 1].addr \in DOMAIN map'
               /\ map'[stack'[i + 1].addr] = tmp'[i][1]
    <3>1. i \in Nat /\ i + 1 \in Nat /\ 0 < i /\ i <= m /\ i + 1 <= n
      BY <2>3
    <3> QED
      BY <1>1, <3>1
  <2> QED
    BY <2>1, <2>2, <2>3 DEF Linked, Leads, Offsets
<1>4. Pending'
  <2>1. ASSUME NEW i \in 1..Len(stack')
        PROVE  /\ (stack[i].keys \subseteq ReachOf(stack[i].addr))'
               /\ stack'[i].keys # {} => i < depth'
               /\ i <= Len(tmp') =>
                     /\ i < depth'
                     /\ \A v \in stack'[i].left :
                           v \in DOMAIN map' /\ map'[v] = tmp'[i][1]
    BY <1>1 DEF ReachOf
  <2> QED
    BY <2>1 DEF Pending
<1>5. (\A k \in 1..Len(out) : Good(out[k]))'
  <2>1. ASSUME NEW c, Good(c)
        PROVE  Good(c)'
    BY <1>1, <2>1 DEF Good, Arrives, MaxLevel, Offsets
  <2> QED
    BY <2>1
<1> QED
  BY <1>1, <1>2, <1>3, <1>4, <1>5 DEF WalkInv

\* What each action does to the stack and to the way.
LEMMA ReturnStep ==
  ASSUME WalkInv, Return, NEW n, n = Len(stack), NEW r, r = n - 1
  PROVE  /\ n \in Nat \ {0} /\ Len(tmp) = r
         /\ stack \in Seq(Frames) /\ tmp \in Seq(Link)
         /\ stack[n].keys = {} /\ ~stack[n].open
         /\ UNCHANGED args /\ UNCHANGED <<tmp, out>>
         /\ stack' \in Seq(Frames) /\ Len(stack') = r
         /\ \A i \in 1..r : stack'[i] = stack[i]
<1>1. /\ stack # <<>> /\ ~stack[n].open /\ stack' = Front(stack)
      /\ stack[n].keys = {} /\ UNCHANGED args /\ UNCHANGED <<tmp, out>>
  BY DEF Return, Level, Call
<1>2. /\ n \in Nat \ {0} /\ Len(tmp) = r
      /\ stack \in Seq(Frames) /\ tmp \in Seq(Link)
  BY <1>1, CallFacts DEF WalkInv, Level, Call
<1> QED
  BY <1>1, <1>2 DEF Front

LEMMA NextKeyStep ==
  ASSUME WalkInv, NextKey, NEW n, n = Len(stack)
  PROVE  /\ n \in Nat \ {0} /\ stack[n] \in Frames /\ stack[n].addr \in Addr
         /\ ~stack[n].open
         /\ Len(tmp) = n - 1 /\ stack \in Seq(Frames) /\ tmp \in Seq(Link)
         /\ UNCHANGED args /\ UNCHANGED out
         /\ \E k \in stack[n].keys :
               /\ tmp' = Append(tmp, <<k, stack[n].addr - k>>)
               /\ stack' \in Seq(Frames) /\ Len(stack') = n
               /\ \A i \in 1 .. n - 1 : stack'[i] = stack[i]
               /\ stack'[n].addr = stack[n].addr /\ stack'[n].open
               /\ stack'[n].keys = stack[n].keys \ {k}
               /\ stack'[n].left = Pointers(k)
<1>1. PICK k \in stack[n].keys :
        /\ tmp' = Append(tmp, <<k, stack[n].addr - k>>)
        /\ stack' = [stack EXCEPT ![n].open = TRUE,
                                  ![n].keys = @ \ {k},
                                  ![n].left = Pointers(k)]
  BY DEF NextKey, Level, Call
<1>2. stack # <<>> /\ ~stack[n].open /\ UNCHANGED args /\ UNCHANGED out
  BY DEF NextKey, Level, Call
<1>3. /\ n \in Nat \ {0} /\ stack[n] \in Frames /\ stack[n].addr \in Addr
      /\ Len(tmp) = n - 1 /\ stack \in Seq(Frames) /\ tmp \in Seq(Link)
  BY <1>2, CallFacts DEF WalkInv, Level, Call
<1>4. Pointers(k) \subseteq Addr
  BY DEF Pointers, WalkInv, Args
<1>5. /\ stack' \in Seq(Frames) /\ Len(stack') = n
      /\ \A i \in 1 .. n - 1 : stack'[i] = stack[i]
      /\ stack'[n].addr = stack[n].addr /\ stack'[n].open
      /\ stack'[n].keys = stack[n].keys \ {k}
      /\ stack'[n].left = Pointers(k)
  BY <1>1, <1>3, <1>4 DEF Frames
<1> QED
  BY <1>1, <1>2, <1>3, <1>5

LEMMA EndKeyStep ==
  ASSUME WalkInv, EndKey, NEW n, n = Len(stack), NEW r, r = n - 1
  PROVE  /\ n \in Nat \ {0} /\ stack[n] \in Frames
         /\ stack[n].open /\ stack[n].left = {}
         /\ Len(tmp) = n /\ stack \in Seq(Frames) /\ tmp \in Seq(Link)
         /\ UNCHANGED args /\ UNCHANGED out
         /\ tmp' \in Seq(Link) /\ Len(tmp') = r
         /\ \A i \in 1..r : tmp'[i] = tmp[i]
         /\ stack' \in Seq(Frames) /\ Len(stack') = n
         /\ \A i \in 1..n : /\ stack'[i].addr = stack[i].addr
                            /\ stack'[i].keys = stack[i].keys
                            /\ stack'[i].left = stack[i].left
                            /\ i < n => stack'[i] = stack[i]
         /\ ~stack'[n].open
<1>1. /\ stack # <<>> /\ stack[n].open /\ stack[n].left = {}
      /\ tmp' = Front(tmp) /\ stack' = [stack EXCEPT ![n].open = FALSE]
      /\ UNCHANGED args /\ UNCHANGED out
  BY DEF EndKey, Level, Call
<1>2. /\ n \in Nat \ {0} /\ stack[n] \in Frames
      /\ Len(tmp) = n /\ stack \in Seq(Frames) /\ tmp \in Seq(Link)
  BY <1>1, CallFacts DEF WalkInv, Level, Call
<1>3. /\ tmp' \in Seq(Link) /\ Len(tmp') = r
      /\ \A i \in 1..r : tmp'[i] = tmp[i]
  BY <1>1, <1>2 DEF Front
<1>4. /\ stack' \in Seq(Frames) /\ Len(stack') = n
      /\ \A i \in 1..n : /\ stack'[i].addr = stack[i].addr
                         /\ stack'[i].keys = stack[i].keys
                         /\ stack'[i].left = stack[i].left
                         /\ i < n => stack'[i] = stack[i]
      /\ ~stack'[n].open
  <2>1. n \in 1..Len(stack) /\ \A i \in 1..Len(stack) : stack[i] \in Frames
    BY <1>2
  <2>2. [stack[n] EXCEPT !.open = FALSE] \in Frames
    BY <1>2 DEF Frames
  <2>3. stack' = [stack EXCEPT ![n] = [stack[n] EXCEPT !.open = FALSE]]
    BY <1>1
  <2>4. stack' \in Seq(Frames) /\ Len(stack') = n
    BY <1>2, <2>2, <2>3
  <2>5. \A i \in 1..n : i < n => stack'[i] = stack[i]
    BY <1>2, <2>3
  <2>6. stack'[n] = [stack[n] EXCEPT !.open = FALSE]
    <3> DEFINE f == [stack[n] EXCEPT !.open = FALSE]
    <3>1. n \in DOMAIN stack /\ stack' = [stack EXCEPT ![n] = f]
      BY <1>2, <2>3
    <3> HIDE DEF f
    <3> QED
      BY <3>1 DEF f
  <2>7. /\ stack'[n].addr = stack[n].addr /\ stack'[n].keys = stack[n].keys
        /\ stack'[n].left = stack[n].left /\ ~stack'[n].open
    BY <1>2, <2>6 DEF Frames
  <2> QED
    BY <1>2, <2>4, <2>5, <2>7
<1> QED
  BY <1>1, <1>2, <1>3, <1>4

LEMMA FollowStep ==
  ASSUME WalkInv, Follow, NEW n, n = Len(stack), NEW r, r = n + 1
  PROVE  /\ n \in Nat \ {0} /\ stack[n] \in Frames /\ stack[n].open
         /\ Len(tmp) = n /\ stack \in Seq(Frames) /\ tmp \in Seq(Link)
         /\ UNCHANGED args /\ UNCHANGED tmp
         /\ \E v \in stack[n].left :
               /\ out' = Visited(out, v, tmp)
               /\ v \in Addr /\ v \in DOMAIN map /\ map[v] = tmp[n][1] /\ n < depth
               /\ stack' \in Seq(Frames) /\ Len(stack') = r
               /\ stack'[r] = Frame(v, r)
               /\ \A i \in 1 .. n - 1 : stack'[i] = stack[i]
               /\ stack'[n].addr = stack[n].addr /\ stack'[n].open
               /\ stack'[n].keys = stack[n].keys
               /\ stack'[n].left = stack[n].left \ {v}
<1>1. PICK v \in stack[n].left :
        /\ stack' = Append([stack EXCEPT ![n].left = @ \ {v}], Frame(v, r))
        /\ out' = Visited(out, v, tmp)
  BY DEF Follow, Level, Call
<1>2. stack # <<>> /\ stack[n].open /\ UNCHANGED args /\ UNCHANGED tmp
  BY DEF Follow, Level, Call
<1>3. /\ n \in Nat \ {0} /\ stack[n] \in Frames
      /\ Len(tmp) = n /\ stack \in Seq(Frames) /\ tmp \in Seq(Link)
  BY <1>2, CallFacts DEF WalkInv, Level, Call
<1>4. Args
  BY DEF WalkInv
<1>5. v \in Addr /\ v \in DOMAIN map /\ map[v] = tmp[n][1] /\ n < depth
  BY <1>3, <1>4, LinkFacts DEF Args
<1> DEFINE called == [stack EXCEPT ![n].left = @ \ {v}]
<1>6. /\ called \in Seq(Frames) /\ Len(called) = n
      /\ \A i \in 1 .. n - 1 : called[i] = stack[i]
      /\ called[n].addr = stack[n].addr /\ called[n].open
      /\ called[n].keys = stack[n].keys
      /\ called[n].left = stack[n].left \ {v}
  <2> DEFINE f == [stack[n] EXCEPT !.left = @ \ {v}]
  <2>1. f \in Frames /\ f.addr = stack[n].addr /\ f.open
        /\ f.keys = stack[n].keys /\ f.left = stack[n].left \ {v}
    BY <1>2, <1>3 DEF Frames
  <2>2. called = [stack EXCEPT ![n] = f] /\ n \in DOMAIN stack
    BY <1>3
  <2> HIDE DEF f, called
  <2>3. called \in Seq(Frames) /\ Len(called) = n /\ called[n] = f
    BY <1>3, <2>1, <2>2
  <2>4. \A i \in 1 .. n - 1 : called[i] = stack[i]
    BY <1>3, <2>2
  <2> QED
    BY <2>1, <2>3, <2>4
<1>7. stack' = Append(called, Frame(v, r))
  BY <1>1
<1> HIDE DEF called
<1>8. Frame(v, r) \in Frames
  BY <1>3, <1>4, <1>5, FrameType
<1>9. /\ stack' \in Seq(Frames) /\ Len(stack') = r
      /\ stack'[r] = Frame(v, r)
      /\ \A i \in 1..n : stack'[i] = called[i]
  BY <1>3, <1>6, <1>7, <1>8
<1> QED
  BY <1>1, <1>2, <1>3, <1>5, <1>6, <1>9

LEMMA ReturnInv ==
  ASSUME WalkInv, Return
  PROVE  WalkInv'
<1> DEFINE n == Len(stack)
           r == n - 1
<1>1. n = Len(stack) /\ r = n - 1
  OBVIOUS
<1> HIDE DEF n, r
<1>2. /\ n \in Nat \ {0} /\ Len(tmp) = r
      /\ stack \in Seq(Frames) /\ tmp \in Seq(Link)
      /\ UNCHANGED args /\ UNCHANGED <<tmp, out>>
  BY <1>1, ReturnStep
<1>3. /\ stack' \in Seq(Frames) /\ Len(stack') = r
      /\ \A i \in 1..r : stack'[i] = stack[i]
  BY <1>1, ReturnStep
<1>4. n = Len(stack) /\ n = r + 1 /\ r \in Nat
  BY <1>1, <1>2
<1>5. Len(tmp') = r /\ tmp' = tmp
  BY <1>2
<1>6. \A i \in 1 .. r - 1 : stack'[i].open
  BY <1>3, <1>4, LinkFacts
<1>7. r > 0 => r = IF stack'[r].open THEN r ELSE r - 1
  BY <1>3, <1>4, LinkFacts
<1>8. r > 0 => stack'[1].addr = match
  BY <1>3, <1>4, LinkFacts
<1>9. \A i \in 1..r : Leads(tmp'[i], stack'[i].addr)
  BY <1>3, <1>4, <1>5, LinkFacts
<1>10. ASSUME NEW i \in Nat, NEW j \in Nat,
              j = i + 1, 0 < i, i <= r, j <= r
       PROVE  stack'[j].addr \in DOMAIN map /\ map[stack'[j].addr] = tmp'[i][1]
  <2>1. stack'[j] = stack[j] /\ j <= Len(stack) /\ i <= Len(tmp)
    BY <1>3, <1>4, <1>5, <1>10
  <2> QED
    BY <1>5, <1>10, <2>1, LinkFacts
<1>11. \A i \in 1..r :
          /\ stack'[i].keys \subseteq ReachOf(stack'[i].addr)
          /\ stack'[i].keys # {} => i < depth
          /\ i <= r =>
                /\ i < depth
                /\ \A v \in stack'[i].left :
                      v \in DOMAIN map /\ map[v] = tmp'[i][1]
  BY <1>3, <1>4, <1>5, LinkFacts
<1>12. out' \in Seq(Seq(Link)) /\ \A k \in 1..Len(out') : Good(out'[k])
  BY <1>2 DEF WalkInv
<1>13. tmp' \in Seq(Link) /\ UNCHANGED args
  BY <1>2
<1> QED
  BY <1>3, <1>4, <1>5, <1>6, <1>7, <1>8, <1>9, <1>10, <1>11, <1>12, <1>13,
     LinkIntro, ZenonT(60)

LEMMA NextKeyInv ==
  ASSUME WalkInv, NextKey
  PROVE  WalkInv'
<1> DEFINE n == Len(stack)
<1>1. PICK k \in stack[n].keys :
        /\ tmp' = Append(tmp, <<k, stack[n].addr - k>>)
        /\ stack' \in Seq(Frames) /\ Len(stack') = n
        /\ \A i \in 1 .. n - 1 : stack'[i] = stack[i]
        /\ stack'[n].addr = stack[n].addr /\ stack'[n].open
        /\ stack'[n].keys = stack[n].keys \ {k}
        /\ stack'[n].left = Pointers(k)
  BY NextKeyStep
<1>2. UNCHANGED args /\ UNCHANGED out
  BY DEF NextKey
<1>3. /\ n \in Nat \ {0} /\ stack[n] \in Frames /\ stack[n].addr \in Addr
      /\ Len(tmp) = n - 1 /\ stack \in Seq(Frames) /\ tmp \in Seq(Link)
  BY NextKeyStep
<1>4. k \in Addr /\ stack[n].addr - k \in Offsets /\ n < depth
  <2>1. stack[n].keys \subseteq ReachOf(stack[n].addr) /\ n < depth
    BY <1>3, LinkFacts
  <2> QED
    BY <1>3, <2>1, ReachBounds DEF WalkInv
<1> DEFINE l == <<k, stack[n].addr - k>>
<1>5. l \in Link /\ Leads(l, stack[n].addr) /\ l[1] = k
  BY <1>3, <1>4, PointerWalkAssumption DEF Addr, Link, Leads
<1>6. Pointers(k) \subseteq Addr /\ \A v \in Pointers(k) : v \in DOMAIN map /\ map[v] = k
  BY DEF Pointers, WalkInv, Args
<1>7. tmp' = Append(tmp, l)
  BY <1>1
<1> HIDE DEF l
<1>8. /\ tmp' \in Seq(Link) /\ Len(tmp') = n /\ tmp'[n] = l
      /\ \A i \in 1 .. n - 1 : tmp'[i] = tmp[i]
  BY <1>3, <1>5, <1>7
<1>9. /\ stack' \in Seq(Frames) /\ Len(stack') = n
      /\ \A i \in 1 .. n - 1 : stack'[i] = stack[i]
      /\ stack'[n].addr = stack[n].addr /\ stack'[n].open
      /\ stack'[n].keys = stack[n].keys \ {k}
      /\ stack'[n].left = Pointers(k)
  BY <1>1
<1>10. n = Len(stack)
  OBVIOUS
<1> HIDE DEF n
<1>11. \A i \in 1..n : stack'[i].addr = stack[i].addr
  BY <1>9
<1>12. \A i \in 1 .. n - 1 : stack'[i].open
  BY <1>9, <1>10, LinkFacts
<1>13. stack'[1].addr = match
  BY <1>3, <1>10, <1>11, LinkFacts
<1>14. \A i \in 1..n : Leads(tmp'[i], stack'[i].addr)
  <2>1. \A i \in 1 .. n - 1 : Leads(tmp'[i], stack'[i].addr)
    BY <1>3, <1>8, <1>9, LinkFacts
  <2> QED
    BY <1>3, <1>5, <1>8, <1>9, <2>1
<1>15. ASSUME NEW i \in Nat, NEW j \in Nat,
              j = i + 1, 0 < i, i <= n, j <= n
       PROVE  stack'[j].addr \in DOMAIN map /\ map[stack'[j].addr] = tmp'[i][1]
  <2>1. stack'[j].addr = stack[j].addr /\ tmp'[i] = tmp[i]
        /\ i <= Len(tmp) /\ j <= Len(stack)
    BY <1>3, <1>8, <1>10, <1>11, <1>15
  <2> QED
    BY <1>15, <2>1, LinkFacts
<1>16. ASSUME NEW i \in 1..n
       PROVE  /\ stack'[i].keys \subseteq ReachOf(stack'[i].addr)
              /\ stack'[i].keys # {} => i < depth
              /\ i <= n =>
                    /\ i < depth
                    /\ \A v \in stack'[i].left :
                          v \in DOMAIN map /\ map[v] = tmp'[i][1]
  <2>1. CASE i = n
    BY <1>3, <1>4, <1>5, <1>6, <1>8, <1>9, <1>10, <2>1, LinkFacts
  <2>2. CASE i # n
    <3>1. i \in 1 .. n - 1 /\ i <= Len(tmp) /\ i \in 1..Len(stack)
      BY <1>3, <1>10, <2>2
    <3> QED
      BY <1>8, <1>9, <3>1, LinkFacts
  <2> QED
    BY <2>1, <2>2
<1>17. out' \in Seq(Seq(Link)) /\ \A i \in 1..Len(out') : Good(out'[i])
  BY <1>2 DEF WalkInv
<1>18. n \in Nat /\ (n = 0 => n = 0) /\ UNCHANGED args
  BY <1>2, <1>3
<1>19. n > 0 => n = IF stack'[n].open THEN n ELSE n - 1
  BY <1>9
<1>20. \A i, j \in Nat : (j = i + 1 /\ 0 < i /\ i <= n /\ j <= n) =>
          stack'[j].addr \in DOMAIN map /\ map[stack'[j].addr] = tmp'[i][1]
  BY <1>15
<1>21. /\ stack' \in Seq(Frames) /\ Len(stack') = n
       /\ tmp' \in Seq(Link) /\ Len(tmp') = n
  BY <1>8, <1>9
<1>22. n > 0 => stack'[1].addr = match
  BY <1>13
<1> QED
  BY <1>12, <1>14, <1>16, <1>17, <1>18, <1>19, <1>20, <1>21, <1>22, LinkIntro

LEMMA EndKeyInv ==
  ASSUME WalkInv, EndKey
  PROVE  WalkInv'
<1> DEFINE n == Len(stack)
           r == n - 1
<1>1. UNCHANGED args /\ UNCHANGED out
  BY DEF EndKey
<1>2. /\ n \in Nat \ {0} /\ stack[n] \in Frames
      /\ Len(tmp) = n /\ stack \in Seq(Frames) /\ tmp \in Seq(Link)
  BY EndKeyStep
<1>3. /\ tmp' \in Seq(Link) /\ Len(tmp') = r
      /\ \A i \in 1..r : tmp'[i] = tmp[i]
  BY EndKeyStep
<1>4. /\ stack' \in Seq(Frames) /\ Len(stack') = n
      /\ \A i \in 1..n : /\ stack'[i].addr = stack[i].addr
                         /\ stack'[i].keys = stack[i].keys
                         /\ stack'[i].left = stack[i].left
                         /\ i < n => stack'[i] = stack[i]
      /\ ~stack'[n].open
  BY EndKeyStep
<1>5. n = Len(stack) /\ n = r + 1 /\ r \in Nat
  BY <1>2
<1> HIDE DEF n, r
<1>6. \A i \in 1 .. n - 1 : stack'[i].open
  BY <1>4, <1>5, LinkFacts
<1>7. stack'[1].addr = match
  BY <1>4, <1>5, LinkFacts
<1>8. \A i \in 1..r : Leads(tmp'[i], stack'[i].addr)
  BY <1>2, <1>3, <1>4, <1>5, LinkFacts
<1>9. ASSUME NEW i \in Nat, NEW j \in Nat,
             j = i + 1, 0 < i, i <= r, j <= n
      PROVE  stack'[j].addr \in DOMAIN map /\ map[stack'[j].addr] = tmp'[i][1]
  <2>1. stack'[j].addr = stack[j].addr /\ tmp'[i] = tmp[i]
        /\ i <= Len(tmp) /\ j <= Len(stack)
    BY <1>2, <1>3, <1>4, <1>5, <1>9
  <2> QED
    BY <1>9, <2>1, LinkFacts
<1>10. ASSUME NEW i \in 1..n
       PROVE  /\ stack'[i].keys \subseteq ReachOf(stack'[i].addr)
              /\ stack'[i].keys # {} => i < depth
              /\ i <= r =>
                    /\ i < depth
                    /\ \A v \in stack'[i].left :
                          v \in DOMAIN map /\ map[v] = tmp'[i][1]
  <2>1. i <= Len(tmp) /\ i \in 1..Len(stack) /\ i \in Nat
        /\ (i <= r => tmp'[i] = tmp[i])
    BY <1>2, <1>3, <1>5
  <2> QED
    BY <1>4, <2>1, LinkFacts
<1>11. out' \in Seq(Seq(Link)) /\ \A k \in 1..Len(out') : Good(out'[k])
  BY <1>1 DEF WalkInv
<1>12. n \in Nat /\ r \in Nat /\ (n = 0 => r = 0) /\ UNCHANGED args
  BY <1>1, <1>2, <1>5
<1>13. n > 0 => r = IF stack'[n].open THEN n ELSE n - 1
  BY <1>4, <1>5
<1>14. \A i, j \in Nat : (j = i + 1 /\ 0 < i /\ i <= r /\ j <= n) =>
          stack'[j].addr \in DOMAIN map /\ map[stack'[j].addr] = tmp'[i][1]
  BY <1>9
<1>15. /\ stack' \in Seq(Frames) /\ Len(stack') = n
       /\ tmp' \in Seq(Link) /\ Len(tmp') = r
  BY <1>3, <1>4
<1> QED
  BY <1>6, <1>7, <1>8, <1>10, <1>11, <1>12, <1>13, <1>14, <1>15, LinkIntro

LEMMA FollowInv ==
  ASSUME WalkInv, Follow
  PROVE  WalkInv'
<1> DEFINE n == Len(stack)
           r == n + 1
<1>1. PICK v \in stack[n].left :
        /\ out' = Visited(out, v, tmp)
        /\ v \in Addr /\ v \in DOMAIN map /\ map[v] = tmp[n][1] /\ n < depth
        /\ stack' \in Seq(Frames) /\ Len(stack') = r
        /\ stack'[r] = Frame(v, r)
        /\ \A i \in 1 .. n - 1 : stack'[i] = stack[i]
        /\ stack'[n].addr = stack[n].addr /\ stack'[n].open
        /\ stack'[n].keys = stack[n].keys
        /\ stack'[n].left = stack[n].left \ {v}
  BY FollowStep, ZenonT(60)
<1>2. UNCHANGED args /\ UNCHANGED tmp
  BY DEF Follow
<1>3. /\ n \in Nat \ {0} /\ stack[n] \in Frames
      /\ Len(tmp) = n /\ stack \in Seq(Frames) /\ tmp \in Seq(Link)
  BY FollowStep
<1>4. Args
  BY DEF WalkInv
<1>5. v \in Addr /\ v \in DOMAIN map /\ map[v] = tmp[n][1] /\ n < depth
  BY <1>1
<1>8. n = Len(stack) /\ r = n + 1 /\ r \in Nat \ {0}
  BY <1>3
<1> HIDE DEF n, r
<1>9. /\ Frame(v, r) \in Frames /\ Frame(v, r).addr = v
      /\ Frame(v, r).keys \subseteq ReachOf(v)
      /\ Frame(v, r).keys # {} => r < depth
      /\ ~Frame(v, r).open
  BY <1>4, <1>5, <1>8, FrameType
<1>10. stack' \in Seq(Frames) /\ Len(stack') = r /\ stack'[r] = Frame(v, r)
  BY <1>1
<1>11. ASSUME NEW i \in 1..n
       PROVE  /\ stack'[i].addr = stack[i].addr
              /\ stack'[i].keys = stack[i].keys
              /\ stack'[i].left \subseteq stack[i].left
              /\ stack'[i].open
  <2>1. CASE i = n
    BY <1>1, <2>1
  <2>2. CASE i # n
    BY <1>1, <1>8, <2>2, LinkFacts
  <2> QED
    BY <2>1, <2>2
<1>12. \A i \in 1 .. r - 1 : stack'[i].open
  BY <1>8, <1>11
<1>13. stack'[1].addr = match
  BY <1>3, <1>8, <1>11, LinkFacts
<1>14. Len(tmp') = n /\ tmp' \in Seq(Link) /\ UNCHANGED args
  BY <1>2, <1>3
<1>15. \A i \in 1..n : Leads(tmp'[i], stack'[i].addr)
  BY <1>2, <1>3, <1>8, <1>11, LinkFacts
<1>16. ASSUME NEW i \in Nat, NEW j \in Nat,
              j = i + 1, 0 < i, i <= n, j <= r
       PROVE  stack'[j].addr \in DOMAIN map /\ map[stack'[j].addr] = tmp'[i][1]
  <2>1. CASE j = r
    BY <1>2, <1>5, <1>8, <1>9, <1>10, <1>16, <2>1
  <2>2. CASE j # r
    <3>1. /\ stack'[j].addr = stack[j].addr /\ tmp'[i] = tmp[i]
          /\ i <= Len(tmp) /\ j <= Len(stack)
      BY <1>2, <1>3, <1>8, <1>11, <1>16, <2>2
    <3> QED
      BY <1>16, <3>1, LinkFacts
  <2> QED
    BY <2>1, <2>2
<1>17. ASSUME NEW i \in 1..r
       PROVE  /\ stack'[i].keys \subseteq ReachOf(stack'[i].addr)
              /\ stack'[i].keys # {} => i < depth
              /\ i <= n =>
                    /\ i < depth
                    /\ \A w \in stack'[i].left :
                          w \in DOMAIN map /\ map[w] = tmp'[i][1]
  <2>1. CASE i = r
    BY <1>8, <1>9, <1>10, <2>1
  <2>2. CASE i # r
    <3>1. i \in 1..n /\ i \in 1..Len(stack) /\ i <= Len(tmp)
      BY <1>3, <1>8, <2>2
    <3> QED
      BY <1>2, <1>11, <3>1, LinkFacts
  <2> QED
    BY <2>1, <2>2
<1>18. out' \in Seq(Seq(Link)) /\ \A k \in 1..Len(out') : Good(out'[k])
  <2>1. n < MaxLevel
    BY <1>3, <1>4, <1>5 DEF MaxLevel, Args
  <2>2. Leads(tmp[1], match) /\ \A i \in 1..n : tmp[i][2] \in Offsets
    BY <1>3, <1>8, LinkFacts DEF Leads
  <2>3. ASSUME NEW i \in 1 .. n - 1
        PROVE  /\ Arrives(tmp, i + 1) \in DOMAIN map
               /\ map[Arrives(tmp, i + 1)] = tmp[i][1]
    <3> DEFINE j == i + 1
    <3>1. j \in 1..n /\ i \in Nat /\ j \in Nat /\ j = i + 1 /\ 0 < i
          /\ i <= Len(tmp) /\ j <= Len(stack)
      BY <1>3, <1>8
    <3> HIDE DEF j
    <3>2. Arrives(tmp, j) = stack[j].addr
      BY <1>3, <3>1, LinkFacts DEF Leads, Arrives
    <3>3. stack[j].addr \in DOMAIN map /\ map[stack[j].addr] = tmp[i][1]
      BY <3>1, LinkFacts
    <3> QED
      BY <3>2, <3>3 DEF j
  <2>4. GoodWay(tmp, v)
    BY <1>3, <1>5, <2>1, <2>2, <2>3 DEF GoodWay, Arrives, Leads
  <2>5. out \in Seq(Seq(Link)) /\ \A k \in 1..Len(out) : Good(out[k])
    BY DEF WalkInv
  <2>6. /\ Visited(out, v, tmp) \in Seq(Seq(Link))
        /\ \A k \in 1..Len(Visited(out, v, tmp)) : Good(Visited(out, v, tmp)[k])
    BY <1>4, <1>5, <2>4, <2>5, VisitedGood
  <2> QED
    BY <1>1, <2>6
<1>19. r \in Nat /\ n \in Nat /\ (r = 0 => n = 0)
  BY <1>3, <1>8
<1>20. r > 0 => n = IF stack'[r].open THEN r ELSE r - 1
  BY <1>8, <1>9, <1>10
<1>21. \A i, j \in Nat : (j = i + 1 /\ 0 < i /\ i <= n /\ j <= r) =>
          stack'[j].addr \in DOMAIN map /\ map[stack'[j].addr] = tmp'[i][1]
  BY <1>16
<1>22. stack' \in Seq(Frames) /\ Len(stack') = r
  BY <1>10
<1> QED
  BY <1>12, <1>13, <1>14, <1>15, <1>17, <1>18, <1>19, <1>20, <1>21, <1>22,
     LinkIntro

LEMMA WalkNext == WalkInv /\ [Next]_vars => WalkInv'
<1> SUFFICES ASSUME WalkInv, [Next]_vars PROVE WalkInv'
  OBVIOUS
<1>1. CASE UNCHANGED vars
  BY <1>1 DEF vars, args, WalkInv, Args, Depth, Linked, Pending, Leads, Offsets,
              ReachOf, Good, Arrives, MaxLevel
<1> QED
  BY <1>1, NextKeyInv, FollowInv, EndKeyInv, ReturnInv DEF Next

\* The chains in out are those at its indices.
LEMMA OutGood ==
  ASSUME WalkInv, NEW c \in Range(out)
  PROVE  Good(c)
<1>1. PICK k \in DOMAIN out : c = out[k]
  BY DEF Range
<1>2. out \in Seq(Seq(Link)) /\ \A i \in 1..Len(out) : Good(out[i])
  BY DEF WalkInv
<1>3. k \in 1..Len(out)
  BY <1>1, <1>2
<1> QED
  BY <1>1, <1>2, <1>3

LEMMA WalkIsInvariant == Spec => []WalkInv
BY WalkInit, WalkNext, PTL DEF Spec

-----------------------------------------------------------------------------
(***************************************************************************)
(* The walk finds all chains, and each of them once.  A way of the         *)
(* reference is still awaited while the stack has a call that agrees with  *)
(* it up to some level and has yet to go where the way goes there; each    *)
(* step but Follow leaves the awaited ways as they are, and Follow takes   *)
(* one of them away and puts its chain in the result.                      *)
(***************************************************************************)
\* The pointers of a way in the order of the walk, from the match on.
FromMatch(way, i) == way[Len(way) + 1 - i]

AwaitsAt(S, way, i) ==
    /\ i \in 1..Len(way) /\ i <= Len(S)
    /\ \A j \in 1 .. i - 1 : FromMatch(way, j) = S[j + 1].addr
    /\ \/ map[FromMatch(way, i)] \in S[i].keys
       \/ S[i].open /\ FromMatch(way, i) \in S[i].left

Awaits(S, way) == \E i \in 1..Len(way) : AwaitsAt(S, way, i)

ChainsOf(way) == {ChainOf(way, e) : e \in Nearest(Stop(way, 1))}

\* What a call is at has been taken off the list of what it has still to do.
Taken ==
    /\ \A i \in 1..Len(tmp) : tmp[i][1] \notin stack[i].keys
    /\ \A i, j \in 1..Len(stack) : j = i + 1 => stack[j].addr \notin stack[i].left

Visits ==
    Range(out) = UNION {ChainsOf(way) : way \in {w \in Ways : ~Awaits(stack, w)}}

VisitInv == WalkInv /\ Taken /\ Visits /\ IsInjective(out)

LEMMA WayFacts ==
  ASSUME Args, NEW way \in Ways
  PROVE  /\ way \in Seq(DOMAIN map) /\ Len(way) \in Nat
         /\ Len(way) = 0 \/ Len(way) < depth
         /\ \A i \in 1..Len(way) :
               /\ FromMatch(way, i) \in DOMAIN map
               /\ map[FromMatch(way, i)] \in Addr
               /\ map[FromMatch(way, i)] \in
                     ReachOf(IF i = 1 THEN match ELSE FromMatch(way, i - 1))
<1>1. MaxLevel \in Nat /\ (depth = 0 => MaxLevel = 1) /\ (depth > 0 => MaxLevel = depth)
      /\ depth \in Nat
  BY DEF MaxLevel, Args
<1>2. PICK n \in 0 .. MaxLevel - 1 : way \in [1..n -> DOMAIN map]
  BY DEF Ways
<1>3. way \in Seq(DOMAIN map) /\ Len(way) = n /\ n \in Nat
  BY <1>1, <1>2
<1>4. \A i \in 1..Len(way) : map[way[i]] \in ReachOf(Stop(way, i + 1))
  BY DEF Ways
<1>5. ASSUME NEW i \in 1..Len(way)
      PROVE  /\ FromMatch(way, i) \in DOMAIN map
             /\ map[FromMatch(way, i)] \in Addr
             /\ map[FromMatch(way, i)] \in
                   ReachOf(IF i = 1 THEN match ELSE FromMatch(way, i - 1))
  <2> DEFINE k == Len(way) + 1 - i
  <2>1. k \in 1..Len(way) /\ (i = 1 => k = Len(way)) /\ (i # 1 => k + 1 <= Len(way))
        /\ k + 1 = Len(way) + 1 - (i - 1)
    BY <1>3
  <2>2. FromMatch(way, i) = way[k] /\ FromMatch(way, i - 1) = way[k + 1]
    BY <2>1 DEF FromMatch
  <2> HIDE DEF k
  <2>3. Stop(way, k + 1) = IF i = 1 THEN match ELSE way[k + 1]
    BY <1>3, <2>1 DEF Stop
  <2> QED
    BY <1>3, <1>4, <2>1, <2>2, <2>3 DEF Args
<1> QED
  BY <1>1, <1>3, <1>5

\* The links of the chain of a way.
LEMMA ChainFacts ==
  ASSUME NEW n \in Nat, NEW way, way \in Seq(DOMAIN map), Len(way) = n, NEW e
  PROVE  /\ DOMAIN ChainOf(way, e) = 1 .. n + 1
         /\ ChainOf(way, e) = [i \in 1 .. n + 1 |-> ChainOf(way, e)[i]]
         /\ ChainOf(way, e)[1] = <<e, Stop(way, 1) - e>>
         /\ \A i \in 2 .. n + 1 :
               ChainOf(way, e)[i] = <<map[way[i - 1]], Stop(way, i) - map[way[i - 1]]>>
BY DEF ChainOf

\* A chain tells the way it was made for.
LEMMA ChainTells ==
  ASSUME Args, NEW way \in Ways, NEW w \in Ways, NEW e \in Addr, NEW f \in Addr,
         ChainOf(way, e) = ChainOf(w, f)
  PROVE  way = w
<1>1. /\ way \in Seq(DOMAIN map) /\ Len(way) \in Nat
      /\ w \in Seq(DOMAIN map) /\ Len(w) \in Nat
  BY WayFacts
<1>2. Len(way) = Len(w)
  <2>1. 1 .. Len(way) + 1 = 1 .. Len(w) + 1
    BY <1>1, ChainFacts
  <2> QED
    BY <1>1, <2>1
<1>3. Addr \subseteq Int /\ DOMAIN map \subseteq Addr /\ \A a \in DOMAIN map : map[a] \in Addr
  BY PointerWalkAssumption DEF Addr, Args
<1>4. ASSUME NEW i \in 1..Len(way)
      PROVE  way[i] = w[i]
  <2>1. way[i] \in DOMAIN map /\ w[i] \in DOMAIN map
    BY <1>1, <1>2
  <2>2. Stop(way, i) = way[i] /\ Stop(w, i) = w[i]
    BY <1>1, <1>2 DEF Stop
  <2>3. CASE i = 1
    <3>1. <<e, Stop(way, 1) - e>> = <<f, Stop(w, 1) - f>>
      BY <1>1, ChainFacts
    <3>2. way[1] \in Int /\ w[1] \in Int /\ e \in Int /\ f \in Int
      BY <1>3, <2>1, <2>3
    <3>3. e = f /\ way[1] - e = w[1] - f
      BY <2>2, <2>3, <3>1
    <3> QED
      BY <2>3, <3>2, <3>3
  <2>4. CASE i # 1
    <3>1. i \in 2 .. Len(way) + 1 /\ i - 1 \in 1..Len(way)
      BY <1>1, <2>4
    <3>2. /\ ChainOf(way, e)[i] = <<map[way[i - 1]], way[i] - map[way[i - 1]]>>
          /\ ChainOf(w, f)[i] = <<map[w[i - 1]], w[i] - map[w[i - 1]]>>
      <4>1. ChainOf(way, e)[i] = <<map[way[i - 1]], way[i] - map[way[i - 1]]>>
        BY <1>1, <2>2, <3>1, ChainFacts
      <4>2. ChainOf(w, f)[i] = <<map[w[i - 1]], w[i] - map[w[i - 1]]>>
        BY <1>1, <1>2, <2>2, <3>1, ChainFacts
      <4> QED
        BY <4>1, <4>2
    <3>3. map[way[i - 1]] \in Int /\ way[i] \in Int /\ w[i] \in Int
      <4>1. way[i - 1] \in DOMAIN map
        BY <1>1, <3>1
      <4> QED
        BY <1>3, <2>1, <4>1
    <3>4. /\ map[way[i - 1]] = map[w[i - 1]]
          /\ way[i] - map[way[i - 1]] = w[i] - map[w[i - 1]]
      BY <3>2
    <3> QED
      BY <3>3, <3>4
  <2> QED
    BY <2>3, <2>4
<1> QED
  BY <1>1, <1>2, <1>4

\* The nearest entry point is in reach, and there is one at most.
LEMMA NearestOne ==
  ASSUME Args, NEW a \in Addr, NEW e \in Nearest(a)
  PROVE  e \in Addr /\ Nearest(a) = {e}
<1>1. \A f \in Nearest(a) : f \in Addr
  BY ReachBounds DEF Nearest
<1>2. Addr \subseteq Int
  BY PointerWalkAssumption DEF Addr
<1>3. ASSUME NEW f \in Nearest(a), f # e
      PROVE  FALSE
  <2>1. /\ Abs(a - e) < Abs(a - f) \/ (Abs(a - e) = Abs(a - f) /\ e < f)
        /\ Abs(a - f) < Abs(a - e) \/ (Abs(a - f) = Abs(a - e) /\ f < e)
    BY <1>3 DEF Nearest
  <2>2. a \in Int /\ e \in Int /\ f \in Int
    BY <1>1, <1>2
  <2>3. \A i \in Int : Abs(i) \in Int
    BY DEF Abs
  <2>4. Abs(a - e) \in Int /\ Abs(a - f) \in Int
    BY <2>2, <2>3
  <2> QED
    BY <2>1, <2>2, <2>4
<1> QED
  BY <1>1, <1>3

LEMMA AppendNew ==
  ASSUME NEW S, NEW chains \in Seq(S), NEW c \in S, IsInjective(chains),
         c \notin Range(chains)
  PROVE  /\ IsInjective(Append(chains, c))
         /\ Range(Append(chains, c)) = Range(chains) \cup {c}
<1> DEFINE new == Append(chains, c)
           n == Len(chains)
<1>1. /\ n \in Nat /\ DOMAIN chains = 1..n /\ DOMAIN new = 1 .. n + 1
      /\ new[n + 1] = c /\ \A i \in 1..n : new[i] = chains[i]
  OBVIOUS
<1> HIDE DEF new, n
<1>2. \A i \in 1..n : chains[i] # c
  BY <1>1 DEF Range
<1>3. ASSUME NEW i \in 1 .. n + 1, NEW j \in 1 .. n + 1, new[i] = new[j]
      PROVE  i = j
  <2>1. CASE i = n + 1
    BY <1>1, <1>2, <1>3, <2>1
  <2>2. CASE j = n + 1
    BY <1>1, <1>2, <1>3, <2>2
  <2>3. CASE i # n + 1 /\ j # n + 1
    <3>1. i \in 1..n /\ j \in 1..n
      BY <1>1, <2>3
    <3> QED
      BY <1>1, <1>3, <3>1 DEF IsInjective
  <2> QED
    BY <2>1, <2>2, <2>3
<1>4. ASSUME NEW x
      PROVE  x \in Range(new) <=> x \in Range(chains) \/ x = c
  <2>1. x \in Range(new) <=> \E i \in 1 .. n + 1 : x = new[i]
    BY <1>1 DEF Range
  <2>2. x \in Range(chains) <=> \E i \in 1..n : x = chains[i]
    BY <1>1 DEF Range
  <2>3. \A i \in 1 .. n + 1 : i \in 1..n \/ i = n + 1
    BY <1>1
  <2>4. n + 1 \in 1 .. n + 1 /\ 1..n \subseteq 1 .. n + 1
    BY <1>1
  <2> QED
    BY <1>1, <2>1, <2>2, <2>3, <2>4
<1> QED
  BY <1>1, <1>3, <1>4 DEF IsInjective, new

\* A call that begins puts the chains of its way in the result.
LEMMA VisitedAdds ==
  ASSUME Args, NEW a \in Addr, NEW tm \in Seq(Link), NEW way, Stop(way, 1) = a,
         \A e \in Addr : Reverse(Append(tm, <<e, a - e>>)) = ChainOf(way, e),
         NEW chains \in Seq(Seq(Link)), IsInjective(chains),
         \A e \in Addr : ChainOf(way, e) \notin Range(chains)
  PROVE  /\ IsInjective(Visited(chains, a, tm))
         /\ Range(Visited(chains, a, tm)) = Range(chains) \cup ChainsOf(way)
<1>1. CASE Nearest(a) = {}
  BY <1>1 DEF Visited, ChainsOf
<1>2. CASE Nearest(a) # {}
  <2> DEFINE e == CHOOSE e \in Nearest(a) : TRUE
             c == ChainOf(way, e)
  <2>1. e \in Nearest(a)
    BY <1>2
  <2> HIDE DEF e
  <2>2. e \in Addr /\ Nearest(a) = {e}
    BY <2>1, NearestOne
  <2>3. Visited(chains, a, tm) = Append(chains, c) /\ ChainsOf(way) = {c}
    BY <1>2, <2>2, ZenonT(60) DEF Visited, ChainsOf, e
  <2>4. c \in Seq(Link)
    <3>1. <<e, a - e>> \in Link
      BY <2>2, PointerWalkAssumption DEF Addr, Link
    <3> QED
      BY <2>2, <3>1, ReverseWay
  <2>5. c \notin Range(chains)
    BY <2>2
  <2> HIDE DEF c
  <2> QED
    BY <2>3, <2>4, <2>5, AppendNew
<1> QED
  BY <1>1, <1>2

LEMMA ReturnVisits ==
  ASSUME VisitInv, Return
  PROVE  Taken' /\ \A way \in Ways : Awaits(stack, way)' <=> Awaits(stack, way)
<1> DEFINE n == Len(stack)
           r == n - 1
<1>1. n = Len(stack) /\ r = n - 1
  OBVIOUS
<1> HIDE DEF n, r
<1>2. WalkInv
  BY DEF VisitInv
<1>3. /\ n \in Nat \ {0} /\ Len(tmp) = r /\ stack[n].keys = {} /\ ~stack[n].open
      /\ map' = map /\ tmp' = tmp /\ Len(stack') = r
      /\ \A i \in 1..r : stack'[i] = stack[i]
  BY <1>1, <1>2, ReturnStep DEF args
<1>4. Taken'
  <2>1. /\ \A i \in 1..r : tmp[i][1] \notin stack[i].keys
        /\ \A i, j \in 1..r : j = i + 1 => stack[j].addr \notin stack[i].left
    BY <1>1, <1>3 DEF VisitInv, Taken
  <2> QED
    BY <1>3, <2>1 DEF Taken
<1>5. ASSUME NEW way \in Ways, NEW i \in 1..Len(way)
      PROVE  AwaitsAt(stack, way, i)' <=> AwaitsAt(stack, way, i)
  <2>1. i \in Nat \ {0}
    BY <1>2, WayFacts DEF WalkInv
  <2>2. CASE i <= r
    <3>1. /\ stack'[i] = stack[i] /\ i <= Len(stack) /\ i <= Len(stack')
          /\ \A j \in 1 .. i - 1 : stack'[j + 1] = stack[j + 1]
      BY <1>1, <1>3, <2>1, <2>2
    <3> QED
      BY <1>3, <3>1 DEF AwaitsAt, FromMatch
  <2>3. CASE i = n
    BY <1>1, <1>3, <2>1, <2>3 DEF AwaitsAt
  <2>4. CASE i > n
    BY <1>1, <1>3, <2>1, <2>4 DEF AwaitsAt
  <2> QED
    BY <1>1, <1>3, <2>1, <2>2, <2>3, <2>4
<1> QED
  BY <1>4, <1>5 DEF Awaits

LEMMA NextKeyVisits ==
  ASSUME VisitInv, NextKey
  PROVE  Taken' /\ \A way \in Ways : Awaits(stack, way)' <=> Awaits(stack, way)
<1> DEFINE n == Len(stack)
<1>1. n = Len(stack)
  OBVIOUS
<1> HIDE DEF n
<1>2. WalkInv
  BY DEF VisitInv
<1>3. /\ n \in Nat \ {0} /\ ~stack[n].open /\ Len(tmp) = n - 1
      /\ stack[n].addr \in Addr /\ tmp \in Seq(Link) /\ map' = map
  BY <1>1, <1>2, NextKeyStep DEF args
<1>4. PICK k \in stack[n].keys :
        /\ tmp' = Append(tmp, <<k, stack[n].addr - k>>)
        /\ stack' \in Seq(Frames) /\ Len(stack') = n
        /\ \A i \in 1 .. n - 1 : stack'[i] = stack[i]
        /\ stack'[n].addr = stack[n].addr /\ stack'[n].open
        /\ stack'[n].keys = stack[n].keys \ {k}
        /\ stack'[n].left = Pointers(k)
  BY <1>1, <1>2, NextKeyStep
<1>5. Taken'
  <2>1. /\ Len(tmp') = n /\ tmp'[n][1] = k
        /\ \A i \in 1 .. n - 1 : tmp'[i] = tmp[i]
    BY <1>3, <1>4
  <2>2. ASSUME NEW i \in 1..n
        PROVE  tmp'[i][1] \notin stack'[i].keys
    <3>1. CASE i = n
      BY <1>4, <2>1, <3>1
    <3>2. CASE i # n
      <4>1. i \in 1 .. n - 1 /\ i \in 1..Len(tmp)
        BY <1>3, <3>2
      <4> QED
        BY <1>4, <2>1, <4>1 DEF VisitInv, Taken
    <3> QED
      BY <3>1, <3>2
  <2>3. ASSUME NEW i \in 1..n, NEW j \in 1..n, j = i + 1
        PROVE  stack'[j].addr \notin stack'[i].left
    <3>1. stack[j].addr \notin stack[i].left
      BY <1>1, <2>3 DEF VisitInv, Taken
    <3>2. stack'[i] = stack[i] /\ stack'[j].addr = stack[j].addr
      BY <1>3, <1>4, <2>3
    <3> QED
      BY <3>1, <3>2
  <2> QED
    BY <1>4, <2>1, <2>2, <2>3 DEF Taken
<1>6. ASSUME NEW way \in Ways, NEW i \in 1..Len(way)
      PROVE  AwaitsAt(stack, way, i)' <=> AwaitsAt(stack, way, i)
  <2>1. i \in Nat \ {0} /\ FromMatch(way, i) \in DOMAIN map
    BY <1>2, WayFacts DEF WalkInv
  <2>2. CASE i <= n
    <3>1. /\ i <= Len(stack) /\ i <= Len(stack')
          /\ \A j \in 1 .. i - 1 : stack'[j + 1].addr = stack[j + 1].addr
      BY <1>1, <1>3, <1>4, <2>1, <2>2
    <3> DEFINE v == FromMatch(way, i)
    <3>2. /\ map[v] \in stack'[i].keys \/ (stack'[i].open /\ v \in stack'[i].left)
               <=> map[v] \in stack[i].keys \/ (stack[i].open /\ v \in stack[i].left)
      <4>1. CASE i = n
        <5>1. v \in Pointers(k) <=> map[v] = k
          BY <2>1 DEF Pointers
        <5> QED
          BY <1>3, <1>4, <4>1, <5>1
      <4>2. CASE i # n
        BY <1>3, <1>4, <2>1, <2>2, <4>2
      <4> QED
        BY <4>1, <4>2
    <3> QED
      BY <1>3, <3>1, <3>2 DEF AwaitsAt, FromMatch
  <2>3. CASE i > n
    BY <1>1, <1>3, <1>4, <2>1, <2>3 DEF AwaitsAt
  <2> QED
    BY <1>3, <2>1, <2>2, <2>3
<1> QED
  BY <1>5, <1>6 DEF Awaits

LEMMA EndKeyVisits ==
  ASSUME VisitInv, EndKey
  PROVE  Taken' /\ \A way \in Ways : Awaits(stack, way)' <=> Awaits(stack, way)
<1> DEFINE n == Len(stack)
           r == n - 1
<1>1. n = Len(stack) /\ r = n - 1
  OBVIOUS
<1> HIDE DEF n, r
<1>2. WalkInv
  BY DEF VisitInv
<1>3. /\ n \in Nat \ {0} /\ stack[n].left = {} /\ Len(tmp) = n /\ map' = map
      /\ Len(tmp') = r /\ Len(stack') = n
      /\ \A i \in 1..r : tmp'[i] = tmp[i]
      /\ \A i \in 1..n : /\ stack'[i].addr = stack[i].addr
                         /\ stack'[i].keys = stack[i].keys
                         /\ stack'[i].left = stack[i].left
                         /\ i < n => stack'[i] = stack[i]
  BY <1>1, <1>2, EndKeyStep DEF args
<1>4. Taken'
  <2>1. /\ \A i \in 1..n : tmp[i][1] \notin stack[i].keys
        /\ \A i, j \in 1..n : j = i + 1 => stack[j].addr \notin stack[i].left
    BY <1>1, <1>3 DEF VisitInv, Taken
  <2>2. \A i \in 1..r : i \in 1..n
    BY <1>1, <1>3
  <2> QED
    BY <1>3, <2>1, <2>2 DEF Taken
<1>5. ASSUME NEW way \in Ways, NEW i \in 1..Len(way)
      PROVE  AwaitsAt(stack, way, i)' <=> AwaitsAt(stack, way, i)
  <2>1. i \in Nat \ {0}
    BY <1>2, WayFacts DEF WalkInv
  <2>2. CASE i <= n
    <3>1. /\ i <= Len(stack) /\ i <= Len(stack') /\ i \in 1..n
          /\ \A j \in 1 .. i - 1 : stack'[j + 1].addr = stack[j + 1].addr
      BY <1>1, <1>3, <2>1, <2>2
    <3>2. i = n \/ stack'[i] = stack[i]
      BY <1>3, <3>1
    <3> QED
      BY <1>3, <3>1, <3>2 DEF AwaitsAt, FromMatch
  <2>3. CASE i > n
    BY <1>1, <1>3, <2>1, <2>3 DEF AwaitsAt
  <2> QED
    BY <1>3, <2>1, <2>2, <2>3
<1> QED
  BY <1>4, <1>5 DEF Awaits

\* The pointee of a link is in reach of the address the link leads to.
LEMMA LeadsReach ==
  ASSUME Args, NEW l \in Link, NEW a \in Addr, Leads(l, a)
  PROVE  l[1] \in ReachOf(a) /\ l[2] = a - l[1]
<1>1. /\ l[1] \in 0..Top /\ l[2] \in Int /\ a \in 0..Top /\ l[1] + l[2] = a
      /\ -reach[1] <= l[2] /\ l[2] <= reach[2]
      /\ reach[1] \in Nat /\ reach[2] \in Nat /\ Top \in Nat
  BY PointerWalkAssumption DEF Args, Leads, Link, Offsets, Addr
<1> QED
  BY <1>1 DEF ReachOf

(***************************************************************************)
(* The way of the call that Follow begins: from its pointer through those  *)
(* of the calls below it to the match.                                     *)
(***************************************************************************)
WayTo(v) == [i \in 1..Len(stack) |->
                IF i = 1 THEN v ELSE stack[Len(stack) + 2 - i].addr]

LEMMA WayToFacts ==
  ASSUME VisitInv, Follow, NEW n, n = Len(stack), NEW v \in stack[n].left,
         v \in DOMAIN map, map[v] = tmp[n][1], n < depth
  PROVE  /\ WayTo(v) \in Seq(DOMAIN map) /\ Len(WayTo(v)) = n /\ n \in Nat \ {0}
         /\ WayTo(v)[1] = v
         /\ \A i \in 1..n : /\ map[WayTo(v)[i]] = tmp[n + 1 - i][1]
                            /\ Stop(WayTo(v), i + 1) = stack[n + 1 - i].addr
         /\ FromMatch(WayTo(v), n) = v
         /\ \A j \in 1 .. n - 1 : FromMatch(WayTo(v), j) = stack[j + 1].addr
         /\ WayTo(v) \in Ways
<1> DEFINE w == WayTo(v)
<1>1. WalkInv /\ Args
  BY DEF VisitInv, WalkInv
<1>2. /\ n \in Nat \ {0} /\ Len(tmp) = n /\ tmp \in Seq(Link)
      /\ stack \in Seq(Frames)
  BY <1>1, FollowStep
<1>3. /\ w = [i \in 1..n |-> IF i = 1 THEN v ELSE stack[n + 2 - i].addr]
  BY DEF WayTo
<1> HIDE DEF w
<1>4. ASSUME NEW i \in 1..n, i # 1
      PROVE  /\ w[i] = stack[n + 2 - i].addr /\ w[i] \in DOMAIN map
             /\ map[w[i]] = tmp[n + 1 - i][1]
  <2> DEFINE p == n + 1 - i
             q == n + 2 - i
  <2>1. p \in Nat /\ q \in Nat /\ q = p + 1 /\ 0 < p /\ p <= n /\ q <= n
    BY <1>2, <1>4
  <2> HIDE DEF p, q
  <2>2. stack[q].addr \in DOMAIN map /\ map[stack[q].addr] = tmp[p][1]
    BY <1>1, <1>2, <2>1, LinkFacts
  <2>3. w[i] = stack[q].addr
    BY <1>3, <1>4 DEF q
  <2> QED
    BY <2>2, <2>3 DEF p, q
<1>5. w[1] = v
  BY <1>2, <1>3
<1>6. w \in Seq(DOMAIN map) /\ Len(w) = n /\ w \in [1..n -> DOMAIN map]
  <2>1. \A i \in 1..n : w[i] \in DOMAIN map
    BY <1>4, <1>5
  <2>2. w = [i \in 1..n |-> w[i]]
    BY <1>3
  <2>3. w \in [1..n -> DOMAIN map]
    BY <2>1, <2>2
  <2> QED
    BY <1>2, <2>3
<1>7. \A i \in 1..n : map[w[i]] = tmp[n + 1 - i][1]
  <2>1. tmp[n + 1 - 1] = tmp[n]
    BY <1>2
  <2> QED
    BY <1>4, <1>5, <2>1
<1>8. ASSUME NEW i \in 1..n
      PROVE  Stop(w, i + 1) = stack[n + 1 - i].addr
  <2>1. CASE i = n
    <3>1. Stop(w, i + 1) = match /\ n + 1 - i = 1
      BY <1>2, <1>6, <2>1 DEF Stop
    <3> QED
      BY <1>1, <1>2, <3>1, LinkFacts
  <2>2. CASE i # n
    <3>1. i + 1 \in 1..n /\ i + 1 # 1 /\ n + 2 - (i + 1) = n + 1 - i
      BY <1>2, <2>2
    <3>2. Stop(w, i + 1) = w[i + 1]
      BY <1>6, <3>1 DEF Stop
    <3>3. w[i + 1] = stack[n + 2 - (i + 1)].addr
      BY <1>4, <3>1
    <3> QED
      BY <3>1, <3>2, <3>3
  <2> QED
    BY <2>1, <2>2
<1>9. FromMatch(w, n) = v
  <2>1. n + 1 - n = 1
    BY <1>2
  <2> QED
    BY <1>5, <1>6, <2>1 DEF FromMatch
<1>10. ASSUME NEW j \in 1 .. n - 1
       PROVE  FromMatch(w, j) = stack[j + 1].addr
  <2>1. n + 1 - j \in 1..n /\ n + 1 - j # 1 /\ n + 2 - (n + 1 - j) = j + 1
    BY <1>2
  <2> QED
    BY <1>4, <1>6, <2>1 DEF FromMatch
<1>11. w \in Ways
  <2>1. n \in 0 .. MaxLevel - 1
    BY <1>1, <1>2 DEF MaxLevel, Args
  <2>2. ASSUME NEW i \in 1..Len(w)
        PROVE  map[w[i]] \in ReachOf(Stop(w, i + 1))
    <3> DEFINE p == n + 1 - i
    <3>1. p \in 1..n /\ i \in 1..n
      BY <1>2, <1>6
    <3> HIDE DEF p
    <3>2. /\ tmp[p] \in Link /\ stack[p].addr \in Addr
          /\ Leads(tmp[p], stack[p].addr)
      <4>1. p \in 1..Len(tmp) /\ p \in 1..Len(stack)
        BY <1>2, <3>1
      <4>2. stack[p] \in Frames
        BY <1>2, <4>1
      <4> QED
        BY <1>1, <1>2, <4>1, <4>2, LinkFacts DEF Frames
    <3>3. tmp[p][1] \in ReachOf(stack[p].addr)
      BY <1>1, <3>2, LeadsReach
    <3> QED
      BY <1>7, <1>8, <3>1, <3>3 DEF p
  <2> QED
    BY <1>6, <2>1, <2>2 DEF Ways
<1> QED
  BY <1>2, <1>5, <1>6, <1>7, <1>8, <1>9, <1>10, <1>11 DEF w

\* Its chain is the one the walk puts together from the links on the way.
LEMMA WayToChain ==
  ASSUME VisitInv, Follow, NEW n, n = Len(stack), NEW v \in stack[n].left,
         v \in DOMAIN map, map[v] = tmp[n][1], n < depth, v \in Addr,
         NEW e \in Addr
  PROVE  Reverse(Append(tmp, <<e, v - e>>)) = ChainOf(WayTo(v), e)
<1>w. PICK w : w = WayTo(v)
  OBVIOUS
<1>1. WalkInv /\ Args
  BY DEF VisitInv, WalkInv
<1>2. /\ n \in Nat \ {0} /\ Len(tmp) = n /\ tmp \in Seq(Link)
      /\ stack \in Seq(Frames)
  BY <1>1, FollowStep
<1>3. /\ w \in Seq(DOMAIN map) /\ Len(w) = n /\ w[1] = v
      /\ \A i \in 1..n : /\ map[w[i]] = tmp[n + 1 - i][1]
                         /\ Stop(w, i + 1) = stack[n + 1 - i].addr
  <2>1. w \in Seq(DOMAIN map) /\ Len(w) = n /\ w[1] = v
    BY <1>w, WayToFacts
  <2>2. \A i \in 1..n : map[WayTo(v)[i]] = tmp[n + 1 - i][1]
    BY WayToFacts
  <2>3. ASSUME NEW i \in 1..n
        PROVE  Stop(WayTo(v), i + 1) = stack[n + 1 - i].addr
    BY WayToFacts, ZenonT(60)
  <2> QED
    BY <1>w, <2>1, <2>2, <2>3
<1> DEFINE l == <<e, v - e>>
           c == Reverse(Append(tmp, l))
<1>4. l \in Link
  BY PointerWalkAssumption DEF Addr, Link
<1> HIDE DEF l
<1>5. /\ c \in Seq(Link) /\ Len(c) = n + 1 /\ c[1] = l
      /\ \A i \in 2 .. n + 1 : c[i] = tmp[n + 2 - i]
  <2>1. /\ c \in Seq(Link) /\ Len(c) = Len(tmp) + 1 /\ c[1] = l
        /\ \A i \in 2..Len(c) : c[i] = tmp[Len(tmp) + 2 - i]
    BY <1>2, <1>4, ReverseWay
  <2> QED
    BY <1>2, <2>1
<1> HIDE DEF c
<1>6. /\ ChainOf(w, e) = [i \in 1 .. n + 1 |-> ChainOf(w, e)[i]]
      /\ ChainOf(w, e)[1] = <<e, Stop(w, 1) - e>>
      /\ \A i \in 2 .. n + 1 :
            ChainOf(w, e)[i] = <<map[w[i - 1]], Stop(w, i) - map[w[i - 1]]>>
  <2>1. n \in Nat /\ w \in Seq(DOMAIN map) /\ Len(w) = n
    BY <1>2, <1>3
  <2> QED
    BY <2>1, ChainFacts
<1>7. ASSUME NEW i \in 1 .. n + 1
      PROVE  c[i] = ChainOf(w, e)[i]
  <2>1. CASE i = 1
    <3>1. Stop(w, 1) = v
      BY <1>2, <1>3 DEF Stop
    <3> QED
      BY <1>5, <1>6, <2>1, <3>1 DEF l
  <2>2. CASE i # 1
    <3> DEFINE k == i - 1
               p == n + 1 - k
    <3>1. i \in 2 .. n + 1 /\ k \in 1..n /\ k + 1 = i /\ p = n + 2 - i /\ p \in 1..n
      BY <1>2, <2>2
    <3>2. c[i] = tmp[p]
      BY <1>5, <3>1
    <3>3. map[w[k]] = tmp[p][1] /\ Stop(w, i) = stack[p].addr
      BY <1>3, <3>1
    <3>4. ChainOf(w, e)[i] = <<tmp[p][1], stack[p].addr - tmp[p][1]>>
      BY <1>6, <3>1, <3>3
    <3> HIDE DEF k, p
    <3>5. tmp[p] \in Link /\ stack[p].addr \in Addr /\ Leads(tmp[p], stack[p].addr)
      <4>1. p \in 1..Len(tmp) /\ p \in 1..Len(stack)
        BY <1>2, <3>1
      <4>2. stack[p] \in Frames
        BY <1>2, <4>1
      <4> QED
        BY <1>1, <1>2, <4>1, <4>2, LinkFacts DEF Frames
    <3>6. tmp[p] = <<tmp[p][1], stack[p].addr - tmp[p][1]>>
      BY <1>1, <3>5, LeadsReach DEF Link
    <3> QED
      BY <3>2, <3>4, <3>6
  <2> QED
    BY <2>1, <2>2
<1>8. c = [i \in 1 .. n + 1 |-> c[i]]
  BY <1>2, <1>5
<1>9. [i \in 1 .. n + 1 |-> c[i]] = [i \in 1 .. n + 1 |-> ChainOf(w, e)[i]]
  BY <1>7
<1> QED
  BY <1>w, <1>6, <1>8, <1>9 DEF c, l

\* Follow takes this way, and no other, from those that are awaited.
LEMMA FollowAwaits ==
  ASSUME VisitInv, Follow
  PROVE  \E v \in Addr :
         \E w \in Ways :
            /\ out' = Visited(out, v, tmp)
            /\ Stop(w, 1) = v
            /\ \A e \in Addr : Reverse(Append(tmp, <<e, v - e>>)) = ChainOf(w, e)
            /\ Awaits(stack, w) /\ Taken'
            /\ \A way \in Ways :
                  Awaits(stack, way)' <=> (Awaits(stack, way) /\ way # w)
<1>0. PICK n : n = Len(stack)
  OBVIOUS
<1>r. PICK r : r = n + 1
  OBVIOUS
<1>1. n = Len(stack) /\ r = n + 1
  BY <1>0, <1>r
<1>2. WalkInv /\ Args
  BY DEF VisitInv, WalkInv
<1>3. /\ n \in Nat \ {0} /\ stack[n].open /\ Len(tmp) = n
      /\ tmp' = tmp /\ UNCHANGED args /\ map' = map
  BY <1>1, <1>2, FollowStep DEF args
<1>4. PICK v \in stack[n].left :
        /\ out' = Visited(out, v, tmp)
        /\ v \in Addr /\ v \in DOMAIN map /\ map[v] = tmp[n][1] /\ n < depth
        /\ stack' \in Seq(Frames) /\ Len(stack') = r
        /\ stack'[r] = Frame(v, r)
        /\ \A i \in 1 .. n - 1 : stack'[i] = stack[i]
        /\ stack'[n].addr = stack[n].addr /\ stack'[n].open
        /\ stack'[n].keys = stack[n].keys
        /\ stack'[n].left = stack[n].left \ {v}
  BY <1>1, <1>2, FollowStep, SMTT(40)
<1>w. PICK w : w = WayTo(v)
  OBVIOUS
<1>5. /\ w \in Seq(DOMAIN map) /\ Len(w) = n /\ w[1] = v
      /\ FromMatch(w, n) = v
      /\ \A j \in 1 .. n - 1 : FromMatch(w, j) = stack[j + 1].addr
      /\ w \in Ways
  BY <1>1, <1>4, <1>w, WayToFacts
<1>6. \A e \in Addr : Reverse(Append(tmp, <<e, v - e>>)) = ChainOf(w, e)
  BY <1>1, <1>4, <1>w, WayToChain
<1>7. Stop(w, 1) = v
  BY <1>3, <1>5 DEF Stop
<1>8. Frame(v, r).addr = v /\ ~Frame(v, r).open
  BY <1>2, <1>3, <1>1, <1>4, FrameType
<1>9. \A i \in 1..r : stack'[i].addr = IF i = r THEN v ELSE stack[i].addr
  BY <1>1, <1>3, <1>4, <1>8
<1>10. AwaitsAt(stack, w, n)
  BY <1>1, <1>3, <1>4, <1>5 DEF AwaitsAt
<1>11. Taken'
  <2>1. \A i \in 1..n : tmp[i][1] \notin stack[i].keys /\ stack'[i].keys = stack[i].keys
    BY <1>1, <1>3, <1>4 DEF VisitInv, Taken
  <2>2. ASSUME NEW i \in 1..r, NEW j \in 1..r, j = i + 1
        PROVE  stack'[j].addr \notin stack'[i].left
    <3>1. CASE j = r
      BY <1>1, <1>3, <1>4, <1>8, <2>2, <3>1
    <3>2. CASE j # r
      <4>1. i \in 1 .. n - 1 /\ j \in 1..n
        BY <1>1, <1>3, <2>2, <3>2
      <4>2. stack[j].addr \notin stack[i].left
        BY <1>1, <1>3, <2>2, <4>1 DEF VisitInv, Taken
      <4> QED
        BY <1>4, <1>9, <3>2, <4>1, <4>2
    <3> QED
      BY <3>1, <3>2
  <2> QED
    BY <1>3, <1>4, <2>1, <2>2 DEF Taken
<1>12. ASSUME NEW i \in 1..n
       PROVE  ~AwaitsAt(stack, w, i)'
  <2>1. \/ map[FromMatch(w, i)] \in stack'[i].keys
        \/ FromMatch(w, i) \in stack'[i].left
        => FALSE
    <3>1. CASE i = n
      BY <1>1, <1>3, <1>4, <1>5, <3>1 DEF VisitInv, Taken
    <3>2. CASE i # n
      <4>1. /\ i \in 1 .. n - 1 /\ FromMatch(w, i) = stack[i + 1].addr
            /\ i + 1 \in 1..n /\ i \in 1..Len(tmp)
        BY <1>3, <1>5, <3>2
      <4>2. map[stack[i + 1].addr] = tmp[i][1]
        BY <1>1, <1>2, <1>3, <4>1, LinkFacts
      <4> QED
        BY <1>1, <1>4, <4>1, <4>2 DEF VisitInv, Taken
    <3> QED
      BY <3>1, <3>2
  <2> QED
    BY <1>3, <1>5, <2>1 DEF AwaitsAt, FromMatch
<1>13. ASSUME NEW way \in Ways, way # w
       PROVE  Awaits(stack, way)' <=> Awaits(stack, way)
  <2>0. PICK len : len = Len(way)
    OBVIOUS
  <2>1. /\ len \in Nat /\ way \in Seq(DOMAIN map) /\ (len = 0 \/ len < depth)
        /\ \A i \in 1..len :
              /\ FromMatch(way, i) \in DOMAIN map
              /\ map[FromMatch(way, i)] \in
                    ReachOf(IF i = 1 THEN match ELSE FromMatch(way, i - 1))
    BY <1>2, <2>0, WayFacts DEF WalkInv
  <2>2. ASSUME NEW i \in 1..len, i < n
        PROVE  AwaitsAt(stack, way, i)' <=> AwaitsAt(stack, way, i)
    <3>1. /\ i \in 1 .. n - 1 /\ stack'[i] = stack[i]
          /\ i <= Len(stack) /\ i <= Len(stack')
          /\ \A j \in 1 .. i - 1 : stack'[j + 1] = stack[j + 1]
      BY <2>0, <1>1, <1>3, <1>4, <2>1, <2>2
    <3> QED
      BY <2>0, <1>3, <3>1 DEF AwaitsAt, FromMatch
  <2>3. ASSUME AwaitsAt(stack, way, n)'
        PROVE  AwaitsAt(stack, way, n)
    <3>1. \A j \in 1 .. n - 1 : stack'[j + 1].addr = stack[j + 1].addr
      BY <1>1, <1>3, <1>9
    <3> QED
      BY <2>0, <1>1, <1>3, <1>4, <2>3, <3>1 DEF AwaitsAt, FromMatch
  <2>4. ASSUME AwaitsAt(stack, way, r)'
        PROVE  AwaitsAt(stack, way, n)
    <3>1. /\ r \in 1..len /\ n \in 1..len
          /\ \A j \in 1..n : FromMatch(way, j) = stack'[j + 1].addr
      BY <2>0, <1>1, <1>3, <2>1, <2>4 DEF AwaitsAt, FromMatch
    <3>2. FromMatch(way, n) = v /\ \A j \in 1 .. n - 1 : FromMatch(way, j) = stack[j + 1].addr
      BY <1>1, <1>3, <1>9, <3>1
    <3> QED
      BY <2>0, <1>1, <1>3, <1>4, <3>1, <3>2 DEF AwaitsAt
  <2>5. ASSUME AwaitsAt(stack, way, n)
        PROVE  AwaitsAt(stack, way, n)' \/ AwaitsAt(stack, way, r)'
    <3>1. /\ n \in 1..len
          /\ \A j \in 1 .. n - 1 : FromMatch(way, j) = stack[j + 1].addr
          /\ \/ map[FromMatch(way, n)] \in stack[n].keys
             \/ FromMatch(way, n) \in stack[n].left
      BY <2>0, <2>5 DEF AwaitsAt
    <3>2. \A j \in 1 .. n - 1 : FromMatch(way, j) = stack'[j + 1].addr
      BY <1>1, <1>3, <1>9, <3>1
    <3>3. CASE \/ map[FromMatch(way, n)] \in stack[n].keys
               \/ FromMatch(way, n) # v
      BY <2>0, <1>1, <1>3, <1>4, <3>1, <3>2, <3>3 DEF AwaitsAt, FromMatch
    <3>4. CASE FromMatch(way, n) = v
      <4>1. len # n
        <5>1. ASSUME len = n
              PROVE  way = w
          <6>1. ASSUME NEW i \in 1..n
                PROVE  way[i] = w[i]
            <7> DEFINE j == n + 1 - i
            <7>1. j \in 1..n /\ n + 1 - j = i
              BY <1>3
            <7> HIDE DEF j
            <7>2. FromMatch(way, j) = way[i] /\ FromMatch(w, j) = w[i]
              BY <2>0, <1>5, <5>1, <7>1 DEF FromMatch
            <7>3. j = n \/ j \in 1 .. n - 1
              BY <1>3, <7>1
            <7> QED
              BY <1>5, <3>1, <3>4, <7>2, <7>3
          <6>2. /\ way = [i \in 1..n |-> way[i]]
                /\ w = [i \in 1..n |-> w[i]]
            <7>1. way \in Seq(DOMAIN map) /\ Len(way) = n
              BY <2>0, <2>1, <5>1
            <7>2. w \in Seq(DOMAIN map) /\ Len(w) = n
              BY <1>5
            <7> QED
              BY <1>3, <7>1, <7>2
          <6>3. [i \in 1..n |-> way[i]] = [i \in 1..n |-> w[i]]
            BY <6>1
          <6> QED
            BY <6>2, <6>3
        <5> QED
          BY <1>13, <5>1
      <4>2. r \in 1..len /\ r < depth /\ r # 1 /\ r - 1 = n
        <5>1. depth \in Nat
          BY <1>2 DEF Args
        <5> QED
          BY <1>1, <1>3, <2>1, <3>1, <4>1, <5>1
      <4>3. /\ map[FromMatch(way, r)] \in ReachOf(v)
            /\ map[FromMatch(way, r)] \in Pointees
        BY <2>0, <2>1, <3>4, <4>2 DEF Pointees, Range
      <4>4. map[FromMatch(way, r)] \in stack'[r].keys
        BY <2>0, <1>4, <4>2, <4>3 DEF Frame
      <4>5. \A j \in 1..n : FromMatch(way, j) = stack'[j + 1].addr
        <5>1. stack'[n + 1].addr = v
          BY <1>1, <1>4, <1>8
        <5>2. \A j \in 1..n : j = n \/ j \in 1 .. n - 1
          BY <1>3
        <5> QED
          BY <3>2, <3>4, <5>1, <5>2
      <4>6. r <= Len(stack') /\ r - 1 = n
        BY <1>1, <1>3, <1>4
      <4> QED
        BY <2>0, <1>3, <4>2, <4>4, <4>5, <4>6 DEF AwaitsAt, FromMatch
    <3> QED
      BY <3>3, <3>4
  <2>6. \A i \in 1..len : /\ AwaitsAt(stack, way, i)' => i <= r
                          /\ AwaitsAt(stack, way, i) => i <= n
    BY <2>0, <1>1, <1>4 DEF AwaitsAt
  <2>7. \A i \in 1..len : i <= r => i < n \/ i = n \/ i = r
    BY <2>0, <1>1, <1>3, <2>1
  <2>8. /\ AwaitsAt(stack, way, n) => n \in 1..len
        /\ AwaitsAt(stack, way, n)' => n \in 1..len
        /\ AwaitsAt(stack, way, r)' => r \in 1..len
    BY <2>0 DEF AwaitsAt
  <2>9. Awaits(stack, way)' => Awaits(stack, way)
    <3> SUFFICES ASSUME NEW i \in 1..len, AwaitsAt(stack, way, i)'
                 PROVE  Awaits(stack, way)
      BY <2>0 DEF Awaits
    <3>1. i < n \/ i = n \/ i = r
      BY <2>6, <2>7
    <3> QED
      BY <2>0, <2>2, <2>3, <2>4, <2>8, <3>1 DEF Awaits
  <2>10. Awaits(stack, way) => Awaits(stack, way)'
    <3> SUFFICES ASSUME NEW i \in 1..len, AwaitsAt(stack, way, i)
                 PROVE  Awaits(stack, way)'
      BY <2>0 DEF Awaits
    <3>1. i < n \/ i = n
      BY <1>1, <1>3, <2>6, <2>7
    <3> QED
      BY <2>0, <2>2, <2>5, <2>8, <3>1 DEF Awaits
  <2> QED
    BY <2>0, <2>9, <2>10
<1>14. ~Awaits(stack, w)' /\ Awaits(stack, w)
  BY <1>5, <1>3, <1>10, <1>12 DEF Awaits
<1> QED
  BY <1>4, <1>5, <1>6, <1>7, <1>11, <1>13, <1>14

\* What the ways are and which chain belongs to one hangs on the arguments.
LEMMA ArgsKeep ==
  ASSUME UNCHANGED args
  PROVE  Ways' = Ways /\ \A way : ChainsOf(way)' = ChainsOf(way)
<1>1. /\ map' = map /\ starts' = starts /\ reach' = reach /\ depth' = depth
      /\ match' = match
  BY DEF args
<1>2. Ways' = Ways
  BY <1>1 DEF Ways, MaxLevel, Stop, ReachOf
<1>3. ASSUME NEW way
      PROVE  ChainsOf(way)' = ChainsOf(way)
  BY <1>1 DEF ChainsOf, ChainOf, Nearest, ReachOf, Stop
<1> QED
  BY <1>2, <1>3

LEMMA VisitsMeans ==
  Visits <=> \A c : c \in Range(out) <=>
                       \E way \in Ways : ~Awaits(stack, way) /\ c \in ChainsOf(way)
BY DEF Visits

LEMMA FollowVisits ==
  ASSUME VisitInv, Follow
  PROVE  Taken' /\ Visits' /\ IsInjective(out')
<1>1. WalkInv /\ Args
  BY DEF VisitInv, WalkInv
<1>2. PICK v \in Addr : \E w \in Ways :
        /\ out' = Visited(out, v, tmp)
        /\ Stop(w, 1) = v
        /\ \A e \in Addr : Reverse(Append(tmp, <<e, v - e>>)) = ChainOf(w, e)
        /\ Awaits(stack, w) /\ Taken'
        /\ \A way \in Ways :
              Awaits(stack, way)' <=> (Awaits(stack, way) /\ way # w)
  BY FollowAwaits
<1>3. PICK w \in Ways :
        /\ out' = Visited(out, v, tmp)
        /\ Stop(w, 1) = v
        /\ \A e \in Addr : Reverse(Append(tmp, <<e, v - e>>)) = ChainOf(w, e)
        /\ Awaits(stack, w) /\ Taken'
        /\ \A way \in Ways :
              Awaits(stack, way)' <=> (Awaits(stack, way) /\ way # w)
  BY <1>2
<1>4. \A c : c \in Range(out) <=>
                \E way \in Ways : ~Awaits(stack, way) /\ c \in ChainsOf(way)
  BY VisitsMeans DEF VisitInv
<1>5. ASSUME NEW e \in Addr
      PROVE  ChainOf(w, e) \notin Range(out)
  <2> SUFFICES ASSUME NEW way \in Ways, ~Awaits(stack, way),
                      ChainOf(w, e) \in ChainsOf(way)
               PROVE  FALSE
    BY <1>4
  <2>1. PICK f \in Nearest(Stop(way, 1)) : ChainOf(w, e) = ChainOf(way, f)
    BY DEF ChainsOf
  <2>2. Stop(way, 1) \in Addr
    <3>1. way \in Seq(DOMAIN map) /\ DOMAIN map \subseteq Addr /\ match \in Addr
      BY <1>1, WayFacts DEF Args
    <3> QED
      BY <3>1 DEF Stop
  <2>3. f \in Addr
    BY <1>1, <2>1, <2>2, NearestOne
  <2>4. way = w
    BY <1>1, <2>1, <2>3, ChainTells
  <2> QED
    BY <1>3, <2>4
<1>6. /\ IsInjective(out')
      /\ Range(out') = Range(out) \cup ChainsOf(w)
  <2>1. out \in Seq(Seq(Link)) /\ tmp \in Seq(Link) /\ IsInjective(out)
    BY <1>1 DEF WalkInv, VisitInv
  <2> QED
    BY <1>1, <1>3, <1>5, <2>1, VisitedAdds
<1>7. Ways' = Ways /\ \A way : ChainsOf(way)' = ChainsOf(way)
  BY ArgsKeep DEF Follow
<1>8. ASSUME NEW c
      PROVE  c \in Range(out)' <=>
               \E way \in Ways' : ~Awaits(stack, way)' /\ c \in ChainsOf(way)'
  <2>1. c \in Range(out') <=> c \in Range(out) \/ c \in ChainsOf(w)
    BY <1>6
  <2>2. c \in Range(out) <=>
          \E way \in Ways : ~Awaits(stack, way) /\ c \in ChainsOf(way)
    BY <1>4
  <2>3. \A way \in Ways : ~Awaits(stack, way)' <=> (~Awaits(stack, way) \/ way = w)
    BY <1>3
  <2>4. w \in Ways
    OBVIOUS
  <2>5. (\E way \in Ways' : ~Awaits(stack, way)' /\ c \in ChainsOf(way)')
          <=> \E way \in Ways : (~Awaits(stack, way) \/ way = w) /\ c \in ChainsOf(way)
    BY <1>7, <2>3
  <2>6. Range(out)' = Range(out')
    BY DEF Range
  <2> QED
    BY <2>1, <2>2, <2>4, <2>5, <2>6
<1>9. Visits'
  BY <1>8 DEF Visits
<1> QED
  BY <1>3, <1>6, <1>9

\* The other steps report nothing and change no way's state.
LEMMA KeepsVisits ==
  ASSUME VisitInv, UNCHANGED args, out' = out,
         \A way \in Ways : Awaits(stack, way)' <=> Awaits(stack, way)
  PROVE  Visits' /\ IsInjective(out')
<1>1. Ways' = Ways /\ \A way : ChainsOf(way)' = ChainsOf(way)
  BY ArgsKeep
<1>2. \A c : c \in Range(out) <=>
                \E way \in Ways : ~Awaits(stack, way) /\ c \in ChainsOf(way)
  BY VisitsMeans DEF VisitInv
<1>3. ASSUME NEW c
      PROVE  c \in Range(out)' <=>
               \E way \in Ways' : ~Awaits(stack, way)' /\ c \in ChainsOf(way)'
  <2>1. Range(out)' = Range(out)
    BY DEF Range
  <2>2. (\E way \in Ways' : ~Awaits(stack, way)' /\ c \in ChainsOf(way)')
          <=> \E way \in Ways : ~Awaits(stack, way) /\ c \in ChainsOf(way)
    BY <1>1
  <2> QED
    BY <1>2, <2>1, <2>2
<1>4. Visits'
  BY <1>3 DEF Visits
<1> QED
  BY <1>4 DEF VisitInv

LEMMA VisitNext == VisitInv /\ [Next]_vars => VisitInv'
<1> SUFFICES ASSUME VisitInv, [Next]_vars PROVE VisitInv'
  OBVIOUS
<1>1. WalkInv'
  BY WalkNext DEF VisitInv
<1>2. CASE Follow
  BY <1>1, <1>2, FollowVisits DEF VisitInv
<1>3. ASSUME NextKey \/ EndKey \/ Return
      PROVE  VisitInv'
  <2>1. Taken' /\ \A way \in Ways : Awaits(stack, way)' <=> Awaits(stack, way)
    BY <1>3, NextKeyVisits, EndKeyVisits, ReturnVisits
  <2>2. UNCHANGED args /\ out' = out
    BY <1>3 DEF NextKey, EndKey, Return
  <2>3. Visits' /\ IsInjective(out')
    BY <2>1, <2>2, KeepsVisits
  <2> QED
    BY <1>1, <2>1, <2>3 DEF VisitInv
<1>4. CASE UNCHANGED vars
  <2>1. /\ map' = map /\ stack' = stack /\ tmp' = tmp /\ out' = out
        /\ UNCHANGED args
    BY <1>4 DEF vars, args
  <2>2. Taken'
    BY <2>1 DEF VisitInv, Taken
  <2>3. \A way \in Ways : Awaits(stack, way)' <=> Awaits(stack, way)
    BY <2>1 DEF Awaits, AwaitsAt, FromMatch
  <2>4. Visits' /\ IsInjective(out')
    BY <2>1, <2>3, KeepsVisits
  <2> QED
    BY <1>1, <2>2, <2>4 DEF VisitInv
<1> QED
  BY <1>2, <1>3, <1>4 DEF Next

\* At the start the empty way, that of the match, is the only one not awaited.
LEMMA VisitInit == Init => VisitInv
<1> SUFFICES ASSUME Init PROVE VisitInv
  OBVIOUS
<1>1. WalkInv /\ Args
  BY WalkInit DEF WalkInv
<1>2. /\ stack = <<Frame(match, 1)>> /\ tmp = <<>>
      /\ out = Visited(<<>>, match, <<>>)
  BY DEF Init
<1>3. Taken
  BY <1>2 DEF Taken
<1> DEFINE none == <<>>
<1>4. none \in Ways /\ Len(none) = 0 /\ Stop(none, 1) = match
  <2>1. 0 \in 0 .. MaxLevel - 1
    BY <1>1 DEF MaxLevel, Args
  <2>2. none \in [1..0 -> DOMAIN map]
    OBVIOUS
  <2> QED
    BY <2>1, <2>2 DEF Ways, Stop
<1>5. ASSUME NEW way \in Ways
      PROVE  ~Awaits(stack, way) <=> way = none
  <2>1. /\ way \in Seq(DOMAIN map) /\ Len(way) \in Nat
        /\ Len(way) = 0 \/ Len(way) < depth
        /\ \A i \in 1..Len(way) :
              /\ FromMatch(way, i) \in DOMAIN map
              /\ map[FromMatch(way, i)] \in
                    ReachOf(IF i = 1 THEN match ELSE FromMatch(way, i - 1))
    BY <1>1, WayFacts
  <2>2. CASE Len(way) = 0
    BY <2>1, <2>2 DEF Awaits
  <2>3. CASE Len(way) # 0
    <3>1. 1 \in 1..Len(way) /\ 1 < depth
      BY <1>1, <2>1, <2>3 DEF Args
    <3>2. map[FromMatch(way, 1)] \in ReachOf(match) \cap Pointees
      BY <2>1, <3>1 DEF Pointees, Range
    <3>3. map[FromMatch(way, 1)] \in stack[1].keys /\ Len(stack) = 1
      BY <1>2, <3>1, <3>2 DEF Frame
    <3>4. AwaitsAt(stack, way, 1)
      BY <3>1, <3>3 DEF AwaitsAt
    <3> QED
      BY <1>4, <2>3, <3>1, <3>4 DEF Awaits
  <2> QED
    BY <2>2, <2>3
<1>6. \A e \in Addr : Reverse(Append(none, <<e, match - e>>)) = ChainOf(none, e)
  <2> SUFFICES ASSUME NEW e \in Addr
               PROVE  Reverse(Append(none, <<e, match - e>>)) = ChainOf(none, e)
    OBVIOUS
  <2> DEFINE l == <<e, match - e>>
             c == Reverse(Append(none, l))
  <2>1. l \in Link /\ none \in Seq(Link)
    BY <1>1, PointerWalkAssumption DEF Args, Addr, Link
  <2> HIDE DEF l
  <2>2. c \in Seq(Link) /\ Len(c) = 1 /\ c[1] = l
    <3>1. c \in Seq(Link) /\ Len(c) = Len(none) + 1 /\ c[1] = l
      BY <2>1, ReverseWay
    <3> QED
      BY <3>1
  <2> HIDE DEF c
  <2>3. c = [i \in 1..1 |-> c[i]]
    BY <2>2
  <2>4. ChainOf(none, e) = [i \in 1..1 |-> l]
    BY <1>4 DEF ChainOf, l
  <2> QED
    BY <2>2, <2>3, <2>4 DEF c, l
<1>7. /\ IsInjective(out)
      /\ Range(out) = ChainsOf(none)
  <2>1. /\ none \in Seq(Link) /\ none \in Seq(Seq(Link)) /\ match \in Addr
        /\ IsInjective(none) /\ Range(none) = {}
    BY <1>1 DEF Args, IsInjective, Range
  <2> HIDE DEF none
  <2>3. \A e \in Addr : ChainOf(none, e) \notin Range(none)
    BY <2>1
  <2>4. Stop(none, 1) = match
    BY <1>4
  <2>5. PICK way, tm, chains : way = none /\ tm = none /\ chains = none
    OBVIOUS
  <2>6. /\ tm \in Seq(Link) /\ chains \in Seq(Seq(Link)) /\ Stop(way, 1) = match
        /\ IsInjective(chains)
        /\ \A e \in Addr : Reverse(Append(tm, <<e, match - e>>)) = ChainOf(way, e)
        /\ \A e \in Addr : ChainOf(way, e) \notin Range(chains)
    BY <1>6, <2>1, <2>3, <2>4, <2>5
  <2>2. /\ IsInjective(Visited(chains, match, tm))
        /\ Range(Visited(chains, match, tm)) = Range(chains) \cup ChainsOf(way)
    BY <1>1, <2>1, <2>6, VisitedAdds
  <2> QED
    BY <1>2, <2>1, <2>2, <2>5 DEF none
<1>8. Visits
  BY <1>4, <1>5, <1>7 DEF Visits
<1> QED
  BY <1>1, <1>3, <1>7, <1>8 DEF VisitInv

LEMMA VisitIsInvariant == Spec => []VisitInv
BY VisitInit, VisitNext, PTL DEF Spec

-----------------------------------------------------------------------------
(***************************************************************************)
(* The theorems.                                                           *)
(***************************************************************************)
\* Every chain the walk has reported leads whoever follows it to the match
\* (walk_down_range, pointer_map.rs:173-178, 195-217).
THEOREM WalkChainsResolve == Spec => []ChainsResolve
<1>1. WalkInv => ChainsResolve
  BY OutGood DEF ChainsResolve, Good
<1> QED
  BY <1>1, WalkIsInvariant, PTL

\* Every chain starts at an entry point, has at most max_depth links and no
\* offset outside the bounds the caller gave (pointer_map.rs:147-157, 182).
THEOREM WalkWithinBounds == Spec => []WithinBounds
<1>1. WalkInv => WithinBounds
  <2> SUFFICES ASSUME WalkInv, NEW c \in Range(out)
               PROVE  /\ c[1][1] \in starts
                      /\ Len(c) <= MaxLevel
                      /\ \A i \in 1..Len(c) : c[i][2] \in -reach[1] .. reach[2]
    BY DEF WithinBounds
  <2>1. Good(c)
    BY OutGood
  <2> QED
    BY <2>1 DEF Good, Offsets
<1> QED
  BY <1>1, WalkIsInvariant, PTL

\* When the walk is done there is exactly one chain in its result for each way
\* that has an entry point in reach, whatever cycles the pointers form: no way
\* is left out and none is reported twice (walk_down_range,
\* pointer_map.rs:159-222).
THEOREM WalkFindsAllChains == Spec => []AllChains
<1>1. VisitInv => AllChains
  <2> SUFFICES ASSUME VisitInv, stack = <<>>
               PROVE  /\ IsInjective(out)
                      /\ Range(out) = UNION {{ChainOf(way, e) :
                              e \in Nearest(Stop(way, 1))} : way \in Ways}
    BY DEF AllChains
  <2>1. \A way : ~Awaits(stack, way)
    BY DEF Awaits, AwaitsAt
  <2> QED
    BY <2>1 DEF VisitInv, Visits, ChainsOf
<1> QED
  BY <1>1, VisitIsInvariant, PTL

=============================================================================
