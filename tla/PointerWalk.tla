---------------------------- MODULE PointerWalk -----------------------------
(***************************************************************************)
(* pointer_map::walk_down_range: the pointer chains that lead from an      *)
(* entry point to one match.  It goes backwards from the match: from an    *)
(* address to the pointees in reach of it, from a pointee to the pointers  *)
(* that hold it, and so on, up to a number of levels; on each level the    *)
(* nearest entry point in reach yields a chain.                            *)
(*                                                                         *)
(* The recursion is a stack of frames, one per call that has not returned. *)
(* find_matches_addrs walks for every match of the session in parallel;    *)
(* the walks share only what they read, and the results are put one after  *)
(* the other.                                                              *)
(***************************************************************************)
EXTENDS Integers, Sequences, FiniteSets, Functions, SequencesExt

CONSTANTS
    Top,            \* the last address, 2^64 - 1
    Maps,           \* the pointer maps, from pointers to what they point to
    Entries,        \* the sets of globals that may be entry points
    Reaches,        \* the pairs <<lrange, urange>> callers pass
    Depths          \* the max_depth callers pass

Addr == 0..Top

ASSUME PointerWalkAssumption ==
    /\ Top \in Nat
    /\ Maps \subseteq UNION {[D -> Addr] : D \in SUBSET Addr}
    /\ Entries \subseteq SUBSET Addr
    /\ Reaches \subseteq Nat \X Nat
    /\ Depths \subseteq Nat

VARIABLES
    map,            \* the pointer map
    starts,         \* the entry points
    reach,          \* <<lrange, urange>>
    depth,          \* max_depth
    match,          \* the match the chains shall lead to
    stack,          \* the calls that have not returned, the deepest one last
    tmp,            \* the pointees on the way and the offsets from them
    out             \* the chains found

args == <<map, starts, reach, depth, match>>
vars == <<args, stack, tmp, out>>

-----------------------------------------------------------------------------
\* Faulty variant: the two ends are mixed up.
ReachSwapped(a) ==
    (IF a >= reach[1] THEN a - reach[1] ELSE 0)
      .. (IF a + reach[2] <= Top THEN a + reach[2] ELSE Top)

(***************************************************************************)
(* The addresses a pointer to which can lead to a: up to urange before it  *)
(* and lrange after it, cut at both ends of the address space.             *)
(***************************************************************************)
ReachOf(a) ==
    (IF a >= reach[2] THEN a - reach[2] ELSE 0)
      .. (IF a + reach[1] <= Top THEN a + reach[1] ELSE Top)

Abs(i) == IF i < 0 THEN -i ELSE i

\* The entry point nearest to a, if one is in reach of it; of two that are as
\* near as each other the one before a.
Nearest(a) ==
    LET near == starts \cap ReachOf(a)
    IN  {e \in near : \A f \in near \ {e} :
            \/ Abs(a - e) < Abs(a - f)
            \/ Abs(a - e) = Abs(a - f) /\ e < f}

\* Faulty variant: a pointee keeps one of the pointers to it only.
PointersOverwritten(k) ==
    {v \in DOMAIN map : map[v] = k /\ \A w \in DOMAIN map : map[w] = k => w <= v}

\* inverse_map: the pointers that hold k; they are followed in ascending order.
Pointers(k) == {v \in DOMAIN map : map[v] = k}

Pointees == Range(map)

\* A call for address a: the pointees it has still to go through, whether it
\* is at one now, and the pointers to that one it has still to follow.
Frame(a, level) ==
    [addr |-> a,
     keys |-> IF level < depth THEN Pointees \cap ReachOf(a) ELSE {},
     open |-> FALSE,
     left |-> {}]

\* The chains after a call for a with the given way behind it has begun.
Visited(chains, a, way) ==
    IF Nearest(a) = {} THEN chains
    ELSE LET e == CHOOSE e \in Nearest(a) : TRUE
         IN  Append(chains, Reverse(Append(way, <<e, a - e>>)))

Init ==
    /\ map \in Maps
    /\ starts \in Entries \cup {DOMAIN map}
    /\ reach \in Reaches /\ depth \in Depths /\ match \in Addr
    /\ stack = <<Frame(match, 1)>> /\ tmp = <<>>
    /\ out = Visited(<<>>, match, <<>>)

Level == Len(stack)
Call == stack[Level]

\* The next pointee in reach is put on the way.
NextKey ==
    /\ stack # <<>> /\ ~Call.open /\ Call.keys # {}
    /\ \E k \in Call.keys :
          /\ \A j \in Call.keys : k <= j
          /\ tmp' = Append(tmp, <<k, Call.addr - k>>)
          /\ stack' = [stack EXCEPT ![Level].open = TRUE,
                                    ![Level].keys = @ \ {k},
                                    ![Level].left = Pointers(k)]
    /\ UNCHANGED <<args, out>>

\* The next pointer to it is followed, a level deeper.
Follow ==
    /\ stack # <<>> /\ Call.open /\ Call.left # {}
    /\ \E v \in Call.left :
          /\ \A w \in Call.left : v <= w
          /\ stack' = Append([stack EXCEPT ![Level].left = @ \ {v}],
                             Frame(v, Level + 1))
          /\ out' = Visited(out, v, tmp)
    /\ UNCHANGED <<args, tmp>>

\* Faulty variant: the pointee stays on the way.
EndKeyKeeping ==
    /\ stack # <<>> /\ Call.open /\ Call.left = {}
    /\ stack' = [stack EXCEPT ![Level].open = FALSE]
    /\ UNCHANGED <<args, tmp, out>>

\* Faulty variant: the call stays at the pointee.
EndKeyOpen ==
    /\ stack # <<>> /\ Call.open /\ Call.left = {}
    /\ tmp' = Front(tmp)
    /\ UNCHANGED <<args, stack, out>>

\* All pointers to it were followed: it is taken off the way.
EndKey ==
    /\ stack # <<>> /\ Call.open /\ Call.left = {}
    /\ tmp' = Front(tmp)
    /\ stack' = [stack EXCEPT ![Level].open = FALSE]
    /\ UNCHANGED <<args, out>>

Return ==
    /\ stack # <<>> /\ ~Call.open /\ Call.keys = {}
    /\ stack' = Front(stack)
    /\ UNCHANGED <<args, tmp, out>>

Next == NextKey \/ Follow \/ EndKey \/ Return

Spec == Init /\ [][Next]_vars

\* A walk is one loop of one thread, which nothing else stops.
FairSpec == Spec /\ WF_vars(Next)

-----------------------------------------------------------------------------
(***************************************************************************)
(* Properties.                                                             *)
(***************************************************************************)
MaxLevel == IF depth = 0 THEN 1 ELSE depth

\* Each variable keeps its type; the recursion is never deeper than max_depth,
\* and the way is as long as there are calls that are at a pointee.
TypeOK ==
    /\ map \in Maps /\ starts \subseteq Addr
    /\ reach \in Nat \X Nat /\ depth \in Nat /\ match \in Addr
    /\ Len(stack) <= MaxLevel
    /\ \A i \in 1..Len(stack) :
          /\ stack[i].addr \in Addr /\ stack[i].keys \subseteq Addr
          /\ i < Len(stack) => stack[i].open
          /\ stack[i].left \subseteq DOMAIN map
    /\ tmp \in Seq(Addr \X Int)
    /\ Len(tmp) = Cardinality({i \in 1..Len(stack) : stack[i].open})
    /\ out \in Seq(Seq(Addr \X Int))

\* Where the i-th link of a chain leads to.
Arrives(chain, i) == chain[i][1] + chain[i][2]

\* Whoever follows a chain gets to the match: the address of a link and its
\* offset give a pointer that holds the address of the next link, and the
\* last link gives the match (pointer_map.rs:173-178, 195-217).
ChainsResolve ==
    \A c \in Range(out) :
        /\ c # <<>> /\ Arrives(c, Len(c)) = match
        /\ \A i \in 1 .. Len(c) - 1 :
              /\ Arrives(c, i) \in DOMAIN map
              /\ map[Arrives(c, i)] = c[i + 1][1]

\* A chain starts at an entry point, is no longer than max_depth, and no
\* offset exceeds the bounds the caller gave (pointer_map.rs:147-157, 182).
WithinBounds ==
    \A c \in Range(out) :
        /\ c[1][1] \in starts
        /\ Len(c) <= MaxLevel
        /\ \A i \in 1..Len(c) : c[i][2] \in -reach[1] .. reach[2]

(***************************************************************************)
(* The reference: a way is a sequence of pointers, each of which points    *)
(* into the reach of the next one and the last into the reach of the match.*)
(***************************************************************************)
Stop(way, i) == IF i <= Len(way) THEN way[i] ELSE match

Ways ==
    {way \in UNION {[1..n -> DOMAIN map] : n \in 0 .. MaxLevel - 1} :
        \A i \in 1..Len(way) : map[way[i]] \in ReachOf(Stop(way, i + 1))}

ChainOf(way, e) ==
    LET At(i) == IF i = 1 THEN e ELSE map[way[i - 1]]
    IN  [i \in 1 .. Len(way) + 1 |-> <<At(i), Stop(way, i) - At(i)>>]

\* The walk finds one chain for each way that has an entry point in reach of
\* its first pointer, from the nearest one, and finds each of them once,
\* whatever cycles the pointers form (pointer_map.rs:159-222).
AllChains ==
    stack = <<>> =>
        /\ IsInjective(out)
        /\ Range(out) = UNION {{ChainOf(way, e) : e \in Nearest(Stop(way, 1))} :
                                  way \in Ways}

\* The walk ends, on a cyclic pointer map as well.
WalkEnds == <>(stack = <<>>)

=============================================================================
