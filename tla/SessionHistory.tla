--------------------------- MODULE SessionHistory ---------------------------
(***************************************************************************)
(* A session together with what a user who watches the memory would note   *)
(* down about it: history variables, which no call reads.                  *)
(*                                                                         *)
(*   live   addresses that a first pass had to find and that passed every  *)
(*          filter since                                                   *)
(*   extra  addresses that may be in the list without being live: added by *)
(*          hand, left over from a signature scan, or read from a hole     *)
(*   dirty  the memory changed since the pointer map was built             *)
(*   asked  the module whose globals were collected last                   *)
(***************************************************************************)
EXTENDS Session

VARIABLES live, extra, dirty, asked

history == <<live, extra, dirty, asked>>
hvars == <<vars, history>>

HInit ==
    Init /\ live = {} /\ extra = {} /\ dirty = FALSE /\ asked = AnyModule

Scanned(d) == ret'.out = "ok" /\ ret'.op \in {"scan_value", "filter_value"}
              /\ d = ret'.data

\* Passes a filter for d, or may pass it because it is read from a hole.
Survivors(S, d) == {a \in S : Solid(a, Len(d)) => d # <<>> /\ Holds(mem, a, d)}

Note ==
    /\ CASE ret'.op = "reset" ->
              live' = {} /\ extra' = {}
         [] ret'.op = "sig_scan" /\ ret'.out = "ok" ->
              live' = {} /\ extra' = Range(matches')
         [] Scanned(ret'.data) /\ ~scanned ->
              /\ live' = SurelyFound(mem, ret'.data)
              /\ extra' = Range(matches)
                            \cup {a \in Found(mem, ret'.data, {}) :
                                    a \notin live'}
         [] Scanned(ret'.data) /\ scanned ->
              /\ live' = {a \in live : /\ Solid(a, Len(ret'.data))
                                       /\ ret'.data # <<>>
                                       /\ Holds(mem, a, ret'.data)}
              /\ extra' = Survivors(extra \cup (live \ live'), ret'.data)
         [] ret'.op = "add_match" ->
              live' = live /\ extra' = extra \cup Range(matches')
         [] ret'.op = "remove_match" ->
              /\ live' = live \cap Range(matches')
              /\ extra' = extra \cap Range(matches')
         [] OTHER -> UNCHANGED <<live, extra>>
    /\ dirty' = IF ret'.op \in {"reset", "build_pointer_map"}
                     \/ (ret'.op = "offset_scan" /\ ptrs = {})
                THEN FALSE ELSE dirty \/ mem' # mem
    /\ asked' = CASE ret'.op = "collect_globals" -> ret'.data[1]
                  [] ret'.op = "offset_scan" /\ globals = {} -> AnyModule
                  [] OTHER -> asked

HNext == Next /\ Note

HSpec == HInit /\ [][HNext]_hvars

-----------------------------------------------------------------------------
(***************************************************************************)
(* Properties.                                                             *)
(***************************************************************************)

\* Each variable keeps its type; a session on a list of at most MaxMatches
\* matches (session.rs:80-91, value_scanner.rs:14-18).
TypeOK ==
    /\ mem \in Memory
    /\ scanned \in BOOLEAN
    /\ matches \in Seq(Addr) /\ Len(matches) <= MaxMatches
    /\ typename \in Known \cup {NoType}
    /\ bufLen \in Nat
    /\ globals \subseteq Addr
    /\ ptrs \subseteq Addr \X InRanges

\* While a sized type is selected the read-back buffer has its size, through
\* every order of scans, signature scans, resets and failed set_type calls;
\* print_value would refuse any other length (session.rs:86-87, 284-286).
BufferFitsType == typename \in Sized => bufLen = Size[typename]

\* No match is lost: what every first pass had to find, and passed every
\* filter since, is still in the list unless it was removed by hand
\* (value_scanner.rs:51-147).
NoMatchLost == scanned => live \subseteq Range(matches)

\* Nothing is invented: a match that is not live was put there by hand or by
\* a signature scan and passed the filters since, or was read from a hole.
EveryMatchExplained == Range(matches) \subseteq live \cup extra

\* A list that was not touched by hand, nor started from a signature scan,
\* holds no address twice, whichever worker found what
\* (value_scanner.rs:70-104).
NoAddressTwice == extra = {} => IsInjective(matches)

\* A call that fails leaves the scanner, the selection and the memory alone,
\* save the two that fail half way: set_type has selected the type
\* (session.rs:153), write_value has written some matches (session.rs:318).
FailureChangesNothing ==
    [][ret'.out # "ok" =>
         /\ UNCHANGED scanner
         /\ ret'.op # "set_type" => UNCHANGED selection
         /\ ret'.op # "write_value" => UNCHANGED mem]_hvars

\* A write touches no byte outside the windows of the matches; and when it
\* answers that it wrote all of them, each holds the value, except where the
\* window of a later match overlaps (session.rs:317-321).
WriteReachesMatches ==
    [][ret'.op = "write_value" =>
         LET W(i) == Window(matches[i], Len(ret'.data))
         IN  /\ \A b \in Mapped :
                   mem'[b] # mem[b] => \E i \in 1..Len(matches) : b \in W(i)
             /\ ret'.out = "ok" /\ ret'.n = Len(matches) =>
                   \A i \in 1..Len(matches) :
                      \/ Holds(mem', matches[i], ret'.data)
                      \/ ~Solid(matches[i], Len(ret'.data))
                      \/ \E j \in i + 1 .. Len(matches) : W(i) \cap W(j) # {}
      ]_hvars

\* As long as the memory did not change since it was built, a pointer map
\* that is used is the pointer map of the memory: rebuilding it leaves
\* nothing of an older one (pointer_map.rs:39, session.rs:359-361).
CleanMapIsExact ==
    ~dirty /\ ptrs # {} =>
        /\ PointersFound(mem, Unreliable(1)) \subseteq ptrs
        /\ ptrs \subseteq PointersFound(mem, {})

\* The globals are those of the module asked for last: a repeated or failed
\* collection leaves none of an earlier one (session.rs:339, disasm.rs:39).
GlobalsNeverMixed == globals \subseteq GlobalsIn(Searched(asked))

-----------------------------------------------------------------------------
(***************************************************************************)
(* What the documentation says, and the code does not do.                  *)
(***************************************************************************)

\* Each of the two calls makes the pass it is named for.  "First-pass value
\* scan: scan the whole address space" (session.rs:234): every address that
\* holds the value is in the list afterwards.  "Filter existing matches against
\* a new value" (session.rs:258): the list afterwards is part of the list
\* before.  Both leave it to a flag that other calls have set: on a session that
\* has scanned before, scan_value filters (session.rs:243); on a list made by
\* hand or by a signature scan, filter_value scans and appends (session.rs:268).
PassAsNamed ==
    [][ret'.out = "ok" =>
         /\ ret'.op = "scan_value" /\ ret'.data # <<>> =>
               SurelyFound(mem, ret'.data) \subseteq Range(matches')
         /\ ret'.op = "filter_value" /\ matches # <<>> =>
               Range(matches') \subseteq Range(matches)]_hvars

=============================================================================
