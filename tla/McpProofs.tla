------------------------------ MODULE McpProofs ------------------------------
(***************************************************************************)
(* The locks of the server are consistent, and it implements the service   *)
(* that carries out one call at a time on a session, for any number of     *)
(* requests, sessions and threads.  What the two theorems need beyond the  *)
(* locks: who stands in the queue of a mutex, what each task was asked,    *)
(* and that a running tool has seen the latest state of its session.       *)
(***************************************************************************)
EXTENDS McpServer, TLAPS

OnSession == {"waiting", "granted", "running"}

Place == {"idle", "ready", "waiting", "granted", "lost"} \cup Working

Types ==
    /\ pc \in [Call -> Place]
    /\ request \in [Call -> Service!Requests \cup {NoCall}]
    /\ seen \in [Call -> Int]
    /\ state \in [SessionId -> Int]
    /\ holder \in [SessionId -> Call \cup {NoCall}]
    /\ waiting \in [SessionId -> Seq(Call)]

\* A task stands once in the queue of the session it was asked to work on.
InLine(s) ==
    /\ \A i \in 1 .. Len(waiting[s]) :
          pc[waiting[s][i]] = "waiting" /\ request[waiting[s][i]].id = s
    /\ \A i, j \in 1 .. Len(waiting[s]) : waiting[s][i] = waiting[s][j] => i = j
    /\ \A c \in Call : pc[c] = "waiting" /\ request[c].id = s =>
          \E i \in 1 .. Len(waiting[s]) : waiting[s][i] = c

Queued == \A s \in SessionId : InLine(s)

\* What a task was asked stays with it until it is answered.
Asked ==
    \A c \in Call :
        /\ request[c] = NoCall <=> pc[c] = "idle"
        /\ pc[c] \in OnSession => request[c] \in Service!SessionCalls
        /\ pc[c] \in {"wanting", "building", "opening"} =>
              request[c].tool \in OpeningTools

\* Nobody changes a session while a tool is running on it.
UpToDate ==
    \A c \in Call : pc[c] = "running" => seen[c] = state[request[c].id]

Inv == Types /\ LocksConsistent /\ Queued /\ Asked /\ UpToDate
-----------------------------------------------------------------------------
LEMMA InitInv == Init => Inv
BY McpAssumption
   DEF Init, Inv, Types, Place, LocksConsistent, Queued, InLine, Asked, UpToDate, OnSession, Working

\* A task that has nothing to do with the mutex of a session goes on.
LEMMA Elsewhere ==
  ASSUME Inv, NEW c \in Call, NEW l \in Place \ OnSession,
         pc[c] \notin OnSession, Goto(c, l), UNCHANGED <<mutex, state, seen>>,
         NEW r \in Service!Requests \cup {NoCall},
         request' = [request EXCEPT ![c] = r],
         r = NoCall <=> l = "idle",
         l \in {"wanting", "building", "opening"} => r.tool \in OpeningTools,
         \A d \in Call : inventory' = d <=> pc'[d] = "building"
  PROVE  Inv'
<1> USE DEF Inv, Types, Goto, mutex, Place
<1>1. /\ pc' = [pc EXCEPT ![c] = l] /\ pc' \in [Call -> Place]
      /\ \A d \in Call : d # c => pc'[d] = pc[d] /\ request'[d] = request[d]
      /\ pc'[c] = l /\ request'[c] = r
  OBVIOUS
<1>2. Types'
  BY <1>1
<1>3. LocksConsistent'
  BY <1>1 DEF LocksConsistent, OnSession
<1>4. Queued'
  BY <1>1 DEF Queued, InLine, OnSession
<1>5. Asked'
  BY <1>1 DEF Asked, OnSession
<1>6. UpToDate'
  BY <1>1 DEF UpToDate, OnSession
<1> QED
  BY <1>2, <1>3, <1>4, <1>5, <1>6

\* A task that has the mutex begins to work.
LEMMA RunKeeps ==
  ASSUME Inv, NEW c \in Call, ~ pc[c] \in {"waiting", "running"}, Run(c),
         request[c] \in Service!SessionCalls,
         \/ pc[c] = "granted" /\ UNCHANGED mutex
         \/ /\ pc[c] = "ready" /\ holder[request[c].id] = NoCall
            /\ holder' = [holder EXCEPT ![request[c].id] = c] /\ UNCHANGED waiting
  PROVE  Inv'
<1> USE DEF Inv, Types, Run, Goto, mutex
<1>1. /\ \A d \in Call : d # c => pc'[d] = pc[d] /\ seen'[d] = seen[d]
      /\ pc'[c] = "running" /\ pc[c] # "building" /\ pc[c] # "idle"
      /\ seen'[c] = state[request[c].id]
      /\ request' = request /\ state' = state /\ waiting' = waiting
      /\ inventory' = inventory /\ request[c].id \in SessionId
  BY DEF Service!SessionCalls
<1>2. Types'
  BY <1>1 DEF Place, Working
<1>3. LocksConsistent'
  BY <1>1, McpAssumption DEF LocksConsistent
<1>4. Queued'
  BY <1>1 DEF Queued, InLine
<1>5. Asked'
  BY <1>1 DEF Asked, OnSession
<1>6. UpToDate'
  BY <1>1 DEF UpToDate
<1> QED
  BY <1>2, <1>3, <1>4, <1>5, <1>6

\* A task stands in line.
LEMMA WaitKeeps ==
  ASSUME Inv, NEW c \in Call, NEW s \in SessionId,
         pc[c] = "ready", request[c] \in Service!SessionCalls, request[c].id = s,
         holder[s] # NoCall, waiting' = [waiting EXCEPT ![s] = Append(@, c)],
         Goto(c, "waiting"),
         UNCHANGED <<state, request, seen, holder, inventory>>
  PROVE  Inv'
<1> USE DEF Inv, Types, Goto
<1>1. /\ \A d \in Call : d # c => pc'[d] = pc[d]
      /\ pc'[c] = "waiting"
      /\ waiting' \in [SessionId -> Seq(Call)]
      /\ \A q \in SessionId : q # s => waiting'[q] = waiting[q]
      /\ waiting'[s] = Append(waiting[s], c)
  OBVIOUS
<1>2. Types'
  BY <1>1 DEF Place
<1>3. LocksConsistent'
  BY <1>1 DEF LocksConsistent
<1>4. \A q \in SessionId : \A i \in 1 .. Len(waiting[q]) : waiting[q][i] # c
  BY DEF Queued, InLine
<1>5. /\ Len(waiting'[s]) = Len(waiting[s]) + 1
      /\ \A i \in 1 .. Len(waiting[s]) : waiting'[s][i] = waiting[s][i]
      /\ waiting'[s][Len(waiting[s]) + 1] = c
      /\ Len(waiting[s]) \in Nat
      /\ \A i \in 1 .. Len(waiting[s]) : waiting[s][i] \in Call
  BY <1>1
<1>6. Queued'
  <2> SUFFICES ASSUME NEW q \in SessionId PROVE InLine(q)'
    BY DEF Queued
  <2>1. CASE q = s
    <3> DEFINE n == Len(waiting[s])
    <3> USE <2>1
    <3>1. InLine(s)
      BY DEF Queued
    <3>2. \A i \in 1 .. n + 1 : i \in 1 .. n \/ i = n + 1
      BY <1>5
    <3>3. \A i \in 1 .. n + 1 :
             pc'[waiting'[s][i]] = "waiting" /\ request'[waiting'[s][i]].id = s
      BY <1>1, <1>4, <1>5, <3>1, <3>2 DEF InLine
    <3>4. \A i, j \in 1 .. n + 1 : waiting'[s][i] = waiting'[s][j] => i = j
      BY <1>4, <1>5, <3>1, <3>2 DEF InLine
    <3>5. \A d \in Call : pc'[d] = "waiting" /\ request'[d].id = s =>
             \E i \in 1 .. n + 1 : waiting'[s][i] = d
      <4> SUFFICES ASSUME NEW d \in Call, pc'[d] = "waiting", request'[d].id = s
                   PROVE  \E i \in 1 .. n + 1 : waiting'[s][i] = d
        OBVIOUS
      <4>1. CASE d = c
        <5>1. n + 1 \in 1 .. n + 1 /\ waiting'[s][n + 1] = d
          BY <1>5, <4>1
        <5> QED
          BY <5>1
      <4>2. CASE d # c
        <5>1. PICK i \in 1 .. n : waiting[s][i] = d
          BY <1>1, <3>1, <4>2 DEF InLine
        <5> QED
          BY <1>5, <5>1
      <4> QED
        BY <4>1, <4>2
    <3>6. InLine(s)'
      <4>1. Len(waiting'[s]) = n + 1
        BY <1>5
      <4> HIDE DEF n
      <4> QED
        BY <3>3, <3>4, <3>5, <4>1, SMTT(40) DEF InLine
    <3> QED
      BY <3>6
  <2>2. CASE q # s
    <3>1. InLine(q) /\ waiting'[q] = waiting[q] /\ waiting[q] \in Seq(Call)
      BY <1>1, <2>2 DEF Queued
    <3> QED
      BY <1>1, <1>4, <2>2, <3>1 DEF InLine
  <2> QED
    BY <2>1, <2>2
<1>7. Asked'
  BY <1>1 DEF Asked, OnSession
<1>8. UpToDate'
  BY <1>1 DEF UpToDate
<1> QED
  BY <1>2, <1>3, <1>6, <1>7, <1>8

\* A queue stays in order while the same tasks wait for it.
LEMMA LineKept ==
  ASSUME NEW q, InLine(q), waiting'[q] = waiting[q], waiting[q] \in Seq(Call),
         \A d \in Call : pc'[d] = "waiting" /\ request'[d].id = q
                        <=> pc[d] = "waiting" /\ request[d].id = q
  PROVE  InLine(q)'
<1>1. \A i \in 1 .. Len(waiting[q]) : waiting[q][i] \in Call
  OBVIOUS
<1> QED
  BY <1>1 DEF InLine

\* The mutex is handed on.
LEMMA ReleaseKeeps ==
  ASSUME Inv, NEW c \in Call, NEW s \in SessionId, NEW l \in {"idle", "lost"},
         pc[c] = "running", request[c].id = s, Release(c, s, l),
         NEW r \in {NoCall, request[c]}, r = NoCall <=> l = "idle",
         request' = [request EXCEPT ![c] = r],
         state' \in [SessionId -> Int],
         \A q \in SessionId : q # s => state'[q] = state[q],
         seen' = [seen EXCEPT ![c] = 0], UNCHANGED inventory
  PROVE  Inv'
<1> USE DEF Inv, Types
<1>1. CASE waiting[s] = <<>>
  <2>1. /\ holder' = [holder EXCEPT ![s] = NoCall] /\ waiting' = waiting
        /\ pc' = [pc EXCEPT ![c] = l]
    BY <1>1 DEF Release, Goto
  <2>2. /\ \A d \in Call : d # c => pc'[d] = pc[d] /\ request'[d] = request[d]
                                   /\ seen'[d] = seen[d]
        /\ pc'[c] = l /\ request'[c] = r
    BY <2>1
  <2>3. Types'
    BY <2>1 DEF Place
  <2>4. LocksConsistent'
    BY <1>1, <2>1, <2>2, McpAssumption DEF LocksConsistent
  <2>5. Queued'
    <3>1. \A d \in Call : pc'[d] = "waiting" <=> pc[d] = "waiting" /\ d # c
      BY <2>2
    <3>2. /\ \A d \in Call : pc'[d] = "waiting" => request'[d] = request[d]
          /\ pc[c] # "waiting"
      BY <2>2
    <3>3. ASSUME NEW q \in SessionId
          PROVE  InLine(q) /\ waiting'[q] = waiting[q] /\ waiting[q] \in Seq(Call)
      BY <2>1 DEF Queued
    <3> QED
      BY <3>1, <3>2, <3>3, LineKept DEF Queued
  <2>6. Asked'
    BY <2>2 DEF Asked, OnSession
  <2>7. UpToDate'
    <3> SUFFICES ASSUME NEW d \in Call, pc'[d] = "running"
                 PROVE  seen'[d] = state'[request'[d].id]
      BY DEF UpToDate
    <3>1. d # c /\ pc[d] = "running" /\ request'[d] = request[d] /\ seen'[d] = seen[d]
      BY <2>2
    <3>2. request[d].id \in SessionId
      BY <3>1 DEF Asked, OnSession, Service!SessionCalls
    <3>3. request[d].id # s
      BY <3>1, <3>2 DEF LocksConsistent
    <3> QED
      BY <3>1, <3>2, <3>3 DEF UpToDate
  <2> QED
    BY <2>3, <2>4, <2>5, <2>6, <2>7
<1>2. CASE waiting[s] # <<>>
  <2> DEFINE h == Head(waiting[s])
             n == Len(waiting[s])
  <2>1. /\ holder' = [holder EXCEPT ![s] = h]
        /\ waiting' = [waiting EXCEPT ![s] = Tail(@)]
        /\ pc' = [pc EXCEPT ![c] = l, ![h] = "granted"]
    BY <1>2 DEF Release
  <2>2. /\ n \in Nat \ {0} /\ h = waiting[s][1] /\ h \in Call
        /\ Len(Tail(waiting[s])) = n - 1 /\ Tail(waiting[s]) \in Seq(Call)
        /\ \A i \in 1 .. n - 1 : Tail(waiting[s])[i] = waiting[s][i + 1]
    BY <1>2
  <2>3. InLine(s) /\ pc[h] = "waiting" /\ request[h].id = s /\ h # c
    <3>1. InLine(s) /\ 1 \in 1 .. n
      BY <2>2 DEF Queued
    <3>2. pc[waiting[s][1]] = "waiting" /\ request[waiting[s][1]].id = s
      BY <3>1 DEF InLine
    <3> QED
      BY <2>2, <3>1, <3>2
  <2>4. /\ \A d \in Call : d # c /\ d # h => pc'[d] = pc[d]
        /\ \A d \in Call : d # c => request'[d] = request[d] /\ seen'[d] = seen[d]
        /\ pc'[c] = l /\ pc'[h] = "granted" /\ request'[c] = r
    BY <2>1, <2>2, <2>3
  <2>5. Types'
    BY <2>1, <2>2, SMTT(40) DEF Place
  <2>6. LocksConsistent'
    BY <1>2, <2>1, <2>2, <2>3, <2>4, McpAssumption, SMTT(40) DEF LocksConsistent
  <2>7. Queued'
    <3> SUFFICES ASSUME NEW q \in SessionId PROVE InLine(q)'
      BY DEF Queued
    <3>1. CASE q = s
      <4> USE <3>1
      <4>1. /\ waiting'[s] = Tail(waiting[s]) /\ Len(waiting'[s]) = n - 1
            /\ \A i \in 1 .. n - 1 : waiting'[s][i] = waiting[s][i + 1]
        BY <2>1, <2>2
      <4>2. \A i \in 1 .. n - 1 : i + 1 \in 1 .. n /\ waiting[s][i + 1] \in Call
        BY <2>2
      <4>3. \A i \in 1 .. n - 1 : waiting[s][i + 1] # h /\ waiting[s][i + 1] # c
        BY <2>2, <2>3, <4>2 DEF InLine
      <4>4. \A i \in 1 .. n - 1 :
               pc'[waiting'[s][i]] = "waiting" /\ request'[waiting'[s][i]].id = s
        BY <2>3, <2>4, <4>1, <4>2, <4>3, SMTT(40) DEF InLine
      <4>5. \A i, j \in 1 .. n - 1 : waiting'[s][i] = waiting'[s][j] => i = j
        <5> SUFFICES ASSUME NEW i \in 1 .. n - 1, NEW j \in 1 .. n - 1,
                            waiting'[s][i] = waiting'[s][j]
                     PROVE  i = j
          OBVIOUS
        <5>1. waiting[s][i + 1] = waiting[s][j + 1]
          BY <4>1
        <5>2. i + 1 = j + 1
          BY <2>3, <4>2, <5>1 DEF InLine
        <5> QED
          BY <2>2, <5>2
      <4>6. ASSUME NEW d \in Call, pc'[d] = "waiting", request'[d].id = s
            PROVE  \E i \in 1 .. n - 1 : waiting'[s][i] = d
        <5>1. PICK k \in 1 .. n : waiting[s][k] = d
          BY <2>3, <2>4, <4>6 DEF InLine
        <5>2. k # 1 /\ k - 1 \in 1 .. n - 1 /\ (k - 1) + 1 = k
          BY <2>2, <2>4, <4>6, <5>1
        <5> QED
          BY <4>1, <5>1, <5>2
      <4> QED
        BY <4>1, <4>4, <4>5, <4>6 DEF InLine
    <3>2. CASE q # s
      <4>1. InLine(q) /\ waiting'[q] = waiting[q] /\ waiting[q] \in Seq(Call)
        BY <2>1, <3>2 DEF Queued
      <4>2. \A d \in Call : d # c /\ d # h => pc'[d] = pc[d] /\ request'[d] = request[d]
        BY <2>4
      <4>3. /\ pc[c] # "waiting" /\ pc'[c] # "waiting"
            /\ pc'[h] # "waiting" /\ request[h].id # q
        BY <2>3, <2>4, <3>2
      <4>4. \A d \in Call : pc'[d] = "waiting" /\ request'[d].id = q
                           <=> pc[d] = "waiting" /\ request[d].id = q
        BY <4>2, <4>3
      <4> HIDE DEF Inv, Types
      <4> QED
        BY <4>1, <4>4, LineKept
    <3> QED
      BY <3>1, <3>2
  <2>8. Asked'
    BY <2>2, <2>3, <2>4 DEF Asked, OnSession
  <2>9. UpToDate'
    <3> SUFFICES ASSUME NEW d \in Call, pc'[d] = "running"
                 PROVE  seen'[d] = state'[request'[d].id]
      BY DEF UpToDate
    <3>1. d # c /\ pc[d] = "running" /\ request'[d] = request[d] /\ seen'[d] = seen[d]
      BY <2>4
    <3>2. request[d].id \in SessionId
      BY <3>1 DEF Asked, OnSession, Service!SessionCalls
    <3>3. request[d].id # s
      BY <3>1, <3>2 DEF LocksConsistent
    <3> QED
      BY <3>1, <3>2, <3>3 DEF UpToDate
  <2> QED
    BY <2>5, <2>6, <2>7, <2>8, <2>9
<1> QED
  BY <1>1, <1>2

-----------------------------------------------------------------------------
(***************************************************************************)
(* Each step keeps the invariant, and is a step of the service or none.    *)
(***************************************************************************)
Simulated == Service!Next \/ UNCHANGED Service!vars

LEMMA RequestsAreNotNoCall == NoCall \notin Service!Requests
BY McpAssumption DEF Service!Requests, Service!SessionCalls

LEMMA QueueSame ==
  ASSUME UNCHANGED mutex
  PROVE  [s \in SessionId |-> Lined(s)]' = [s \in SessionId |-> Lined(s)]
BY DEF mutex, Lined

LEMMA LostSame ==
  ASSUME Inv, NEW c \in Call, NEW l, Goto(c, l), pc[c] # "lost", l # "lost"
  PROVE  lost' = lost
BY DEF Inv, Types, Goto, lost

LEMMA SubmitStep ==
  ASSUME Inv, NEW c \in Call, Submit(c)
  PROVE  Inv' /\ Simulated
<1>1. PICK r \in Service!Requests : request' = [request EXCEPT ![c] = r]
  BY DEF Submit
<1>2. /\ pc[c] = "idle" /\ Goto(c, "ready")
      /\ UNCHANGED <<registry, state, seen, mutex, inventory, answer>>
  BY DEF Submit
<1>3. request[c] = NoCall
  BY <1>2 DEF Inv, Asked
<1>4. Inv'
  <2>1. r # NoCall
    BY RequestsAreNotNoCall
  <2>2. \A d \in Call : inventory' = d <=> pc'[d] = "building"
    BY <1>2 DEF Inv, Types, LocksConsistent, Goto
  <2>3. /\ "ready" \in Place \ OnSession /\ pc[c] \notin OnSession
        /\ UNCHANGED <<mutex, state, seen>>
    BY <1>2 DEF Place, OnSession, mutex
  <2>4. r = NoCall <=> "ready" = "idle"
    BY <2>1
  <2>5. "ready" \in {"wanting", "building", "opening"} => r.tool \in OpeningTools
    OBVIOUS
  <2> QED
    BY <1>1, <1>2, <2>2, <2>3, <2>4, <2>5, Elsewhere
<1>5. Service!Submit(c)
  BY <1>1, <1>2, <1>3, QueueSame, LostSame DEF Service!Submit, Service!registry, registry
<1> QED
  BY <1>4, <1>5 DEF Simulated, Service!Next

LEMMA InventoryKept ==
  ASSUME Inv, NEW c \in Call, NEW l, Goto(c, l), pc[c] # "building",
         l # "building", UNCHANGED inventory
  PROVE  \A d \in Call : inventory' = d <=> pc'[d] = "building"
BY DEF Inv, Types, LocksConsistent, Goto

\* A request that is neither lost nor at a mutex of a session is open.
LEMMA OpenFacts ==
  ASSUME Inv, NEW c \in Call, pc[c] \notin {"idle", "lost"}
  PROVE  /\ Service!Open(c, request[c].tool)
         /\ request[c] \in Service!Requests
BY DEF Inv, Types, Asked, Service!Open, lost

\* An answer given without the mutex of a session.
LEMMA AnsweredStep ==
  ASSUME Inv, NEW c \in Call, NEW out, NEW v,
         pc[c] \notin OnSession \cup {"idle", "lost"}, Goto(c, "idle"),
         Respond(c, out, v), UNCHANGED <<state, seen, mutex>>,
         \A d \in Call : inventory' = d <=> pc'[d] = "building"
  PROVE  /\ Inv' /\ Service!Reply(c, out, v)
         /\ [s \in SessionId |-> Lined(s)]' = [s \in SessionId |-> Lined(s)]
<1>1. Inv'
  BY Elsewhere DEF Respond, Place, OnSession, Goto, mutex
<1>2. Service!Reply(c, out, v)
  BY LostSame DEF Service!Reply, Respond
<1> QED
  BY <1>1, <1>2, QueueSame

LEMMA BuildChainStep ==
  ASSUME Inv, NEW c \in Call, BuildChain(c)
  PROVE  Inv' /\ Simulated
<1>1. /\ pc[c] = "ready" /\ request[c].tool \in OpeningTools
      /\ UNCHANGED <<registry, state, seen, mutex, inventory>>
  BY DEF BuildChain, Polled
<1>2. CASE Goto(c, "wanting") /\ UNCHANGED <<request, answer>>
  <2>1. \A d \in Call : inventory' = d <=> pc'[d] = "building"
    BY <1>1, <1>2, InventoryKept
  <2>2. request[c] \in Service!Requests
    BY <1>1, OpenFacts
  <2>3. request' = [request EXCEPT ![c] = request[c]] /\ request[c] # NoCall
    BY <1>2, <2>2, RequestsAreNotNoCall DEF Inv, Types
  <2>4. Inv'
    <3>1. /\ "wanting" \in Place \ OnSession /\ pc[c] \notin OnSession
          /\ UNCHANGED <<mutex, state, seen>>
      BY <1>1 DEF Place, OnSession, Working, mutex
    <3>2. /\ request[c] = NoCall <=> "wanting" = "idle"
          /\ Goto(c, "wanting")
      BY <1>2, <2>3
    <3> QED
      BY <1>1, <1>2, <2>1, <2>2, <2>3, <3>1, <3>2, Elsewhere
  <2>5. UNCHANGED Service!vars
    BY <1>1, <1>2, QueueSame, LostSame DEF Service!vars, Service!registry, registry
  <2> QED
    BY <2>4, <2>5 DEF Simulated
<1>3. CASE Goto(c, "idle") /\ Respond(c, "error", 0)
  <2>1. \A d \in Call : inventory' = d <=> pc'[d] = "building"
    BY <1>1, <1>3, InventoryKept
  <2>2. /\ Inv' /\ Service!Reply(c, "error", 0)
        /\ [s \in SessionId |-> Lined(s)]' = [s \in SessionId |-> Lined(s)]
    BY <1>1, <1>3, <2>1, AnsweredStep DEF OnSession, mutex
  <2>3. Service!AttachProcess(c) \/ Service!AttachView(c) \/ Service!ListProcesses(c)
    BY <1>1, <2>2, OpenFacts DEF OpeningTools, registry, Service!registry,
       Service!AttachProcess, Service!AttachView, Service!ListProcesses, Service!Attach
  <2> QED
    BY <2>2, <2>3 DEF Simulated, Service!Next
<1> QED
  BY <1>2, <1>3 DEF BuildChain

LEMMA OpeningStep ==
  ASSUME Inv, NEW c \in Call, Opening(c)
  PROVE  Inv' /\ Simulated
<1> DEFINE Queue == [s \in SessionId |-> Lined(s)]
<1>1. CASE LockInventory(c)
  <2>1. /\ pc[c] = "wanting" /\ inventory = NoCall /\ inventory' = c
        /\ Goto(c, "building")
        /\ UNCHANGED <<registry, state, request, seen, mutex, answer>>
    BY <1>1 DEF LockInventory
  <2>2. \A d \in Call : inventory' = d <=> pc'[d] = "building"
    BY <2>1, McpAssumption DEF Inv, Types, LocksConsistent, Goto
  <2>3. request[c] \in Service!Requests /\ request[c].tool \in OpeningTools
    BY <2>1, OpenFacts DEF Inv, Asked
  <2>4. request' = [request EXCEPT ![c] = request[c]] /\ request[c] # NoCall
    BY <2>1, <2>3, RequestsAreNotNoCall DEF Inv, Types
  <2>5. Inv'
    <3>1. /\ "building" \in Place \ OnSession /\ pc[c] \notin OnSession
          /\ UNCHANGED <<mutex, state, seen>>
      BY <2>1 DEF Place, OnSession, Working, mutex
    <3> QED
      BY <2>1, <2>2, <2>3, <2>4, <3>1, Elsewhere
  <2>6. UNCHANGED Service!vars
    BY <2>1, QueueSame, LostSame DEF Service!vars, Service!registry, registry
  <2> QED
    BY <2>5, <2>6 DEF Simulated
<1>2. CASE Build(c)
  <2>1. /\ pc[c] = "building" /\ inventory' = NoCall
        /\ UNCHANGED <<registry, state, seen, mutex>>
    BY <1>2 DEF Build
  <2>2. \A d \in Call : d # c => pc[d] # "building"
    BY <2>1 DEF Inv, LocksConsistent
  <2>3. request[c] \in Service!Requests /\ request[c].tool \in OpeningTools
    BY <2>1, OpenFacts DEF Inv, Asked
  <2>4. CASE Goto(c, "opening") /\ UNCHANGED <<request, answer>>
    <3>1. \A d \in Call : inventory' = d <=> pc'[d] = "building"
      BY <2>1, <2>2, <2>4, McpAssumption DEF Inv, Types, Goto
    <3>2. request' = [request EXCEPT ![c] = request[c]] /\ request[c] # NoCall
      BY <2>3, <2>4, RequestsAreNotNoCall DEF Inv, Types
    <3>3. Inv'
      <4>1. /\ "opening" \in Place \ OnSession /\ pc[c] \notin OnSession
            /\ UNCHANGED <<mutex, state, seen>>
        BY <2>1 DEF Place, OnSession, Working, mutex
      <4>2. /\ request[c] = NoCall <=> "opening" = "idle"
            /\ Goto(c, "opening")
        BY <2>4, <3>2
      <4> QED
        BY <2>3, <3>1, <3>2, <4>1, <4>2, Elsewhere
    <3>4. UNCHANGED Service!vars
      BY <2>1, <2>4, QueueSame, LostSame DEF Service!vars, Service!registry, registry
    <3> QED
      BY <3>3, <3>4 DEF Simulated
  <2>5. CASE Goto(c, "idle") /\ Respond(c, "error", 0)
    <3>1. \A d \in Call : inventory' = d <=> pc'[d] = "building"
      BY <2>1, <2>2, <2>5, McpAssumption DEF Inv, Types, Goto
    <3>2. Inv' /\ Service!Reply(c, "error", 0) /\ Queue' = Queue
      BY <2>1, <2>5, <3>1, AnsweredStep DEF OnSession, mutex
    <3>3. Service!AttachProcess(c) \/ Service!AttachView(c) \/ Service!ListProcesses(c)
      BY <2>1, <2>3, <3>2, OpenFacts DEF OpeningTools, registry, Service!registry,
         Service!AttachProcess, Service!AttachView, Service!ListProcesses, Service!Attach
    <3> QED
      BY <3>2, <3>3 DEF Simulated, Service!Next
  <2> QED
    BY <1>2, <2>4, <2>5 DEF Build
<1>3. ASSUME NEW tool, NEW k, Attach(c, tool, k)
      PROVE  Inv' /\ Service!Open(c, tool) /\ Service!Attach(c, k)
  <2>1. /\ pc[c] = "opening" /\ request[c].tool = tool /\ Goto(c, "idle")
        /\ UNCHANGED <<state, seen, mutex, inventory>>
    BY <1>3 DEF Attach
  <2>2. \A d \in Call : inventory' = d <=> pc'[d] = "building"
    BY <2>1, InventoryKept
  <2>3. CASE \E s \in SessionId : /\ kind[s] = "none"
                                 /\ sessions' = sessions \cup {s}
                                 /\ kind' = [kind EXCEPT ![s] = k]
                                 /\ Respond(c, "ok", 0)
    <3>1. Inv' /\ Service!Reply(c, "ok", 0) /\ Queue' = Queue
      BY <2>1, <2>2, <2>3, AnsweredStep DEF OnSession, mutex
    <3> QED
      BY <2>1, <2>3, <3>1, OpenFacts DEF Service!Attach
  <2>4. CASE Respond(c, "error", 0) /\ UNCHANGED registry
    <3>1. Inv' /\ Service!Reply(c, "error", 0) /\ Queue' = Queue
      BY <2>1, <2>2, <2>4, AnsweredStep DEF OnSession, mutex
    <3> QED
      BY <2>1, <2>4, <3>1, OpenFacts DEF Service!Attach, Service!registry, registry
  <2> QED
    BY <1>3, <2>3, <2>4 DEF Attach
<1>4. CASE AttachProcess(c)
  BY <1>3, <1>4 DEF AttachProcess, Service!AttachProcess, Simulated, Service!Next
<1>5. CASE AttachView(c)
  BY <1>3, <1>5 DEF AttachView, Service!AttachView, Simulated, Service!Next
<1>6. CASE ListProcesses(c)
  <2>1. /\ pc[c] = "opening" /\ request[c].tool = "list_processes" /\ Goto(c, "idle")
        /\ UNCHANGED <<registry, state, seen, mutex, inventory>>
    BY <1>6 DEF ListProcesses
  <2>2. PICK out \in {"ok", "error"} : Respond(c, out, 0)
    BY <1>6 DEF ListProcesses
  <2>3. \A d \in Call : inventory' = d <=> pc'[d] = "building"
    BY <2>1, InventoryKept
  <2>4. Inv' /\ Service!Reply(c, out, 0) /\ Queue' = Queue
    BY <2>1, <2>2, <2>3, AnsweredStep DEF OnSession, mutex
  <2>5. Service!ListProcesses(c)
    BY <2>1, <2>4, OpenFacts DEF Service!ListProcesses, Service!registry, registry
  <2> QED
    BY <2>4, <2>5 DEF Simulated, Service!Next
<1> QED
  BY <1>1, <1>2, <1>4, <1>5, <1>6 DEF Opening

LEMMA DetachStep ==
  ASSUME Inv, NEW c \in Call, DetachSession(c)
  PROVE  Inv' /\ Simulated
<1> DEFINE out == IF request[c].id \in sessions THEN "ok" ELSE "absent"
<1>1. /\ pc[c] = "ready" /\ request[c].tool = "detach" /\ Goto(c, "idle")
      /\ sessions' = sessions \ {request[c].id}
      /\ Respond(c, out, 0)
      /\ UNCHANGED <<kind, state, seen, mutex, inventory>>
  BY DEF DetachSession, Polled
<1>2. \A d \in Call : inventory' = d <=> pc'[d] = "building"
  BY <1>1, InventoryKept
<1>3. /\ Inv' /\ Service!Reply(c, out, 0)
      /\ [s \in SessionId |-> Lined(s)]' = [s \in SessionId |-> Lined(s)]
  <2> HIDE DEF out
  <2> QED
    BY <1>1, <1>2, AnsweredStep DEF OnSession, mutex
<1>4. Service!Detach(c)
  BY <1>1, <1>3, OpenFacts DEF Service!Detach
<1> QED
  BY <1>3, <1>4 DEF Simulated, Service!Next

LEMMA ListStep ==
  ASSUME Inv, NEW c \in Call, ListSessions(c)
  PROVE  Inv' /\ Simulated
<1>1. /\ pc[c] = "ready" /\ request[c].tool = "list_sessions"
      /\ UNCHANGED <<registry, state, seen, mutex, inventory>>
  BY DEF ListSessions, Polled
<1>2. CASE Goto(c, "idle") /\ Respond(c, "ok", 0)
  <2>1. \A d \in Call : inventory' = d <=> pc'[d] = "building"
    BY <1>1, <1>2, InventoryKept
  <2>2. /\ Inv' /\ Service!Reply(c, "ok", 0)
        /\ [s \in SessionId |-> Lined(s)]' = [s \in SessionId |-> Lined(s)]
    BY <1>1, <1>2, <2>1, AnsweredStep DEF OnSession, mutex
  <2>3. Service!List(c)
    BY <1>1, <2>2, OpenFacts DEF Service!List, Service!registry, registry
  <2> QED
    BY <2>2, <2>3 DEF Simulated, Service!Next
<1>3. CASE Goto(c, "lost") /\ UNCHANGED <<request, answer>>
  <2>1. \A d \in Call : inventory' = d <=> pc'[d] = "building"
    BY <1>1, <1>3, InventoryKept
  <2>2. request[c] \in Service!Requests
    BY <1>1, OpenFacts
  <2>3. request' = [request EXCEPT ![c] = request[c]] /\ request[c] # NoCall
    BY <1>3, <2>2, RequestsAreNotNoCall DEF Inv, Types
  <2>4. Inv'
    <3>1. /\ "lost" \in Place \ OnSession /\ pc[c] \notin OnSession
          /\ UNCHANGED <<mutex, state, seen>>
      BY <1>1 DEF Place, OnSession, Working, mutex
    <3>2. request[c] = NoCall <=> "lost" = "idle"
      BY <2>3
    <3>3. Goto(c, "lost")
      BY <1>3
    <3> QED
      BY <2>1, <2>2, <2>3, <3>1, <3>2, <3>3, Elsewhere
  <2>5. lost' = lost \cup {c}
    BY <1>3 DEF lost, Goto, Inv, Types
  <2>6. Service!List(c)
    BY <1>1, <1>3, <2>5, OpenFacts, QueueSame DEF Service!List, Service!registry, registry
  <2> QED
    BY <2>4, <2>6 DEF Simulated, Service!Next
<1> QED
  BY <1>2, <1>3 DEF ListSessions

\* A call that has not asked for the mutex of its session is in no queue.
LEMMA ArrivingFacts ==
  ASSUME Inv, NEW c \in Call, pc[c] = "ready", request[c] \in Service!SessionCalls
  PROVE  Service!Arriving(c) /\ request[c].id \in SessionId
<1> DEFINE s == request[c].id
<1>1. s \in SessionId
  BY DEF Service!SessionCalls
<1>2. waiting[s] \in Seq(Call) /\ holder[s] # c /\ InLine(s)
  BY <1>1 DEF Inv, Types, LocksConsistent, Queued
<1>3. \A i \in 1 .. Len(waiting[s]) : waiting[s][i] # c
  BY <1>2 DEF InLine
<1>4. \A i \in DOMAIN Lined(s) : Lined(s)[i] # c
  <2>1. CASE holder[s] = NoCall
    <3>1. waiting[s] = <<>>
      BY <1>1, <2>1 DEF Inv, LocksConsistent
    <3> QED
      BY <2>1, <3>1 DEF Lined
  <2>2. CASE holder[s] # NoCall
    <3> DEFINE h == holder[s]
               w == waiting[s]
    <3>1. Lined(s) = <<h>> \o w /\ w \in Seq(Call) /\ h # c
      BY <1>2, <2>2 DEF Lined
    <3>2. \A i \in 1 .. Len(w) : w[i] # c
      BY <1>3
    <3> HIDE DEF h, w
    <3>3. \A i \in DOMAIN (<<h>> \o w) : i = 1 \/ i - 1 \in 1 .. Len(w)
      BY <3>1
    <3>4. \A i \in DOMAIN (<<h>> \o w) :
             (<<h>> \o w)[i] = IF i = 1 THEN h ELSE w[i - 1]
      BY <3>1
    <3> QED
      BY <3>1, <3>2, <3>3, <3>4
  <2> QED
    BY <2>1, <2>2
<1> QED
  BY <1>1, <1>4 DEF Service!Arriving, Service!Range, lost

LEMMA NotFoundStep ==
  ASSUME Inv, NEW c \in Call, SessionNotFound(c)
  PROVE  Inv' /\ Simulated
<1>1. /\ pc[c] = "ready" /\ request[c] \in Service!SessionCalls
      /\ request[c].id \notin sessions /\ Goto(c, "idle")
      /\ Respond(c, "not_found", 0)
      /\ UNCHANGED <<registry, state, seen, mutex, inventory>>
  BY DEF SessionNotFound, RequireSession
<1>2. \A d \in Call : inventory' = d <=> pc'[d] = "building"
  BY <1>1, InventoryKept
<1>3. /\ Inv' /\ Service!Reply(c, "not_found", 0)
      /\ [s \in SessionId |-> Lined(s)]' = [s \in SessionId |-> Lined(s)]
  BY <1>1, <1>2, AnsweredStep DEF OnSession, mutex
<1>4. Service!NotFound(c)
  BY <1>1, <1>3, ArrivingFacts DEF Service!NotFound, Service!registry, registry
<1> QED
  BY <1>3, <1>4 DEF Simulated, Service!Next

LEMMA AppendedFacts ==
  ASSUME NEW c \in Call, NEW s \in SessionId, Lined(s)' = Append(Lined(s), c),
         \A q \in SessionId : q # s => Lined(q)' = Lined(q)
  PROVE  [q \in SessionId |-> Lined(q)]' =
           [[q \in SessionId |-> Lined(q)] EXCEPT ![s] = Append(@, c)]
OBVIOUS

LEMMA LockStep ==
  ASSUME Inv, NEW c \in Call, Lock(c)
  PROVE  Inv' /\ Simulated
<1>0. PICK s \in SessionId :
        /\ pc[c] = "ready" /\ request[c] \in Service!SessionCalls
        /\ s = request[c].id
  BY DEF Lock, RequireSession, Service!SessionCalls
<1>1. /\ pc[c] = "ready" /\ request[c] \in Service!SessionCalls
      /\ s = request[c].id /\ s \in sessions
  BY <1>0 DEF Lock
<1>2. /\ s \in SessionId /\ Service!Arriving(c)
      /\ waiting[s] \in Seq(Call) /\ holder[s] \in Call \cup {NoCall}
  BY <1>1, ArrivingFacts DEF Inv, Types
<1>3. CASE /\ holder[s] = NoCall /\ holder' = [holder EXCEPT ![s] = c]
           /\ Run(c) /\ UNCHANGED waiting
  <2>1. Inv'
    BY <1>1, <1>3, RunKeeps
  <2>2. /\ Lined(s)' = Append(Lined(s), c)
        /\ \A q \in SessionId : q # s => Lined(q)' = Lined(q)
    <3>1. /\ waiting[s] = <<>> /\ holder'[s] = c /\ waiting' = waiting /\ c # NoCall
          /\ \A q \in SessionId : q # s => holder'[q] = holder[q]
      BY <1>2, <1>3, McpAssumption DEF Inv, Types, LocksConsistent
    <3>2. Lined(s) = <<>> \o <<>> /\ Lined(s)' = <<c>> \o <<>>
      BY <1>3, <3>1 DEF Lined
    <3>3. \A q \in SessionId : q # s => Lined(q)' = Lined(q)
      BY <3>1 DEF Lined
    <3> QED
      BY <3>2, <3>3
  <2>3. [q \in SessionId |-> Lined(q)]' =
          [[q \in SessionId |-> Lined(q)] EXCEPT ![s] = Append(@, c)]
    BY <1>2, <2>2, AppendedFacts
  <2>4. lost' = lost
    BY <1>1, <1>3, LostSame DEF Run
  <2>5. Service!Accept(c)
    BY <1>1, <1>2, <1>3, <2>3, <2>4 DEF Service!Accept, Service!registry, registry, Run
  <2> QED
    BY <2>1, <2>5 DEF Simulated, Service!Next
<1>4. CASE /\ holder[s] # NoCall /\ waiting' = [waiting EXCEPT ![s] = Append(@, c)]
           /\ Goto(c, "waiting")
           /\ UNCHANGED <<registry, state, request, seen, holder, inventory, answer>>
  <2>1. Inv'
    BY <1>1, <1>2, <1>4, WaitKeeps
  <2>2. /\ Lined(s) = <<holder[s]>> \o waiting[s]
        /\ Lined(s)' = <<holder[s]>> \o Append(waiting[s], c)
        /\ \A q \in SessionId : q # s => Lined(q)' = Lined(q)
    BY <1>2, <1>4 DEF Inv, Types, Lined
  <2>3. <<holder[s]>> \o Append(waiting[s], c) = Append(<<holder[s]>> \o waiting[s], c)
    BY <1>2, <1>4
  <2>4. [q \in SessionId |-> Lined(q)]' =
          [[q \in SessionId |-> Lined(q)] EXCEPT ![s] = Append(@, c)]
    BY <1>2, <2>2, <2>3, AppendedFacts
  <2>5. lost' = lost
    BY <1>1, <1>4, LostSame
  <2>6. Service!Accept(c)
    BY <1>1, <1>2, <1>4, <2>4, <2>5 DEF Service!Accept, Service!registry, registry
  <2> QED
    BY <2>1, <2>6 DEF Simulated, Service!Next
<1> QED
  BY <1>0, <1>3, <1>4 DEF Lock

LEMMA ResumeStep ==
  ASSUME Inv, NEW c \in Call, Resume(c)
  PROVE  Inv' /\ Simulated
<1>1. pc[c] = "granted" /\ Run(c) /\ UNCHANGED mutex
  BY DEF Resume
<1>2. request[c] \in Service!SessionCalls
  BY <1>1 DEF Inv, Asked, OnSession
<1>3. Inv'
  BY <1>1, <1>2, RunKeeps
<1>4. UNCHANGED Service!vars
  BY <1>1, QueueSame, LostSame DEF Service!vars, Service!registry, registry, Run
<1> QED
  BY <1>3, <1>4 DEF Simulated

\* The task that has the mutex is at the head of the queue, and a release
\* takes it away.
LEMMA ReleaseFacts ==
  ASSUME Inv, NEW c \in Call, NEW s \in SessionId, NEW l \in {"idle", "lost"},
         pc[c] = "running", request[c].id = s, Release(c, s, l)
  PROVE  /\ Lined(s) # <<>> /\ Head(Lined(s)) = c
         /\ [q \in SessionId |-> Lined(q)]' =
               [[q \in SessionId |-> Lined(q)] EXCEPT ![s] = Tail(@)]
         /\ lost' = IF l = "lost" THEN lost \cup {c} ELSE lost
<1>1. /\ holder[s] = c /\ waiting[s] \in Seq(Call) /\ c # NoCall
  BY McpAssumption DEF Inv, Types, LocksConsistent
<1>2. Lined(s) = <<c>> \o waiting[s]
  BY <1>1 DEF Lined
<1>3. Lined(s) # <<>> /\ Head(Lined(s)) = c /\ Tail(Lined(s)) = waiting[s]
  BY <1>1, <1>2
<1>4. CASE waiting[s] = <<>>
  <2>1. /\ holder' = [holder EXCEPT ![s] = NoCall] /\ waiting' = waiting
        /\ pc' = [pc EXCEPT ![c] = l]
    BY <1>4 DEF Release, Goto
  <2>2. /\ Lined(s)' = waiting[s]
        /\ \A q \in SessionId : q # s => Lined(q)' = Lined(q)
    BY <1>4, <2>1 DEF Lined, Inv, Types
  <2>3. lost' = IF l = "lost" THEN lost \cup {c} ELSE lost
    BY <2>1 DEF lost, Inv, Types
  <2> QED
    BY <1>3, <2>2, <2>3
<1>5. CASE waiting[s] # <<>>
  <2> DEFINE h == Head(waiting[s])
  <2>1. /\ holder' = [holder EXCEPT ![s] = h]
        /\ waiting' = [waiting EXCEPT ![s] = Tail(@)]
        /\ pc' = [pc EXCEPT ![c] = l, ![h] = "granted"]
    BY <1>5 DEF Release
  <2>2. h \in Call /\ h = waiting[s][1] /\ 1 \in 1 .. Len(waiting[s])
    BY <1>1, <1>5
  <2>3. pc[h] = "waiting" /\ h # NoCall
    BY <2>2, McpAssumption DEF Inv, Queued, InLine
  <2>4. <<h>> \o Tail(waiting[s]) = waiting[s]
    BY <1>1, <1>5
  <2>5. /\ Lined(s)' = waiting[s]
        /\ \A q \in SessionId : q # s => Lined(q)' = Lined(q)
    BY <2>1, <2>3, <2>4 DEF Lined, Inv, Types
  <2>6. lost' = IF l = "lost" THEN lost \cup {c} ELSE lost
    BY <2>1, <2>2, <2>3 DEF lost, Inv, Types
  <2> QED
    BY <1>3, <2>5, <2>6
<1> QED
  BY <1>4, <1>5

LEMMA FinishStep ==
  ASSUME Inv, NEW c \in Call, Finish(c)
  PROVE  Inv' /\ Simulated
<1> DEFINE s == request[c].id
<1>1. /\ pc[c] = "running" /\ Release(c, s, "idle")
      /\ seen' = [seen EXCEPT ![c] = 0] /\ UNCHANGED <<registry, inventory>>
  BY DEF Finish
<1>2. PICK out \in {"ok", "error"}, w \in 0 .. Versions - 1 :
        /\ Outcome(request[c].tool, kind[s], seen[c], out, w)
        /\ state' = [state EXCEPT ![s] = w] /\ Respond(c, out, w)
  BY DEF Finish
<1>3. /\ request[c] \in Service!SessionCalls /\ s \in SessionId
      /\ seen[c] = state[s]
  BY <1>1 DEF Inv, Asked, OnSession, UpToDate, Service!SessionCalls
<1>4. Inv'
  <2>1. state' \in [SessionId -> Int] /\ \A q \in SessionId : q # s => state'[q] = state[q]
    BY <1>2, <1>3, McpAssumption DEF Inv, Types
  <2>2. request' = [request EXCEPT ![c] = NoCall]
    BY <1>2 DEF Respond
  <2> QED
    BY <1>1, <1>3, <2>1, <2>2, ReleaseKeeps
<1>5. /\ Lined(s) # <<>> /\ Head(Lined(s)) = c
      /\ [q \in SessionId |-> Lined(q)]' =
            [[q \in SessionId |-> Lined(q)] EXCEPT ![s] = Tail(@)]
      /\ lost' = lost
  BY <1>1, <1>3, ReleaseFacts
<1>6. Service!Outcome(request[c].tool, kind[s], state[s], out, w)
  BY <1>2, <1>3 DEF Outcome, Service!Outcome, Later, Service!Later
<1>7. Service!Reply(c, out, w)
  BY <1>2, <1>5 DEF Service!Reply, Respond
<1>8. Service!Serve(c)
  BY <1>1, <1>2, <1>3, <1>5, <1>6, <1>7 DEF Service!Serve, Service!registry, registry
<1> QED
  BY <1>4, <1>8 DEF Simulated, Service!Next

LEMMA PanicStep ==
  ASSUME Inv, NEW c \in Call, Panic(c)
  PROVE  Inv' /\ Simulated
<1> DEFINE s == request[c].id
<1>1. /\ pc[c] = "running" /\ Release(c, s, "lost")
      /\ seen' = [seen EXCEPT ![c] = 0]
      /\ UNCHANGED <<registry, state, request, inventory, answer>>
  BY DEF Panic
<1>2. request[c] \in Service!SessionCalls /\ s \in SessionId /\ request[c] # NoCall
  BY <1>1 DEF Inv, Asked, OnSession, Service!SessionCalls
<1>3. Inv'
  <2>1. /\ request' = [request EXCEPT ![c] = request[c]]
        /\ state' \in [SessionId -> Int] /\ \A q \in SessionId : q # s => state'[q] = state[q]
        /\ request[c] = NoCall <=> "lost" = "idle"
    BY <1>1, <1>2 DEF Inv, Types
  <2> QED
    BY <1>1, <1>2, <2>1, ReleaseKeeps
<1>4. /\ Lined(s) # <<>> /\ Head(Lined(s)) = c
      /\ [q \in SessionId |-> Lined(q)]' =
            [[q \in SessionId |-> Lined(q)] EXCEPT ![s] = Tail(@)]
      /\ lost' = lost \cup {c}
  BY <1>1, <1>2, ReleaseFacts
<1>5. Service!Lose(c)
  BY <1>1, <1>2, <1>4 DEF Service!Lose, Service!registry, registry
<1> QED
  BY <1>3, <1>5 DEF Simulated, Service!Next

-----------------------------------------------------------------------------
LEMMA NextStep == Inv /\ [Next]_vars => Inv' /\ Simulated
<1> SUFFICES ASSUME Inv, [Next]_vars PROVE Inv' /\ Simulated
  OBVIOUS
<1>1. CASE Next
  BY <1>1, SubmitStep, BuildChainStep, OpeningStep, DetachStep, ListStep,
     NotFoundStep, LockStep, ResumeStep, FinishStep, PanicStep DEF Next, Poll
<1>2. CASE UNCHANGED vars
  <2>1. Inv'
    BY <1>2 DEF Inv, Types, LocksConsistent, Queued, InLine, Asked, UpToDate, vars,
                registry, mutex
  <2>2. UNCHANGED Service!vars
    BY <1>2, QueueSame DEF vars, registry, Service!vars, Service!registry, lost
  <2> QED
    BY <2>1, <2>2 DEF Simulated
<1> QED
  BY <1>1, <1>2

LEMMA ServerInv == Spec => []Inv
BY InitInv, NextStep, PTL DEF Spec

\* The mutex of a session has one owner, who runs or is about to run on it,
\* and no waiter is left behind; the inventory has one owner, for any number
\* of requests, sessions and threads (server.rs:146-349, session_mgr.rs:237).
THEOREM ServerLocksConsistent == Spec => []LocksConsistent
BY ServerInv, PTL DEF Inv

\* The server is the service that carries out one call at a time on a
\* session: each step between two awaits is a step of the service, or none.
THEOREM ServerImplementsService == Spec => Implements
<1>1. Init => Service!Init
  BY DEF Init, Service!Init, Lined, lost
<1>2. Inv /\ [Next]_vars => [Service!Next]_(Service!vars)
  BY NextStep DEF Simulated
<1> QED
  BY <1>1, <1>2, ServerInv, PTL DEF Spec, Implements, Service!Spec

=============================================================================
