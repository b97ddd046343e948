----------------------------- MODULE McpServer ------------------------------
(***************************************************************************)
(* The MCP server: every request of a client is a task of the tokio        *)
(* runtime, which has a fixed number of threads.  A tool that works on a   *)
(* session looks it up in the registry, waits for its mutex, and then runs *)
(* the scan on its thread until it is done: it gives the thread back only  *)
(* while it waits.  tokio's mutex is handed to the tasks in the order in   *)
(* which they asked for it.  A tool that opens a target takes the std      *)
(* mutex of the inventory first, and blocks its thread until it has it.    *)
(*                                                                         *)
(* What the tools do to a session is in Session; here it is a number, the  *)
(* version of the session.                                                 *)
(***************************************************************************)
EXTENDS Integers, Sequences, FiniteSets

CONSTANTS
    Call,           \* the requests the clients have open at a time
    Tools,          \* the tools the clients call
    SessionId,      \* the ids uuid yields
    NoCall,         \* no request, and no holder of a mutex
    Versions,       \* the states of a session are numbered modulo Versions
    Threads         \* the worker threads of the runtime

ASSUME McpAssumption ==
    /\ Versions \in Nat \ {0, 1} /\ Threads \in Nat \ {0}
    /\ NoCall \notin Call
    /\ NoCall \notin [tool : Tools] \cup [tool : Tools, id : SessionId]

VARIABLES
    sessions,       \* the keys of the DashMap
    kind,           \* which AnySession each id stands for
    state,          \* the version of each session
    pc,             \* where each task is
    request,        \* what it was asked
    seen,           \* the version a running tool started from
    holder,         \* per session the task that has its mutex
    waiting,        \* per session the tasks that wait for it
    inventory,      \* the task that has the inventory, or NoCall
    answer          \* the last answer

registry == <<sessions, kind>>
mutex == <<holder, waiting>>
vars == <<registry, state, pc, request, seen, mutex, inventory, answer>>

lost == {c \in Call : pc[c] = "lost"}

\* A request as it would be served without threads and locks.
Lined(s) == (IF holder[s] = NoCall THEN <<>> ELSE <<holder[s]>>) \o waiting[s]

Service ==
    INSTANCE SessionService WITH queue <- [s \in SessionId |-> Lined(s)]

Goto(c, l) == pc' = [pc EXCEPT ![c] = l]

Respond(c, out, version) ==
    /\ answer' = [out |-> out, version |-> version]
    /\ request' = [request EXCEPT ![c] = NoCall]

Init ==
    /\ sessions = {} /\ kind = [s \in SessionId |-> "none"]
    /\ state = [s \in SessionId |-> 0]
    /\ pc = [c \in Call |-> "idle"] /\ request = [c \in Call |-> NoCall]
    /\ seen = [c \in Call |-> 0]
    /\ holder = [s \in SessionId |-> NoCall]
    /\ waiting = [s \in SessionId |-> <<>>]
    /\ inventory = NoCall
    /\ answer = [out |-> "none", version |-> 0]

Submit(c) ==
    /\ pc[c] = "idle"
    /\ \E r \in Service!Requests : request' = [request EXCEPT ![c] = r]
    /\ Goto(c, "ready")
    /\ UNCHANGED <<registry, state, seen, mutex, inventory, answer>>

\* A task that waits for a std mutex keeps its thread.
Working == {"wanting", "building", "opening", "running"}

\* A task whose turn it is gets a free thread.
ThreadFree == Cardinality({c \in Call : pc[c] \in Working}) < Threads

Polled(c, tool) ==
    ThreadFree /\ pc[c] = "ready" /\ request[c].tool = tool

-----------------------------------------------------------------------------
(***************************************************************************)
(* The tools that open a target.                                           *)
(***************************************************************************)
OpeningTools == {"attach_process", "attach_view", "list_processes"}

\* build_os_chain or build_connector_chain, which may refuse the arguments.
BuildChain(c) ==
    /\ \E tool \in OpeningTools : Polled(c, tool)
    /\ \/ Goto(c, "wanting") /\ UNCHANGED <<request, answer>>
       \/ Goto(c, "idle") /\ Respond(c, "error", 0)
    /\ UNCHANGED <<registry, state, seen, mutex, inventory>>

\* Faulty variant: the inventory is not locked.
LockInventoryNot(c) ==
    /\ pc[c] = "wanting"
    /\ inventory' = c
    /\ Goto(c, "building")
    /\ UNCHANGED <<registry, state, request, seen, mutex, answer>>

\* inventory.lock().unwrap(): whoever gets it, in no order.
LockInventory(c) ==
    /\ pc[c] = "wanting" /\ inventory = NoCall
    /\ inventory' = c
    /\ Goto(c, "building")
    /\ UNCHANGED <<registry, state, request, seen, mutex, answer>>

\* The guard ends with the block around builder().build()?.
Build(c) ==
    /\ pc[c] = "building"
    /\ inventory' = NoCall
    /\ \/ Goto(c, "opening") /\ UNCHANGED <<request, answer>>
       \/ Goto(c, "idle") /\ Respond(c, "error", 0)
    /\ UNCHANGED <<registry, state, seen, mutex>>

\* SessionManager::store, under a fresh uuid; finding the process, by its id
\* or as the only one of its name, or opening it may fail instead.
Attach(c, tool, k) ==
    /\ pc[c] = "opening" /\ request[c].tool = tool
    /\ Goto(c, "idle")
    /\ \/ \E s \in SessionId :
             /\ kind[s] = "none"
             /\ sessions' = sessions \cup {s}
             /\ kind' = [kind EXCEPT ![s] = k]
             /\ Respond(c, "ok", 0)
       \/ Respond(c, "error", 0) /\ UNCHANGED registry
    /\ UNCHANGED <<state, seen, mutex, inventory>>

AttachProcess(c) == Attach(c, "attach_process", "process")

AttachView(c) == Attach(c, "attach_view", "view")

ListProcesses(c) ==
    /\ pc[c] = "opening" /\ request[c].tool = "list_processes"
    /\ Goto(c, "idle")
    /\ \E out \in {"ok", "error"} : Respond(c, out, 0)
    /\ UNCHANGED <<registry, state, seen, mutex, inventory>>

Opening(c) ==
    \/ LockInventory(c) \/ Build(c)
    \/ AttachProcess(c) \/ AttachView(c) \/ ListProcesses(c)

-----------------------------------------------------------------------------
(***************************************************************************)
(* The other tools that wait for nothing.                                  *)
(***************************************************************************)
\* The session itself lives on as long as a task has it.
DetachSession(c) ==
    /\ Polled(c, "detach") /\ Goto(c, "idle")
    /\ sessions' = sessions \ {request[c].id}
    /\ Respond(c, IF request[c].id \in sessions THEN "ok" ELSE "absent", 0)
    /\ UNCHANGED <<kind, state, seen, mutex, inventory>>

\* blocking_lock panics in a task of the runtime; the request gets no answer.
ListSessions(c) ==
    /\ Polled(c, "list_sessions")
    /\ \/ sessions = {} /\ Goto(c, "idle") /\ Respond(c, "ok", 0)
       \/ sessions # {} /\ Goto(c, "lost") /\ UNCHANGED <<request, answer>>
    /\ UNCHANGED <<registry, state, seen, mutex, inventory>>

-----------------------------------------------------------------------------
(***************************************************************************)
(* The tools that work on a session.                                       *)
(***************************************************************************)
RequireSession(c) ==
    /\ ThreadFree /\ pc[c] = "ready" /\ request[c] \in Service!SessionCalls

SessionNotFound(c) ==
    /\ RequireSession(c) /\ request[c].id \notin sessions
    /\ Goto(c, "idle") /\ Respond(c, "not_found", 0)
    /\ UNCHANGED <<registry, state, seen, mutex, inventory>>

\* session.lock().await: the tool runs on at once if the mutex is free.
Run(c) ==
    /\ Goto(c, "running")
    /\ seen' = [seen EXCEPT ![c] = state[request[c].id]]
    /\ UNCHANGED <<registry, state, request, inventory, answer>>

Lock(c) ==
    /\ RequireSession(c) /\ request[c].id \in sessions
    /\ LET s == request[c].id
       IN  \/ /\ holder[s] = NoCall
              /\ holder' = [holder EXCEPT ![s] = c]
              /\ Run(c) /\ UNCHANGED waiting
           \/ /\ holder[s] # NoCall
              /\ waiting' = [waiting EXCEPT ![s] = Append(@, c)]
              /\ Goto(c, "waiting")
              /\ UNCHANGED <<registry, state, request, seen, holder, inventory, answer>>

\* Faulty variant: the tool works on what it saw before it had the mutex.
ResumeStale(c) ==
    /\ ThreadFree /\ pc[c] = "granted"
    /\ Goto(c, "running")
    /\ UNCHANGED <<registry, state, request, seen, mutex, inventory, answer>>

Resume(c) ==
    /\ ThreadFree /\ pc[c] = "granted"
    /\ Run(c) /\ UNCHANGED mutex

\* The guard is dropped: the mutex goes to the task that waits longest.
Release(c, s, l) ==
    IF waiting[s] = <<>>
    THEN /\ holder' = [holder EXCEPT ![s] = NoCall]
         /\ Goto(c, l) /\ UNCHANGED waiting
    ELSE /\ holder' = [holder EXCEPT ![s] = Head(waiting[s])]
         /\ waiting' = [waiting EXCEPT ![s] = Tail(@)]
         /\ pc' = [pc EXCEPT ![c] = l, ![Head(waiting[s])] = "granted"]

Later(v) == (v + 1) % Versions

\* What a tool may answer that finds version v of a session, and the version
\* it leaves.  A call that fails may have done a part of its work.
Outcome(tool, k, v, out, w) ==
    \/ tool = "reset" /\ out = "ok" /\ w = 0
    \/ tool = "use" /\ w \in {v, Later(v)}
    \/ tool = "process_only" /\ k = "process" /\ w \in {v, Later(v)}
    \/ tool = "process_only" /\ k = "view" /\ out = "error" /\ w = v

Finish(c) ==
    /\ pc[c] = "running"
    /\ LET s == request[c].id
       IN  /\ \E out \in {"ok", "error"}, w \in 0 .. Versions - 1 :
                 /\ Outcome(request[c].tool, kind[s], seen[c], out, w)
                 /\ state' = [state EXCEPT ![s] = w]
                 /\ Respond(c, out, w)
           /\ Release(c, s, "idle")
    /\ seen' = [seen EXCEPT ![c] = 0]
    /\ UNCHANGED <<registry, inventory>>

\* Faulty variant: a panic leaves the mutex locked.
PanicLocked(c) ==
    /\ pc[c] = "running" /\ request[c].tool = "use"
    /\ Goto(c, "lost")
    /\ seen' = [seen EXCEPT ![c] = 0]
    /\ UNCHANGED <<registry, state, request, mutex, inventory, answer>>

\* A scan may panic (for an empty string): the guard is dropped all the same,
\* and the request gets no answer.
Panic(c) ==
    /\ pc[c] = "running" /\ request[c].tool = "use"
    /\ Release(c, request[c].id, "lost")
    /\ seen' = [seen EXCEPT ![c] = 0]
    /\ UNCHANGED <<registry, state, request, inventory, answer>>

-----------------------------------------------------------------------------
Poll(c) ==
    \/ BuildChain(c) \/ DetachSession(c) \/ ListSessions(c)
    \/ SessionNotFound(c) \/ Lock(c) \/ Resume(c)

Next ==
    \E c \in Call :
       Submit(c) \/ Poll(c) \/ Opening(c) \/ Finish(c) \/ Panic(c)

Spec == Init /\ [][Next]_vars

\* tokio takes its tasks from a queue, so that a task that can go on is not
\* passed over for ever; a scan ends by itself, and so does the opening of a
\* target.  The std mutex promises no order: a thread that waits for it gets
\* it if it stays free.
FairSpec ==
    /\ Spec
    /\ \A c \in Call : /\ SF_vars(Poll(c))
                       /\ WF_vars(Opening(c))
                       /\ WF_vars(Finish(c) \/ Panic(c))

-----------------------------------------------------------------------------
(***************************************************************************)
(* Properties.                                                             *)
(***************************************************************************)
TypeOK ==
    /\ sessions \subseteq SessionId
    /\ kind \in [SessionId -> {"process", "view", "none"}]
    /\ state \in [SessionId -> 0 .. Versions - 1]
    /\ pc \in [Call -> {"idle", "ready", "waiting", "granted", "lost"} \cup Working]
    /\ request \in [Call -> Service!Requests \cup {NoCall}]
    /\ seen \in [Call -> 0 .. Versions - 1]
    /\ holder \in [SessionId -> Call \cup {NoCall}]
    /\ waiting \in [SessionId -> Seq(Call)]
    /\ inventory \in Call \cup {NoCall}

\* The mutex of a session is held by the one task that runs or is about to
\* run on it, and nobody waits for a mutex that is free: no wakeup is lost,
\* whether a tool returns or panics (server.rs:146-349).  Nobody opens a
\* target with the inventory but the one task that has it, and no task waits
\* for one of the two kinds of mutex while it has the other
\* (session_mgr.rs:237-240, 276-279, 288-291).
LocksConsistent ==
    /\ \A c \in Call, s \in SessionId :
          holder[s] = c <=>
             pc[c] \in {"granted", "running"} /\ request[c].id = s
    /\ \A s \in SessionId : holder[s] = NoCall => waiting[s] = <<>>
    /\ \A c \in Call : inventory = c <=> pc[c] = "building"

\* With its threads and locks the server is the service that carries out one
\* call at a time on a session, first come first served, also for calls that
\* found a session before it was detached: no update is lost, and an answer
\* is about the state the call has left.
Implements == Service!Spec

\* Every request ends, although a few threads carry out all of the scans and
\* wait for the inventory: with an answer, or with a panic.  Only a request
\* that is overtaken at the inventory again and again may wait for ever.
EveryCallEnds ==
    \A c \in Call :
        /\ pc[c] # "idle" ~> pc[c] \in {"idle", "lost", "wanting"}
        /\ <>[](pc[c] = "wanting") => []<>(\E d \in Call \ {c} : pc[d] = "building")

\* "List all active sessions." (server.rs:126): such a request is answered.
ListIsAnswered == \A c \in lost : request[c].tool # "list_sessions"

=============================================================================
