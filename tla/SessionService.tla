--------------------------- MODULE SessionService ---------------------------
(***************************************************************************)
(* What the MCP server promises its clients, without threads and locks: a  *)
(* registry of sessions, each with the queue of the calls that found it,   *)
(* and the call at the head of a queue is carried out in one step.  A      *)
(* session that is detached still serves the calls that found it before.   *)
(***************************************************************************)
EXTENDS Integers, Sequences, Functions

CONSTANTS
    Call,           \* the requests the clients have open at a time
    Tools,          \* the tools the clients call
    SessionId,      \* the ids uuid yields
    NoCall,         \* no request
    Versions        \* the states of a session are numbered modulo Versions

VARIABLES
    sessions,       \* the ids in the registry
    kind,           \* "process", "view", or "none" for an id not issued yet
    state,          \* the state of each session
    queue,          \* per session the calls that found it, first come first
    request,        \* the open request of each call
    lost,           \* the calls that will never be answered
    answer          \* the last answer

registry == <<sessions, kind>>
vars == <<registry, state, queue, request, lost, answer>>

SessionCalls ==
    [tool : {"use", "reset", "process_only"}, id : SessionId]

Requests ==
    {r \in SessionCalls
             \cup [tool : {"detach"}, id : SessionId]
             \cup [tool : {"attach_process", "attach_view", "list_processes",
                           "list_sessions"}] :
        r.tool \in Tools}

Open(c, tool) == request[c] # NoCall /\ request[c].tool = tool /\ c \notin lost

Reply(c, out, version) ==
    /\ answer' = [out |-> out, version |-> version]
    /\ request' = [request EXCEPT ![c] = NoCall]
    /\ UNCHANGED lost

Init ==
    /\ sessions = {} /\ kind = [s \in SessionId |-> "none"]
    /\ state = [s \in SessionId |-> 0]
    /\ queue = [s \in SessionId |-> <<>>]
    /\ request = [c \in Call |-> NoCall] /\ lost = {}
    /\ answer = [out |-> "none", version |-> 0]

Submit(c) ==
    /\ request[c] = NoCall
    /\ \E r \in Requests : request' = [request EXCEPT ![c] = r]
    /\ UNCHANGED <<registry, state, queue, lost, answer>>

\* The id of a new session was never used before.
Attach(c, k) ==
    /\ \/ \E s \in SessionId :
             /\ kind[s] = "none"
             /\ sessions' = sessions \cup {s}
             /\ kind' = [kind EXCEPT ![s] = k]
             /\ Reply(c, "ok", 0)
       \/ Reply(c, "error", 0) /\ UNCHANGED registry
    /\ UNCHANGED <<state, queue>>

AttachProcess(c) == Open(c, "attach_process") /\ Attach(c, "process")

AttachView(c) == Open(c, "attach_view") /\ Attach(c, "view")

ListProcesses(c) ==
    /\ Open(c, "list_processes")
    /\ \E out \in {"ok", "error"} : Reply(c, out, 0)
    /\ UNCHANGED <<registry, state, queue>>

Detach(c) ==
    /\ Open(c, "detach")
    /\ sessions' = sessions \ {request[c].id}
    /\ Reply(c, IF request[c].id \in sessions THEN "ok" ELSE "absent", 0)
    /\ UNCHANGED <<kind, state, queue>>

\* A listing is answered or lost.
List(c) ==
    /\ Open(c, "list_sessions")
    /\ \/ Reply(c, "ok", 0)
       \/ lost' = lost \cup {c} /\ UNCHANGED <<request, answer>>
    /\ UNCHANGED <<registry, state, queue>>

-----------------------------------------------------------------------------
\* A call on a session that has not looked its session up yet.
Arriving(c) ==
    /\ request[c] \in SessionCalls /\ c \notin lost
    /\ c \notin Range(queue[request[c].id])

NotFound(c) ==
    /\ Arriving(c) /\ request[c].id \notin sessions
    /\ Reply(c, "not_found", 0)
    /\ UNCHANGED <<registry, state, queue>>

Accept(c) ==
    /\ Arriving(c) /\ request[c].id \in sessions
    /\ queue' = [queue EXCEPT ![request[c].id] = Append(@, c)]
    /\ UNCHANGED <<registry, state, request, lost, answer>>

Later(v) == (v + 1) % Versions

\* What a tool may answer, in which state v it finds the session, and in
\* which state w it leaves it.  A call that fails may have done a part.
Outcome(tool, k, v, out, w) ==
    \/ tool = "reset" /\ out = "ok" /\ w = 0
    \/ tool = "use" /\ out \in {"ok", "error"} /\ w \in {v, Later(v)}
    \/ /\ tool = "process_only" /\ k = "process"
       /\ out \in {"ok", "error"} /\ w \in {v, Later(v)}
    \/ tool = "process_only" /\ k = "view" /\ out = "error" /\ w = v

\* The call at the head is served; its answer tells the state it leaves.
Serve(c) ==
    \E s \in SessionId :
       /\ queue[s] # <<>> /\ c = Head(queue[s])
       /\ queue' = [queue EXCEPT ![s] = Tail(@)]
       /\ \E out \in {"ok", "error"}, w \in 0 .. Versions - 1 :
             /\ Outcome(request[c].tool, kind[s], state[s], out, w)
             /\ state' = [state EXCEPT ![s] = w]
             /\ Reply(c, out, w)
       /\ UNCHANGED registry

\* Or it is lost, and the calls behind it go on.
Lose(c) ==
    \E s \in SessionId :
       /\ queue[s] # <<>> /\ c = Head(queue[s])
       /\ queue' = [queue EXCEPT ![s] = Tail(@)]
       /\ lost' = lost \cup {c}
       /\ UNCHANGED <<registry, state, request, answer>>

Next ==
    \E c \in Call :
       \/ Submit(c) \/ AttachProcess(c) \/ AttachView(c) \/ ListProcesses(c)
       \/ Detach(c) \/ List(c) \/ NotFound(c) \/ Accept(c) \/ Serve(c) \/ Lose(c)

Spec == Init /\ [][Next]_vars

=============================================================================
