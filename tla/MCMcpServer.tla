---------------------------- MODULE MCMcpServer -----------------------------
(***************************************************************************)
(* Three requests at a time on two sessions: two of them compete for a     *)
(* session while the third detaches it or works on the other one.  With    *)
(* one thread a scan keeps every other task waiting.                       *)
(***************************************************************************)
EXTENDS McpServer, TLC

AllTools == {"use", "reset", "process_only", "detach", "attach_process",
             "attach_view", "list_processes", "list_sessions"}

\* A tool that panics, one that does not, and the two that open a target:
\* the others wait for the same things.
SomeTools == {"use", "reset", "attach_view", "list_processes"}

\* No action and no safety property tells requests or ids apart.
Symmetry == Permutations(Call) \cup Permutations(SessionId)

=============================================================================
