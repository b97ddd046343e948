-------------------------------- MODULE Repl --------------------------------
(***************************************************************************)
(* The command line on top of a session: one line after the other is read  *)
(* and carried out.  A call that fails leaves the loop, and with it the    *)
(* program.  `write .. c` starts a thread with a memory object of its own, *)
(* which writes a value again and again until the user presses Enter;      *)
(* meanwhile the loop waits and the session is not used.                   *)
(*                                                                         *)
(* The loop on a raw view is this one without the commands of ProcessNext. *)
(***************************************************************************)
EXTENDS Session

VARIABLES
    phase,      \* where the loop is, see Phases
    stop,       \* the flag the loop shares with the writer
    writer      \* the writer thread, see Idle

repl == <<phase, stop, writer>>
rvars == <<vars, repl>>

\* quit: ended by the user, the history is saved; failed: ended by an error.
Phases == {"prompt", "writing", "stopping", "quit", "failed"}

\* No thread.  A thread has what it writes where, and its place in the list;
\* past the end it looks at the flag.
Idle == [on |-> FALSE, addrs |-> <<>>, data |-> <<>>, next |-> 1]

RInit == Init /\ phase = "prompt" /\ stop = FALSE /\ writer = Idle

Failed == ret'.out # "ok"

\* A line that is one call of the session.
Command(call) ==
    /\ phase = "prompt"
    /\ call
    /\ phase' = IF Failed THEN "failed" ELSE "prompt"
    /\ UNCHANGED <<stop, writer>>

\* A word is missing, or is not the number it should be.
BadLine == Command(Answer("line", "invalid"))

\* The end of the input, ^C or `quit`.
Quit ==
    /\ phase = "prompt" /\ phase' = "quit"
    /\ UNCHANGED <<vars, stop, writer>>

-----------------------------------------------------------------------------
\* Faulty variant: a line of two words is a first scan whatever is selected.
ScanInputAnyType(t, v) ==
    /\ phase = "prompt"
    /\ ScanValue(t, v)
    /\ \/ ~Failed /\ phase' = "prompt"
       \/ /\ Failed \/ \E i \in 1..Len(matches') : ~Solid(matches'[i], bufLen')
          /\ phase' = "failed"
    /\ UNCHANGED <<stop, writer>>

\* A line that is no command, with no type selected: a first scan, and the
\* matches are read back at once, which may fail as well.
ScanInput(t, v) ==
    /\ phase = "prompt" /\ typename = NoType
    /\ ScanValue(t, v)
    /\ \/ ~Failed /\ phase' = "prompt"
       \/ /\ Failed \/ \E i \in 1..Len(matches') : ~Solid(matches'[i], bufLen')
          /\ phase' = "failed"
    /\ UNCHANGED <<stop, writer>>

\* The same with a type selected: a filter.
FilterInput(v) == typename # NoType /\ Command(FilterValue(v))

ViewCommand ==
    \/ Reset
    \/ \E t \in TypeName, len \in Lens \cup {NoLen} : SetType(t, len)
    \/ \E a \in Addr : AddMatch(a)
    \/ \E i \in 1..(MaxMatches + 1) : RemoveMatch(i)
    \/ ReadMatches(MaxMatches)
    \/ \E target \in {AllMatches} \cup 1..(MaxMatches + 1), v \in Value :
          WriteValue(target, v)
    \/ \E p \in Pattern : SigScan(p)

\* The signature maker reads only.
SigmakerCommand ==
    \E out \in {"ok", "invalid", "memory"} : Answer("sigmaker", out)

-----------------------------------------------------------------------------
(***************************************************************************)
(* continuous_write.                                                       *)
(***************************************************************************)
\* Every thread gets a flag of its own.
FreshFlag == FALSE

StartWriting(target, v) ==
    /\ phase = "prompt"
    /\ UNCHANGED <<mem, session>>
    /\ IF typename = NoType
         THEN /\ Return("continuous_write", "uninit", <<>>)
              /\ phase' = "failed" /\ UNCHANGED <<stop, writer>>
         ELSE IF \/ Parse[typename][v] = Malformed
                 \/ target # AllMatches /\ target \notin 1..Len(matches)
         THEN /\ Return("continuous_write", "invalid", <<>>)
              /\ phase' = "failed" /\ UNCHANGED <<stop, writer>>
         ELSE LET ms == IF target = AllMatches THEN matches
                                               ELSE <<matches[target]>>
              IN  /\ Return("continuous_write", "ok", Parse[typename][v])
                  /\ phase' = "writing" /\ stop' = FreshFlag
                  /\ writer' = [on |-> TRUE, addrs |-> ms,
                                data |-> Parse[typename][v],
                                next |-> Len(ms) + 1]

\* Faulty variant: the thread ends at the first write that fails.
WriteNextOrEnd ==
    /\ writer.on /\ writer.next <= Len(writer.addrs)
    /\ LET a == writer.addrs[writer.next]
       IN  \/ /\ mem' \in Written(mem, <<a>>, writer.data, 1)
              /\ writer' = [writer EXCEPT !.next = @ + 1]
           \/ ~Solid(a, Len(writer.data)) /\ UNCHANGED mem
              /\ writer' = [writer EXCEPT !.on = FALSE]
    /\ UNCHANGED <<session, ret, phase, stop>>

\* The thread writes at the next address; if that fails it goes on.
WriteNext ==
    /\ writer.on /\ writer.next <= Len(writer.addrs)
    /\ LET a == writer.addrs[writer.next]
       IN  \/ mem' \in Written(mem, <<a>>, writer.data, 1)
           \/ ~Solid(a, Len(writer.data)) /\ UNCHANGED mem
    /\ writer' = [writer EXCEPT !.next = @ + 1]
    /\ UNCHANGED <<session, ret, phase, stop>>

\* Faulty variant: the flag is not looked at.
NextRoundDeaf ==
    /\ writer.on /\ writer.next > Len(writer.addrs)
    /\ writer' = [writer EXCEPT !.next = 1]
    /\ UNCHANGED <<vars, phase, stop>>

\* At the head of its loop the thread looks at the flag, and starts over.
NextRound ==
    /\ writer.on /\ writer.next > Len(writer.addrs)
    /\ writer' = IF stop THEN [writer EXCEPT !.on = FALSE]
                         ELSE [writer EXCEPT !.next = 1]
    /\ UNCHANGED <<vars, phase, stop>>

\* The user presses Enter; an end or an error of the input does the same.
Enter ==
    /\ phase = "writing" /\ phase' = "stopping" /\ stop' = TRUE
    /\ UNCHANGED <<vars, writer>>

\* Faulty variant: the thread is not waited for.
JoinNot ==
    /\ phase = "stopping" /\ phase' = "prompt"
    /\ UNCHANGED <<vars, stop, writer>>

\* The loop waits for the thread and says that the writing has stopped.
Join ==
    /\ phase = "stopping" /\ ~writer.on
    /\ phase' = "prompt" /\ writer' = Idle
    /\ UNCHANGED <<vars, stop>>

-----------------------------------------------------------------------------
\* What the loop of a raw view does.
ViewNext ==
    \/ Command(ViewCommand)
    \/ \E t \in TypeName, v \in Value : ScanInput(t, v)
    \/ \E v \in Value : FilterInput(v)
    \/ BadLine \/ Quit
    \/ \E target \in {AllMatches} \cup 1..(MaxMatches + 1), v \in Value :
          StartWriting(target, v)
    \/ WriteNext \/ NextRound \/ Enter \/ Join

\* What the loop of a process does besides.
ProcessNext == Command(ProcessCall) \/ Command(SigmakerCommand)

Target == \E a \in Mapped, b \in Byte : TargetWrite(a, b) /\ UNCHANGED repl

RNext == ViewNext \/ (IsProcess /\ ProcessNext) \/ Target

\* The two threads are the operating system's, which runs each of them; what
\* the user and the target do is up to them.
RSpec ==
    /\ RInit /\ [][RNext]_rvars
    /\ WF_rvars(WriteNext \/ NextRound)
    /\ WF_rvars(Join)

-----------------------------------------------------------------------------
(***************************************************************************)
(* Properties.                                                             *)
(***************************************************************************)

\* Each variable keeps its type, and the thread has its place in its list.
ReplTypeOK ==
    /\ phase \in Phases /\ stop \in BOOLEAN
    /\ writer.on => writer.next \in 1..(Len(writer.addrs) + 1)
    /\ phase = "writing" => writer.on /\ ~stop
    /\ phase \notin {"writing", "stopping"} => writer = Idle

\* Once the loop has said that the writing has stopped nothing writes but the
\* commands of the user and the target itself: no thread is left behind, to
\* write once more over what the user writes next (repl.rs:406-421).
NoWriterLeft == phase \notin {"writing", "stopping"} => ~writer.on

\* As long as the user does not press Enter each match that can be written
\* gets the value again and again, whatever the target does to it, and though
\* the writes to other matches may fail (repl.rs:407-412).
Frozen ==
    \A a \in Mapped :
        <>[](/\ phase = "writing"
             /\ a \in Range(writer.addrs) /\ Solid(a, Len(writer.data)))
          => []<>Holds(mem, a, writer.data)

\* After Enter the prompt comes back (repl.rs:407, 419-420).
PromptComesBack == phase = "stopping" ~> phase = "prompt"

\* In the REPL a first scan is one: it scans all of memory.  scan_value does
\* so only on a scanner that was reset, and the REPL, which takes a line for a
\* first scan when no type is selected, relies on the session to have reset
\* its scanner whenever it has no type (repl.rs:438-448).
FirstScanIsWhole ==
    [][ret'.op = "scan_value" /\ ret'.out = "ok" =>
         SurelyFound(mem, ret'.data) \subseteq Range(matches')]_rvars

=============================================================================
