--------------------------------- MODULE Cli ---------------------------------
(***************************************************************************)
(* The program scanflow-cli from its start: the arguments decide whether a *)
(* process or a raw view is opened, and whether one subcommand is carried  *)
(* out on the new session or the loop of Repl is entered.                  *)
(*                                                                         *)
(* The processes of the operating system come and go between the moment    *)
(* the list is read and the moment the entry found is opened.  Raising     *)
(* privileges and the log come before all this and are left out.           *)
(***************************************************************************)
EXTENDS Repl

CONSTANTS
    Pid, NameOf,        \* the processes there may be, and their names
    NoPid, NoProgram,   \* an argument that is not given
    Args,               \* records [chain, pid, program, sub]
    Nobody, View        \* nothing is opened; the raw view is

ASSUME CliAssumption ==
    /\ NoPid \notin Pid /\ View \notin Pid /\ Nobody \notin Pid \cup {View}
    /\ Args \subseteq [chain : {"os", "connector"}, pid : Pid \cup {NoPid},
                       program : Range(NameOf) \cup {NoProgram},
                       sub : {"repl", "one"}]

VARIABLES
    args,       \* the command line, until it has been acted on
    running,    \* the processes of the operating system, until one is opened
    through,    \* history: those of them that have run since the start
    listing,    \* the processes found by name
    opened      \* what the session is on

start == <<args, running, through, listing, opened>>
cvars == <<rvars, start>>

NoArgs == [chain |-> "os", pid |-> NoPid, program |-> NoProgram, sub |-> "repl"]

CInit ==
    /\ Init /\ stop = FALSE /\ writer = Idle /\ phase = "start"
    /\ args \in Args
    /\ running \in SUBSET Pid /\ through = running
    /\ listing = {} /\ opened = Nobody

-----------------------------------------------------------------------------
Settled == args' = NoArgs /\ running' = {} /\ through' = {} /\ listing' = {}

\* Any other error of the start ends the program.
StartFails ==
    /\ phase \in {"start", "listed"}
    /\ phase' = "failed" /\ Settled
    /\ UNCHANGED <<vars, stop, writer, opened>>

\* ArgValidation: an operating system without a program, a process id or not;
\* a view with either of them.
StartRefused ==
    /\ phase = "start"
    /\ \/ args.chain = "os" /\ args.program = NoProgram
       \/ args.chain = "connector" /\ (args.program # NoProgram \/ args.pid # NoPid)
    /\ Answer("start", "invalid")
    /\ phase' = "failed" /\ Settled
    /\ UNCHANGED <<stop, writer, opened>>

\* A session is made, for the loop or for one call.
Open(what) ==
    /\ opened' = what
    /\ phase' = IF args.sub = "repl" THEN "prompt" ELSE "oneshot"
    /\ Settled
    /\ UNCHANGED <<vars, stop, writer>>

\* The chain has no operating system, and no process is asked for.
StartView ==
    /\ phase = "start" /\ args.chain = "connector"
    /\ args.program = NoProgram /\ args.pid = NoPid
    /\ Open(View)

\* The chain has an operating system: there must be a program name, and a
\* process id goes before it.
OpenByPid ==
    /\ phase = "start" /\ args.chain = "os" /\ args.program # NoProgram
    /\ args.pid \in running
    /\ Open(args.pid)

ListProcesses ==
    /\ phase = "start" /\ args.chain = "os"
    /\ args.program # NoProgram /\ args.pid = NoPid
    /\ listing' = {p \in running : NameOf[p] = args.program}
    /\ phase' = "listed"
    /\ UNCHANGED <<vars, stop, writer, args, running, through, opened>>

\* Faulty variant: the first of several processes of the name is taken.
OpenFirst ==
    /\ phase = "listed"
    /\ \E p \in listing \cap running : Open(p)

\* Exactly one has the name; it may have ended since.
OpenOnly ==
    /\ phase = "listed"
    /\ \E p \in running : listing = {p} /\ Open(p)

\* A process starts or ends while the program is starting.
Processes ==
    /\ phase \in {"start", "listed"}
    /\ \E p \in Pid : running' = (running \cup {p}) \ (running \cap {p})
    /\ through' = through \cap running'
    /\ UNCHANGED <<rvars, args, listing, opened>>

-----------------------------------------------------------------------------
\* One call on the new session, and the end of the program.
OneShot(call) ==
    /\ phase = "oneshot"
    /\ call
    /\ phase' = IF Failed THEN "failed" ELSE "quit"
    /\ UNCHANGED <<stop, writer, start>>

\* read and modules change nothing.
ReadCommand == \E out \in {"ok", "memory"} : Answer("read", out)

\* dispatch_view, and the part dispatch_process has in common with it; write
\* without an index and without --all is refused.
DispatchView ==
    \/ \E t \in TypeName, v \in Value : ScanValue(t, v)
    \/ \E v \in Value : FilterValue(v)
    \/ \E p \in Pattern : SigScan(p)
    \/ \E target \in {AllMatches} \cup 1..(MaxMatches + 1), v \in Value :
          WriteValue(target, v)
    \/ Answer("write_value", "invalid")
    \/ ReadMatches(MaxMatches)
    \/ Reset
    \/ ReadCommand

\* The commands of a process: a view refuses them.
DispatchProcess ==
    \/ opened = View /\ Answer("command", "invalid")
    \/ opened # View /\ (ProcessCall \/ SigmakerCommand)

CTarget == phase \notin {"start", "listed"} /\ Target /\ UNCHANGED start

CNext ==
    \/ StartFails \/ StartRefused \/ StartView \/ OpenByPid \/ ListProcesses \/ OpenOnly
    \/ Processes
    \/ OneShot(DispatchView) \/ OneShot(DispatchProcess)
    \/ ViewNext /\ UNCHANGED start
    \/ opened \in Pid /\ ProcessNext /\ UNCHANGED start
    \/ CTarget

\* As in Repl: the two threads run; users, target and processes need not.
CliSpec ==
    /\ CInit /\ [][CNext]_cvars
    /\ WF_rvars(WriteNext \/ NextRound)
    /\ WF_rvars(Join)

-----------------------------------------------------------------------------
(***************************************************************************)
(* Properties.                                                             *)
(***************************************************************************)
\* A process session is on what was asked for: on the process with the id
\* given, or else on one of the name while no other process of that name was
\* there all along, however the processes came and went meanwhile
\* (main.rs:151-176).
AttachedAsAsked ==
    [][opened' # opened /\ opened' \in Pid =>
         /\ opened' \in running
         /\ IF args.pid # NoPid
            THEN opened' = args.pid
            ELSE /\ NameOf[opened'] = args.program
                 /\ \A p \in through \ {opened'} : NameOf[p] # args.program]_cvars

=============================================================================
