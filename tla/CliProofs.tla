------------------------------ MODULE CliProofs ------------------------------
(***************************************************************************)
(* The program from its start: what ReplProofs shows of the loop holds for *)
(* the whole program, for every set of processes and arguments.  Until the *)
(* loop begins, and for the one call of a subcommand, the session is new:  *)
(* it has no type, and cannot take a scan for a filter.                    *)
(***************************************************************************)
EXTENDS Cli, ReplProofs

New == phase \in {"start", "listed", "oneshot"} => typename = NoType

\* The listing holds every process of the name that was there all along.
Listed ==
    /\ through \subseteq running /\ running \subseteq Pid
    /\ phase \in {"start", "listed"} => opened = Nobody
    /\ phase = "listed" =>
          /\ args.pid = NoPid
          /\ \A p \in listing : NameOf[p] = args.program
          /\ \A p \in through : NameOf[p] = args.program => p \in listing

CliInv == ReplInv /\ New

Whole == ret'.op = "scan_value" /\ ret'.out = "ok" =>
            SurelyFound(mem, ret'.data) \subseteq Range(matches')

-----------------------------------------------------------------------------
\* The steps before there is a session leave it alone.
LEMMA StartKeeps2 ==
  ASSUME CliInv, UNCHANGED <<vars, stop, writer>>,
         phase \in {"start", "listed"}, phase' \notin {"writing", "stopping"}
  PROVE  CliInv' /\ Whole
<1>1. Fitting'
  BY StutterFitting DEF CliInv, ReplInv, vars
<1>2. ~(ret.op = "scan_value" /\ ret.out = "ok")
  BY DEF CliInv, ReplInv, ScanAnswered
<1>3. typename = NoType /\ ret' = ret /\ typename' = typename /\ scanned' = scanned
  BY DEF CliInv, New, vars, session, scanner, selection
<1> QED
  BY <1>1, <1>2, <1>3 DEF CliInv, ReplInv, Fresh, ScanAnswered, NoWriterLeft, New,
                          Whole

\* A call that is no first scan, made of a new session.
LEMMA CallKeeps ==
  ASSUME CliInv, phase = "oneshot", UNCHANGED writer,
         phase' \in {"quit", "failed"}, Fitting', Fresh', ret'.op # "scan_value"
  PROVE  CliInv' /\ Whole
<1>1. ReplInv'
  BY CommandKeeps DEF CliInv
<1> QED
  BY <1>1 DEF CliInv, New, Whole

LEMMA ViewCallKeeps ==
  ASSUME CliInv, phase = "oneshot", UNCHANGED writer,
         phase' \in {"quit", "failed"}, DispatchView
  PROVE  CliInv' /\ Whole
<1>1. Fitting /\ Fresh /\ ReplInv /\ typename = NoType
  BY DEF CliInv, ReplInv, New
<1>2. ASSUME NEW t \in TypeName, NEW v \in Value, ScanValue(t, v)
      PROVE  CliInv' /\ Whole
  <2>1. ReplInv' /\ Whole
    BY <1>1, <1>2, FirstScanKeeps DEF Whole
  <2> QED
    BY <2>1 DEF CliInv, New
<1>3. ASSUME NEW v \in Value, FilterValue(v)
      PROVE  CliInv' /\ Whole
  <2>1. Answer("filter_value", "uninit")
    BY <1>1, <1>3 DEF FilterValue
  <2>2. Fitting' /\ Fresh' /\ ret'.op = "filter_value"
    BY <1>1, <2>1, AnswerKeeps
  <2> QED
    BY <2>2, CallKeeps
<1>4. ASSUME NEW target \in {AllMatches} \cup 1..(MaxMatches + 1), NEW v \in Value,
             WriteValue(target, v)
      PROVE  CliInv' /\ Whole
  <2>1. Answer("write_value", "uninit")
    BY <1>1, <1>4 DEF WriteValue
  <2>2. Fitting' /\ Fresh' /\ ret'.op = "write_value"
    BY <1>1, <2>1, AnswerKeeps
  <2> QED
    BY <2>2, CallKeeps
<1>5. ASSUME NEW p \in Pattern, SigScan(p)
      PROVE  CliInv' /\ Whole
  <2>1. Fitting' /\ Fresh' /\ ret'.op # "scan_value"
    BY <1>1, <1>5, ViewCommandKeeps DEF ViewCommand
  <2> QED
    BY <2>1, CallKeeps
<1>6. CASE ReadMatches(MaxMatches) \/ Reset
  <2>1. Fitting' /\ Fresh' /\ ret'.op # "scan_value"
    BY <1>1, <1>6, ViewCommandKeeps DEF ViewCommand
  <2> QED
    BY <2>1, CallKeeps
<1>7. CASE Answer("write_value", "invalid")
  <2>1. Fitting' /\ Fresh' /\ ret'.op = "write_value"
    BY <1>1, <1>7, AnswerKeeps
  <2> QED
    BY <2>1, CallKeeps
<1>8. CASE ReadCommand
  <2>1. PICK out \in {"ok", "memory"} : Answer("read", out)
    BY <1>8 DEF ReadCommand
  <2>2. Fitting' /\ Fresh' /\ ret'.op = "read"
    BY <1>1, <2>1, AnswerKeeps
  <2> QED
    BY <2>2, CallKeeps
<1> QED
  BY <1>2, <1>3, <1>4, <1>5, <1>6, <1>7, <1>8 DEF DispatchView

LEMMA ProcessCallKeeps ==
  ASSUME CliInv, phase = "oneshot", UNCHANGED writer,
         phase' \in {"quit", "failed"}, DispatchProcess
  PROVE  CliInv' /\ Whole
<1>1. Fitting /\ Fresh
  BY DEF CliInv, ReplInv
<1>2. CASE Answer("command", "invalid")
  <2>1. Fitting' /\ Fresh' /\ ret'.op = "command"
    BY <1>1, <1>2, AnswerKeeps
  <2> QED
    BY <2>1, CallKeeps
<1>3. CASE ProcessCall
  <2>1. Fitting' /\ Fresh' /\ ret'.op # "scan_value"
    BY <1>1, <1>3, ProcessCommandKeeps
  <2> QED
    BY <2>1, CallKeeps
<1>4. CASE SigmakerCommand
  <2>1. PICK out \in {"ok", "invalid", "memory"} : Answer("sigmaker", out)
    BY <1>4 DEF SigmakerCommand
  <2>2. Fitting' /\ Fresh' /\ ret'.op = "sigmaker"
    BY <1>1, <2>1, AnswerKeeps
  <2> QED
    BY <2>2, CallKeeps
<1> QED
  BY <1>2, <1>3, <1>4 DEF DispatchProcess

-----------------------------------------------------------------------------
\* A step of the loop, or of the target.
LEMMA LoopKeeps ==
  ASSUME CliInv, ViewNext \/ ProcessNext \/ CTarget
  PROVE  CliInv' /\ (Whole \/ UNCHANGED rvars)
<1>1. ReplInv
  BY DEF CliInv
<1>2. CASE ViewNext \/ ProcessNext
  <2>1. ReplInv' /\ (Whole \/ UNCHANGED rvars)
    <3>1. CASE Command(ProcessCall)
      BY <1>1, <3>1, ProcessCommandKeeps, CommandKeeps DEF Command, ReplInv, Whole
    <3>2. CASE Command(SigmakerCommand)
      <4>1. PICK out \in {"ok", "invalid", "memory"} : Answer("sigmaker", out)
        BY <3>2 DEF Command, SigmakerCommand
      <4>2. Fitting' /\ Fresh' /\ ret'.op = "sigmaker"
        BY <1>1, <4>1, AnswerKeeps DEF ReplInv
      <4> QED
        BY <1>1, <3>2, <4>2, CommandKeeps DEF Command, Whole
    <3>3. CASE ViewNext
      BY <1>1, <3>3, ReplStep DEF RNext, Whole
    <3> QED
      BY <1>2, <3>1, <3>2, <3>3 DEF ProcessNext
  <2>2. /\ phase \in {"prompt", "writing", "stopping"}
        /\ phase' \in {"prompt", "writing", "stopping", "quit", "failed"}
    <3>1. CASE WriteNext \/ NextRound
      BY <1>1, <3>1 DEF WriteNext, NextRound, ReplInv, NoWriterLeft
    <3> QED
      BY <1>2, <3>1 DEF ViewNext, ProcessNext, Command, ScanInput, FilterInput,
                        BadLine, Quit, StartWriting, Enter, Join
  <2> QED
    BY <2>1, <2>2 DEF CliInv, New
<1>3. CASE CTarget
  <2>1. PICK a \in Mapped, b \in Byte : TargetWrite(a, b) /\ UNCHANGED repl
    BY <1>3 DEF CTarget, Target
  <2>2. ReplInv' /\ ret'.op = "target" /\ UNCHANGED <<session, phase>>
    BY <1>1, <2>1, TargetKeeps DEF TargetWrite, Return, Count, repl
  <2> QED
    BY <2>2 DEF CliInv, New, Whole, session, scanner, selection
<1> QED
  BY <1>2, <1>3

\* So does the answer that the arguments are refused.
LEMMA RefusedKeeps ==
  ASSUME CliInv, StartRefused
  PROVE  CliInv' /\ Whole
<1>1. Fitting /\ Fresh /\ Answer("start", "invalid") /\ phase' = "failed"
      /\ UNCHANGED writer /\ phase = "start"
  BY DEF StartRefused, CliInv, ReplInv
<1>2. Fitting' /\ Fresh' /\ ret'.op = "start"
  BY <1>1, AnswerKeeps
<1>3. ScanAnswered' /\ NoWriterLeft'
  BY <1>1, <1>2 DEF ScanAnswered, NoWriterLeft, CliInv, ReplInv
<1> QED
  BY <1>1, <1>2, <1>3 DEF CliInv, ReplInv, New, Whole

LEMMA CliStep ==
  ASSUME CliInv, [CNext]_cvars
  PROVE  CliInv' /\ (Whole \/ UNCHANGED rvars)
<1>1. CASE StartFails \/ StartView \/ OpenByPid \/ ListProcesses \/ OpenOnly
           \/ Processes
  <2>1. /\ UNCHANGED <<vars, stop, writer>>
        /\ phase \in {"start", "listed"} /\ phase' \notin {"writing", "stopping"}
    BY <1>1 DEF StartFails, StartView, OpenByPid, ListProcesses, OpenOnly, Open,
                Processes, rvars, repl
  <2> QED
    BY <2>1, StartKeeps2
<1>2. CASE OneShot(DispatchView)
  BY <1>2, ViewCallKeeps DEF OneShot
<1>3. CASE OneShot(DispatchProcess)
  BY <1>3, ProcessCallKeeps DEF OneShot
<1>4. CASE ViewNext \/ ProcessNext \/ CTarget
  BY <1>4, LoopKeeps
<1>5. CASE StartRefused
  BY <1>5, RefusedKeeps
<1>6. CASE UNCHANGED cvars
  <2>1. Fitting' /\ UNCHANGED rvars
    BY <1>6, StutterFitting DEF cvars, rvars, vars, CliInv, ReplInv
  <2> QED
    BY <1>6, <2>1 DEF CliInv, New, ReplInv, Fresh, ScanAnswered, NoWriterLeft, rvars,
                      vars, repl, session, scanner, selection
<1> QED
  BY <1>1, <1>2, <1>3, <1>4, <1>5, <1>6 DEF CNext

LEMMA CliInductive == CliSpec => []CliInv
<1>1. CInit => CliInv
  BY InitFitting DEF CInit, Init, CliInv, New, ReplInv, Fresh, ScanAnswered,
                     NoWriterLeft, Idle
<1>2. CliInv /\ [CNext]_cvars => CliInv'
  BY CliStep
<1> QED
  BY <1>1, <1>2, PTL DEF CliSpec

LEMMA ListedInductive == CliSpec => []Listed
<1>1. CInit => Listed
  BY DEF CInit, Listed
<1>2. Listed /\ [CNext]_cvars => Listed'
  <2> SUFFICES ASSUME Listed, [CNext]_cvars PROVE Listed'
    OBVIOUS
  <2>1. CASE ListProcesses
    BY <2>1 DEF ListProcesses, Listed
  <2>2. CASE Processes
    BY <2>2 DEF Processes, Listed, rvars, repl
  <2>3. CASE StartFails \/ StartRefused \/ StartView \/ OpenByPid \/ OpenOnly
    BY <2>3 DEF StartFails, StartRefused, StartView, OpenByPid, OpenOnly, Open,
                Settled, Listed
  <2>4. CASE UNCHANGED start /\ (phase' \in {"start", "listed"} => phase' = phase)
    BY <2>4 DEF start, Listed
  <2>5. CASE OneShot(DispatchView) \/ OneShot(DispatchProcess)
    BY <2>4, <2>5 DEF OneShot
  <2>6. CASE UNCHANGED start /\ (ViewNext \/ ProcessNext \/ CTarget)
    <3>1. phase' \in {"start", "listed"} => phase' = phase
      BY <2>6 DEF ViewNext, ProcessNext, Command, ScanInput, FilterInput, BadLine,
                  Quit, StartWriting, WriteNext, NextRound, Enter, Join, CTarget,
                  Target, repl
    <3> QED
      BY <2>4, <2>6, <3>1
  <2>7. CASE UNCHANGED cvars
    BY <2>4, <2>7 DEF cvars, rvars, repl
  <2> QED
    BY <2>1, <2>2, <2>3, <2>5, <2>6, <2>7 DEF CNext, CTarget
<1> QED
  BY <1>1, <1>2, PTL DEF CliSpec

-----------------------------------------------------------------------------
(***************************************************************************)
(* The theorems.                                                           *)
(***************************************************************************)
\* Wherever the program is but in `write .. c`, no writer thread is running
\* (repl.rs:406-421).
THEOREM CliLeavesNoWriter == CliSpec => []NoWriterLeft
<1>1. CliInv => NoWriterLeft
  BY DEF CliInv, ReplInv
<1> QED
  BY <1>1, CliInductive, PTL

\* A first scan, from the loop or as a subcommand, finds everything a first
\* pass has to find (repl.rs:438-448, commands.rs:25-29).
THEOREM CliFirstScanIsWhole == CliSpec => FirstScanIsWhole
<1>1. CliInv /\ [CNext]_cvars =>
        [ret'.op = "scan_value" /\ ret'.out = "ok" =>
           SurelyFound(mem, ret'.data) \subseteq Range(matches')]_rvars
  BY CliStep DEF Whole
<1> QED
  BY <1>1, CliInductive, PTL DEF CliSpec, FirstScanIsWhole

\* A process session is on the process the arguments ask for, however the
\* processes come and go meanwhile (main.rs:151-176).
THEOREM CliAttachesAsAsked == CliSpec => AttachedAsAsked
<1> DEFINE Asked ==
       opened' # opened /\ opened' \in Pid =>
         /\ opened' \in running
         /\ IF args.pid # NoPid
            THEN opened' = args.pid
            ELSE /\ NameOf[opened'] = args.program
                 /\ \A p \in through \ {opened'} : NameOf[p] # args.program
<1>1. Listed /\ [CNext]_cvars => [Asked]_cvars
  <2> SUFFICES ASSUME Listed, CNext PROVE Asked
    BY DEF cvars
  <2>1. CASE StartView
    BY <2>1, CliAssumption DEF StartView, Open
  <2>2. CASE OpenByPid
    <3>1. args.pid \in running /\ args.pid # NoPid /\ args.pid # View
      BY <2>2, CliAssumption DEF OpenByPid, Listed
    <3> QED
      BY <2>2, <3>1 DEF OpenByPid, Open
  <2>3. CASE OpenOnly
    <3>1. PICK p \in running : listing = {p} /\ Open(p) /\ p # View
      BY <2>3, CliAssumption DEF OpenOnly, Listed
    <3>2. /\ args.pid = NoPid /\ NameOf[p] = args.program
          /\ \A q \in through : NameOf[q] = args.program => q = p
      BY <2>3, <3>1 DEF OpenOnly, Listed
    <3> QED
      BY <3>1, <3>2 DEF Open
  <2>4. CASE UNCHANGED opened
    BY <2>4
  <2> QED
    BY <2>1, <2>2, <2>3, <2>4
       DEF CNext, StartFails, StartRefused, ListProcesses, Processes, OneShot, CTarget, start
<1> QED
  BY <1>1, ListedInductive, PTL DEF CliSpec, AttachedAsAsked

=============================================================================
