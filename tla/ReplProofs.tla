----------------------------- MODULE ReplProofs -----------------------------
(***************************************************************************)
(* The writer thread is gone whenever the loop is at the prompt or has     *)
(* ended, and a first scan from the prompt sees all of memory, for every   *)
(* session.  The second rests on a promise of the session that it states   *)
(* nowhere: as long as no type is selected its scanner has not scanned.    *)
(***************************************************************************)
EXTENDS Repl, SessionProofs

Fresh == typename = NoType => ~scanned

\* The answer to a scan is true as long as it is the last answer.
ScanAnswered ==
    ret.op = "scan_value" /\ ret.out = "ok" =>
        /\ phase \in {"prompt", "quit", "failed"}
        /\ SurelyFound(mem, ret.data) \subseteq Range(matches)

ReplInv == Fitting /\ Fresh /\ ScanAnswered /\ NoWriterLeft

-----------------------------------------------------------------------------
\* What every command but a first scan leaves true.
LEMMA CommandKeeps ==
  ASSUME ReplInv, phase \notin {"writing", "stopping"}, UNCHANGED writer,
         Fitting', Fresh', ret'.op # "scan_value"
  PROVE  ReplInv'
BY DEF ReplInv, NoWriterLeft, ScanAnswered

\* A call that only answers.
LEMMA AnswerKeeps ==
  ASSUME Fitting, Fresh, NEW op, NEW out, Answer(op, out)
  PROVE  Fitting' /\ Fresh' /\ ret'.op = op
<1>1. Fitting'
  BY StutterFitting DEF Answer
<1> QED
  BY <1>1 DEF Answer, Return, Count, Fresh, session, scanner, selection

LEMMA ViewCommandKeeps ==
  ASSUME Fitting, Fresh, ViewCommand
  PROVE  Fitting' /\ Fresh' /\ ret'.op # "scan_value"
<1> USE DEF Return, Count
<1>1. CASE Reset
  <2>1. Fitting'
    BY <1>1, SelectFitting DEF SelectCall
  <2> QED
    BY <1>1, <2>1 DEF Reset, ScannerReset, Fresh
<1>2. ASSUME NEW t \in TypeName, NEW len \in Lens \cup {NoLen}, SetType(t, len)
      PROVE  Fitting' /\ Fresh' /\ ret'.op # "scan_value"
  <2>1. Fitting'
    BY <1>2, SelectFitting DEF SelectCall
  <2>2. CASE t \notin Known
    BY <1>2, <2>2, AnswerKeeps DEF SetType
  <2>3. CASE t \in Known
    <3>1. t # NoType
      BY <2>3, SessionAssumption DEF Known
    <3> QED
      BY <1>2, <2>1, <2>3, <3>1 DEF SetType, Fresh
  <2> QED
    BY <2>2, <2>3
<1>3. ASSUME NEW a \in Addr, AddMatch(a)
      PROVE  Fitting' /\ Fresh' /\ ret'.op # "scan_value"
  <2>1. Fitting'
    BY <1>3, SelectFitting DEF SelectCall
  <2> QED
    BY <1>3, <2>1 DEF AddMatch, Fresh, selection
<1>4. ASSUME NEW i \in 1..(MaxMatches + 1), RemoveMatch(i)
      PROVE  Fitting' /\ Fresh' /\ ret'.op # "scan_value"
  <2>1. Fitting'
    BY <1>4, SelectFitting DEF SelectCall
  <2> QED
    BY <1>4, <2>1 DEF RemoveMatch, Answer, Fresh, session, scanner, selection
<1>5. CASE ReadMatches(MaxMatches)
  <2>1. Fitting'
    <3>1. MaxMatches \in 0..MaxMatches
      BY SessionAssumption
    <3> QED
      BY <1>5, <3>1, AccessFitting DEF AccessCall
  <2> QED
    BY <1>5, <2>1 DEF ReadMatches, Answer, Fresh, session, scanner, selection
<1>6. ASSUME NEW target \in {AllMatches} \cup 1..(MaxMatches + 1), NEW v \in Value,
             WriteValue(target, v)
      PROVE  Fitting' /\ Fresh' /\ ret'.op # "scan_value"
  <2>1. Fitting'
    BY <1>6, AccessFitting DEF AccessCall
  <2> QED
    BY <1>6, <2>1 DEF WriteValue, Answer, Fresh, session, scanner, selection
<1>7. ASSUME NEW p \in Pattern, SigScan(p)
      PROVE  Fitting' /\ Fresh' /\ ret'.op # "scan_value"
  <2>1. Fitting'
    BY <1>7, ScanFitting DEF ScanCall
  <2> QED
    BY <1>7, <2>1 DEF SigScan, Answer, Fresh, session, scanner, selection
<1> QED
  BY <1>1, <1>2, <1>3, <1>4, <1>5, <1>6, <1>7 DEF ViewCommand

LEMMA ProcessCommandKeeps ==
  ASSUME Fitting, Fresh, ProcessCall
  PROVE  Fitting' /\ Fresh' /\ ret'.op # "scan_value"
<1>1. Fitting'
  BY ProcessFitting
<1>2. UNCHANGED <<scanner, selection>> /\ ret'.op # "scan_value"
  BY DEF ProcessCall, BuildPointerMap, CollectGlobals, OffsetScan, Return, Count
<1> QED
  BY <1>1, <1>2 DEF Fresh, scanner, selection

LEMMA FilterKeeps ==
  ASSUME Fitting, Fresh, typename # NoType, NEW v \in Value, FilterValue(v)
  PROVE  Fitting' /\ Fresh' /\ ret'.op # "scan_value"
<1>1. Fitting'
  BY ScanFitting DEF ScanCall
<1> QED
  BY <1>1 DEF FilterValue, Answer, Return, Count, Fresh, session, selection

\* A first scan starts on a scanner that has not scanned.
LEMMA FirstScanKeeps ==
  ASSUME ReplInv, NEW t \in TypeName, NEW v \in Value, ScanValue(t, v),
         typename = NoType, UNCHANGED writer,
         phase \notin {"writing", "stopping"},
         phase' \in {"prompt", "quit", "failed"}
  PROVE  /\ ReplInv'
         /\ ret'.op = "scan_value" /\ ret'.out = "ok" =>
               SurelyFound(mem, ret'.data) \subseteq Range(matches')
<1>1. ~scanned /\ Fitting /\ Fresh
  BY DEF ReplInv, Fresh
<1>2. Fitting'
  BY <1>1, ScanFitting DEF ScanCall
<1>3. NoWriterLeft'
  BY DEF ReplInv, NoWriterLeft
<1>4. CASE ret'.out # "ok"
  <2>1. UNCHANGED <<mem, session>>
    BY <1>1, <1>4 DEF ScanValue, Answer, Return, Count
  <2> QED
    BY <1>1, <1>2, <1>3, <1>4, <2>1
       DEF ReplInv, Fresh, ScanAnswered, session, scanner, selection
<1>5. CASE ret'.out = "ok"
  <2> DEFINE d == Parse[t][v]
  <2>1. /\ t \in Known /\ d # Malformed /\ ScanFor2(d)
        /\ typename' = t /\ ret'.data = d /\ mem' = mem
    BY <1>1, <1>5 DEF ScanValue, Answer, Return, Count
  <2>2. d \in Seq(Byte) /\ t # NoType
    BY <2>1, ParsedBytes, SessionAssumption DEF Known
  <2>3. FirstPass(d) /\ TypeOK
    BY <1>1, <2>1 DEF ScanFor2, Fitting
  <2> HIDE DEF d
  <2>4. SurelyFound(mem, d) \subseteq Range(matches')
    BY <2>2, <2>3, FirstPassEffect
  <2>5. Fresh' /\ ScanAnswered'
    BY <1>3, <2>1, <2>2, <2>4 DEF Fresh, ScanAnswered
  <2> QED
    BY <1>2, <1>3, <2>1, <2>4, <2>5 DEF ReplInv
<1> QED
  BY <1>4, <1>5

LEMMA ScanInputKeeps ==
  ASSUME ReplInv, NEW t \in TypeName, NEW v \in Value, ScanInput(t, v)
  PROVE  /\ ReplInv'
         /\ ret'.op = "scan_value" /\ ret'.out = "ok" =>
               SurelyFound(mem, ret'.data) \subseteq Range(matches')
<1>1. ScanValue(t, v) /\ typename = NoType /\ UNCHANGED writer
  BY DEF ScanInput
<1>2. phase = "prompt" /\ phase' \in {"prompt", "failed"}
  BY DEF ScanInput
<1> QED
  BY <1>1, <1>2, FirstScanKeeps

\* Starting the writer, or failing to.
LEMMA StartKeeps ==
  ASSUME ReplInv,
         NEW target \in {AllMatches} \cup 1..(MaxMatches + 1), NEW v \in Value,
         StartWriting(target, v)
  PROVE  ReplInv' /\ ret'.op # "scan_value"
<1>1. UNCHANGED <<mem, session>> /\ ret'.op = "continuous_write"
  BY DEF StartWriting, Return, Count
<1>2. Fitting'
  BY <1>1, StutterFitting DEF ReplInv
<1>3. NoWriterLeft'
  BY DEF StartWriting, ReplInv, NoWriterLeft
<1> QED
  BY <1>1, <1>2, <1>3
     DEF ReplInv, Fresh, ScanAnswered, session, scanner, selection

\* The thread runs only while the last answer is not that of a scan.
LEMMA ThreadKeeps ==
  ASSUME ReplInv, WriteNext \/ NextRound \/ Enter \/ Join \/ Quit
  PROVE  /\ ReplInv'
         /\ ret'.op = "scan_value" /\ ret'.out = "ok" =>
               SurelyFound(mem, ret'.data) \subseteq Range(matches')
<1>1. CASE WriteNext
  <2>1. phase \in {"writing", "stopping"}
    BY <1>1 DEF WriteNext, ReplInv, NoWriterLeft
  <2>2. mem' \in Memory /\ UNCHANGED <<session, ret, phase>>
    BY <1>1 DEF WriteNext, Written, ReplInv, Fitting, TypeOK
  <2>3. Fitting'
    BY <2>2 DEF ReplInv, Fitting, TypeOK, BufferFitsType, session, scanner,
                selection, caches
  <2> QED
    BY <2>1, <2>2, <2>3 DEF ReplInv, Fresh, ScanAnswered, NoWriterLeft, session,
                            scanner, selection
<1>2. CASE NextRound \/ Enter \/ Join \/ Quit
  <2>1. UNCHANGED vars
    BY <1>2 DEF NextRound, Enter, Join, Quit
  <2>2. Fitting'
    BY <2>1, StutterFitting DEF vars, ReplInv
  <2>3. NoWriterLeft'
    BY <1>2 DEF NextRound, Enter, Join, Quit, ReplInv, NoWriterLeft, Idle
  <2>4. ScanAnswered'
    <3>1. ret.op = "scan_value" /\ ret.out = "ok" =>
             phase' \in {"prompt", "quit", "failed"}
      BY <1>2 DEF NextRound, Enter, Join, Quit, ReplInv, ScanAnswered
    <3> QED
      BY <2>1, <3>1 DEF ReplInv, ScanAnswered, vars, session, scanner
  <2> QED
    BY <2>1, <2>2, <2>3, <2>4
       DEF ReplInv, Fresh, ScanAnswered, vars, session, scanner, selection
<1> QED
  BY <1>1, <1>2

LEMMA TargetKeeps ==
  ASSUME ReplInv, NEW a \in Mapped, NEW b \in Byte, TargetWrite(a, b),
         UNCHANGED repl
  PROVE  ReplInv' /\ ret'.op # "scan_value"
<1>1. Fitting'
  BY NextFitting DEF Next, ReplInv
<1>2. UNCHANGED session /\ ret'.op = "target"
  BY DEF TargetWrite, Return, Count
<1> QED
  BY <1>1, <1>2 DEF ReplInv, Fresh, ScanAnswered, NoWriterLeft, session, scanner,
                    selection, repl

LEMMA ReplStep ==
  ASSUME ReplInv, [RNext]_rvars
  PROVE  /\ ReplInv'
         /\ ret'.op = "scan_value" /\ ret'.out = "ok" =>
               \/ SurelyFound(mem, ret'.data) \subseteq Range(matches')
               \/ UNCHANGED rvars
<1> DEFINE Done == /\ ReplInv'
                   /\ ret'.op = "scan_value" /\ ret'.out = "ok" =>
                         \/ SurelyFound(mem, ret'.data) \subseteq Range(matches')
                         \/ UNCHANGED rvars
<1>1. CASE Command(ViewCommand)
  BY <1>1, ViewCommandKeeps, CommandKeeps DEF Command, ReplInv
<1>2. CASE Command(ProcessCall)
  BY <1>2, ProcessCommandKeeps, CommandKeeps DEF Command, ReplInv
<1>3. CASE Command(SigmakerCommand)
  <2>1. PICK out \in {"ok", "invalid", "memory"} : Answer("sigmaker", out)
    BY <1>3 DEF Command, SigmakerCommand
  <2>2. Fitting' /\ Fresh' /\ ret'.op = "sigmaker"
    BY <2>1, AnswerKeeps DEF ReplInv
  <2> QED
    BY <1>3, <2>2, CommandKeeps DEF Command
<1>4. CASE BadLine
  <2>1. Answer("line", "invalid")
    BY <1>4 DEF BadLine, Command
  <2>2. Fitting' /\ Fresh' /\ ret'.op = "line"
    BY <2>1, AnswerKeeps DEF ReplInv
  <2> QED
    BY <1>4, <2>2, CommandKeeps DEF BadLine, Command
<1>5. ASSUME NEW v \in Value, FilterInput(v)
      PROVE  Done
  BY <1>5, FilterKeeps, CommandKeeps DEF FilterInput, Command, ReplInv
<1>6. CASE UNCHANGED rvars
  <2>1. Fitting'
    BY <1>6, StutterFitting DEF rvars, vars, ReplInv
  <2> QED
    BY <1>6, <2>1 DEF ReplInv, Fresh, ScanAnswered, NoWriterLeft, rvars, vars,
                      repl, session, scanner, selection
<1> QED
  BY <1>1, <1>2, <1>3, <1>4, <1>5, <1>6, ScanInputKeeps, StartKeeps, ThreadKeeps,
     TargetKeeps DEF RNext, ViewNext, ProcessNext, Target

LEMMA ReplInductive == RSpec => []ReplInv
<1>1. RInit => ReplInv
  BY InitFitting DEF RInit, Init, ReplInv, Fresh, ScanAnswered, NoWriterLeft, Idle
<1>2. ReplInv /\ [RNext]_rvars => ReplInv'
  BY ReplStep
<1> QED
  BY <1>1, <1>2, PTL DEF RSpec

-----------------------------------------------------------------------------
(***************************************************************************)
(* The theorems.                                                           *)
(***************************************************************************)
\* At the prompt and after the end of the loop no writer thread is left
\* (repl.rs:406-421).
THEOREM ReplLeavesNoWriter == RSpec => []NoWriterLeft
<1>1. ReplInv => NoWriterLeft
  BY DEF ReplInv
<1> QED
  BY <1>1, ReplInductive, PTL

\* A first scan from the prompt finds everything a first pass has to find
\* (repl.rs:438-448, session.rs:138-145, 220-226).
THEOREM ReplFirstScanIsWhole == RSpec => FirstScanIsWhole
<1>1. ReplInv /\ [RNext]_rvars =>
        [ret'.op = "scan_value" /\ ret'.out = "ok" =>
           SurelyFound(mem, ret'.data) \subseteq Range(matches')]_rvars
  BY ReplStep
<1> QED
  BY <1>1, ReplInductive, PTL DEF RSpec, FirstScanIsWhole

=============================================================================
