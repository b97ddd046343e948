# scanflow in TLA+

scanflow finds values, byte signatures and pointer chains in the memory of
another process (or in any other memory memflow can read) and writes to what it
found. This directory holds a model of it: TLA+ modules translated from the Rust
source, TLC configurations that check them on small instances, and theorems that
TLAPS proves for every instance.

Lines are those of the repository. `PROJECT.json` maps every definition to the
lines it models and lists runs, mutants, hazards, findings and theorems.

    tlc -workers 2 -config MCSession.cfg MCSession      # a run
    tlapm SessionProofs.tla                             # the proofs of a module

## 1. The system

| component | state | operations | met by |
|---|---|---|---|
| session (`scanflow/src/session.rs`) | scanner, selected type, length of the read-back buffer, globals, pointer map | every command a user has, on a process or on a raw view | REPL, MCP tools, one-shot commands |
| value scanner (`value_scanner.rs`) | match list, `scanned` | first pass over all memory, filter of the list, add, remove, reset | session |
| signature scanner (`sig_scan.rs`) | none | search of the memory map for a byte pattern, chunk by chunk | session |
| pointer map (`pointer_map.rs`) | pointers and the inverse map | build from memory; chains that lead to the matches | session (`offset_scan`) |
| disassembler (`disasm.rs`) | set of globals | addresses the code of a module refers to | session (`offset_scan`, signature maker) |
| signature maker (`sigmaker.rs`) | none | a pattern that only one place of a module has | session |
| value types (`types.rs`) | none | names, sizes, parsers, printers | session |
| MCP server, session manager (`scanflow-mcp`) | registry of sessions, one mutex each, connector inventory | one tool per request; each request a task of the tokio runtime | clients |
| REPL (`scanflow-cli/src/repl.rs`) | one session, the writer thread and its stop flag | read a line, make one call, print; `continuous_write` | user |
| one-shot commands (`commands.rs`) | a session each | one or two calls | shell |
| start-up (`main.rs`, `cli.rs`) | none | arguments, memflow chain, privileges | all of the CLI |
| output (`render.rs`, `pbar.rs`) | two counters | tables, progress bar | all |
| memflow, rayon, tokio (external) | | reads and writes of memory, worker pool, tasks and mutexes | |

How they interact. The REPL, the MCP tools and the one-shot commands call the
public methods of a session; the session calls the scanners and keeps their
results. A call has `&mut self`, so two calls on a session never overlap: in the
MCP server a mutex for each session sees to that. Inside a call rayon spreads
the work over threads. The target runs all the time and changes its memory
whenever it likes.

What is hard:

* *Protocol.* What a scan does depends on flags earlier calls left behind:
  `scanned` and the match list, type name and buffer length, empty and full
  caches. They are set by different methods, some of which fail half way.
* *Boundaries.* Values and signatures that straddle pages and chunks, holes in
  the memory, short last chunks, reaches cut at zero and at 2^64.
* *Concurrency.* Workers that share a list and keep a buffer from job to job,
  tasks that compete for a session while it is detached, threads that block on
  the inventory, a thread that writes while the user goes on, a target that
  changes memory under a scan, processes that end while one is being chosen.
* *Partial failure.* One unreadable chunk, one write out of many, one cache of
  two, a panic in a task.
* *Staleness.* Globals and pointers collected from a memory that has changed
  since, and used to make signatures and chains.

What makes each part correct:

* session: no match is lost and none is invented in any order of calls; the
  buffer always fits the selected type; a call that fails leaves things alone;
  caches are never a mixture of old and new.
* value scanner: its parallel passes are one atomic step on a quiet memory; on a
  memory that changes what held the value all along is found, and what is found
  held it at some time.
* signature scanner: the same, plus each hit once and in order.
* pointer map: every chain reported really leads to its match, none is missing,
  and the recursion ends although pointers form cycles.
* disassembler: the globals are those of one linear sweep of each section,
  wherever the chunk boundaries fall among the instructions; a failed read costs
  the end of a section, a chunk at most for each.
* signature maker: a signature stands at its instruction and at no other place
  searched, its wildcards are the bytes of the code that move, and it gives up
  only when nothing more can be added.
* MCP server: to its clients it is a service that handles one call at a time on
  a session; every request ends.
* REPL: the writer is gone when the prompt is back, and until then it keeps the
  matches at their value; a first scan is one.
* start-up and one-shot commands: the session is on what the arguments ask for,
  and a scan sees all of memory.

## 2. The modules

    Target ---- ValueScanner ---- Session -+- SessionHistory -- MCSession, MCSessionProcess
       |             :                     |        +---------- SessionProofs
       |   implements:                     +- Repl -- Cli ----- MCRepl
       +-------- ValueScan                        |     +------ CliProofs (with ReplProofs)
                                                  +------------ ReplProofs (with SessionProofs)
    ValueScan ------ MCValueScan,    ValueScanProofs
    SigScan -------- MCSigScan,      SigScanProofs
    PointerWalk ---- MCPointerWalk,  PointerWalkProofs
    Disasm -- Sigmaker -- MCSigmaker, DisasmProofs
    SessionService <--implements-- McpServer -- MCMcpServer, McpProofs

A solid line is EXTENDS, from left to right.

| module | models | state and actions |
|---|---|---|
| `Target` | memflow as the code uses it | the address space with its holes; which bytes a read returns; which memories a write may leave; what a first pass, a signature scan and `create_map` find, given the reads that failed |
| `ValueScanner` | `scan_for_2` as a session sees it | `scanned`, `matches`; `FirstPass` appends hits in an order up to rayon, `FilterPass` picks places of the list |
| `Session` | `session.rs` | one action per public method that changes something (`ScanValue`, `FilterValue`, `SigScan`, `SetType`, `AddMatch`, `RemoveMatch`, `WriteValue`, `WriteMemory`, `ReadMatches`, `Reset`; on a process `BuildPointerMap`, `CollectGlobals`, `OffsetScan`), and `TargetWrite` between the calls. One disjunct per early return; `ret` is the answer |
| `SessionHistory` | a user who watches | history variables `live`, `extra`, `dirty`, `asked`, which no action reads, and the properties of the session |
| `ValueScan` | the parallel `scan_for_2` | jobs (chunks or batches) still to do, the job and the buffer of each worker, hits per job; `Begin`, `Read`, `Compare`, `Finish`, `TargetWrite` |
| `SigScan` | `scan_range` and `find_in` | position in the range, buffer, position in the buffer; `Read`, `Find`, `FindEnd`, `NextChunk`, `TargetWrite` |
| `PointerWalk` | `walk_down_range` | the recursion as a stack of frames; `NextKey`, `Follow`, `EndKey`, `Return` |
| `Disasm` | `collect_globals` in detail | per section the steps left, `addr`, the decoder, what was found; `CollectGlobals`, `ReadChunk`, `Decode`, `Publish` |
| `Sigmaker` | `find_sigs` over such a map, `mask_instr` for each kind of operand | per signature its mask and the place of its decoder, the chunks still to search, the states with a duplicate; `FindSigs`, `Grow`, `CheckChunk`, `CheckEnd`; `TargetMoves` between calls |
| `SessionService` | what the MCP server promises | a registry, and per session a queue of calls of which the head is served in one step |
| `McpServer` | `server.rs`, `session_mgr.rs` | where each task is, who holds each mutex and who waits, who has the inventory, how many threads are busy; one action per step between two awaits, `LockInventory` and `Build` for the opening of a target, and `Panic` |
| `Repl` | the loop of `repl.rs` | `phase`, the flag and the thread of `continuous_write`, on top of `Session` |
| `Cli` | `main.rs` and `commands.rs`, around `Repl` | the arguments, the processes that run, those found by name; `OpenByPid`, `ListProcesses`, `OpenOnly`, `StartView`, `StartRefused`, `StartFails`, `Processes`; `OneShot` makes one call of the session and ends the program |

Correspondence that is not one to one:

* A value is the sequence of its bytes; `Parse[t][v]` is what a type's parser
  makes of a string (`Malformed` if it refuses), `Compiled[p]` what
  `parse_pattern` makes of a signature. Both are constants with the assumption
  that a sized type parses to as many bytes as it has.
* `ret` stands for the `Result` of the last call. No action reads it.
* A filter hands its list over to the workers (`mem::take`); `ValueScan`
  therefore states what the caller sees as `List`, and the refinement is
  `Atomic == INSTANCE ValueScanner WITH matches <- List`.
* Walks of different matches share only what they read and their results are put
  one after the other: `PointerWalk` has one of them.
* Sections are swept in parallel, but share only what they read: `Disasm` has the
  state of each sweep, in any interleaving, and `Publish` when all have ended.
  An instruction is known by its first byte (`Instr`), which tells what the
  decoder would say of it: its length, whether it is valid, what its memory
  operand is based on (the instruction pointer, a segment, nothing, or a general
  register), whether its first operand is a near or far branch, and where
  displacement and immediate lie. `mask_instr` looks at no more than that. The
  byte after it stands for the displacement.
* `Session` sees `collect_globals` as one step that finds any part of what the
  module has. `Disasm` is the reason: `GlobalsAreTheSweep` says which part.
* `McpServer` keeps a version number in place of a session, so that lost and
  mixed updates show; what the tools do to a session is in `Session`.
* An operator that is called "Faulty variant" is no part of the model. It is a
  bug a change of the code could bring in, kept beside the definition it varies,
  to show that a property would notice.

Assumptions about the parts outside the repository: one memflow read, or one
batched read, is one atomic step; a read that touches a hole fails as a whole or
returns zeros there; a write to a hole fails or writes the mapped part. tokio's
mutex is fair and is not poisoned by a panic; the std mutex of the inventory is
held by one thread at a time and goes to any of those that want it. rayon hands
each job to one worker.

Simplifications: pointers are one byte long and a range fits in one signature
chunk in `Session` (`SigScan` has the long ranges); `read_memory` and
`list_modules` change nothing and are left out; collecting globals may leave out
any of those a module has, since code that cannot be read is skipped. `McpServer`
leaves out the errors in its arguments that a tool answers before it looks for
the session (`server.rs:213`, `231`, `311`, `325`): they touch nothing. In `Disasm`
and `Sigmaker` the target keeps its text and its modules while a call is running,
and changes them between calls.

## 3. The runs

Bounds are the constants of each cfg; none cuts off a behaviour the properties
are about.

| run | instance | distinct states | shows |
|---|---|---|---|
| `session` | raw view, 4 addresses, pages of 2, types of 1 and 2 bytes and strings, lists of at most `MaxMatches` = 3 | 107 089 | calls in any order lose no match, invent none, repeat none; buffer and type agree; failures change nothing; writes go where they should |
| `session_process` | process, 2 mapped addresses and a hole, 2 modules, lists of at most 2 | 29 528 | neither cache is ever a mixture |
| `value_scan` | 2 workers, 6 addresses in 2 ranges with a hole, 3 chunks, batches of 2, `MaxCalls` = 2, `MaxWrites` = 1 per call | 277 619 | the parallel passes are the atomic ones; a memory that changes; order; every call ends |
| `sig_scan` | ranges of 2 and 5 bytes, chunks of 2, patterns of up to 3 with wildcards, `MaxWrites` = 1 | 247 043 | nothing missed, invented or repeated across chunk boundaries; reads in bounds; termination |
| `pointer_walk` | 4 addresses, all maps of up to 3 pointers, 3 sorts of entry points, 3 reaches, depths 0, 2, 3 | 293 500 | exactly the chains of a definition by paths, each sound; termination |
| `signatures` | program of 5 bytes of text, library of 2, chunks of 2, `SigLen` = 5, `SigChunk` = 2, 17 programs x 2 libraries and one text more, 6 kinds of instruction, `MaxWrites` = 1 | 119 628 | globals are the linear sweep; a signature is unique; wildcards are the bytes that move; no early end; every call ends |
| `mcp` | 3 requests at a time, 2 sessions, 2 threads | 1 437 451 | the server implements the service; no wakeup is lost; the inventory has one owner |
| `mcp_answers` | 3 requests, 1 session, 2 threads, 4 of the tools | 25 820 | every request ends |
| `repl` | the program from its start; 3 processes, two of one name; 2 mapped addresses and a hole, types of 1 and 2 bytes, lists of at most 2 | 254 952 | what is opened is what was asked for; the writer ends when told to and writes until then; a first scan is one |
| `pass_as_named` | as `session` | violation | see section 7 |
| `mask_misaligned` | as `signatures`, `MaxWrites` = 0 | violation | see section 7 |
| `list_panics` | 2 requests, 2 sessions, 1 thread | violation | see section 7 |

Why the bounds suffice for the questions asked. In `session` a two-byte value
straddles the boundary of two pages, overlaps the next match, or runs into the
hole after the last address, and three matches are enough to remove or rewrite
the middle one. In `value_scan` a worker takes a second batch with the buffer of
the first and a start list with a match in a hole meets stale bytes; one write
by the target can move a value between the reads of two chunks. In `sig_scan` a
pattern longer than a chunk straddles two boundaries. `pointer_walk` has
self-loops, cycles of two and of three, several pointers to one address, and
reaches cut at either end. In `signatures` a load
straddles two chunks, a chunk ends inside an instruction whose second byte looks
like another one, bytes are not an instruction, two loads have one address, an
address lies in the other module or in none, and a signature is longer than two
search chunks. Behind a load that must grow stand a load through a register and
a short branch, whose bytes stay literal, and a long branch, whose target does
not; after a change of the text the map is older than the code. In
`mcp` two requests compete for a session while a third detaches it, uses the
other one or blocks a thread at the inventory. `mcp_answers` has two threads,
since with one nobody can wait for the inventory while another has it, and of the
tools one that panics, one that does not, and two that open a target: the others
wait for the same things. In `repl` two processes share a name, and each may start
or end between the list and the opening. The theorems of section 5 hold without
these bounds.

`MaxMatches`, `MaxCalls`, `MaxWrites` and `Versions` (numbers modulo 2) are the
only bounds that are not in the code. A call that would make a longer list than
`MaxMatches` is not made. Four type invariants (`ValueScan`, where it is proved, `PointerWalk`,
`McpServer`, `Repl`) are stated in the modules and left out of the runs, whose
other properties fail when they do. The session runs use a VIEW without `ret`, which no
action reads; their properties are invariants and action properties, which TLC
checks on every step. Only `mcp` uses symmetry, and it checks no liveness.

Deadlock is checked except where the system really stops: a scan or a walk that
is done, calls that are used up (`value_scan`), all requests lost (`mcp`).

## 4. Fairness

| run | assumed | because |
|---|---|---|
| `sig_scan` | WF of the scan's steps | a loop of its own thread, which waits for nobody |
| `value_scan` | WF of the workers together, WF of `Finish` | the pool runs as long as there are jobs; the caller collects when they are done |
| `pointer_walk` | WF of `Next` | a recursion of one thread |
| `signatures` | WF of the steps of a call | the caller's thread and the pool wait for nobody |
| `mcp_answers` | SF of each task's next step, WF of the opening of a target and of the end of a running tool | tokio takes tasks from a queue, so a task that is ready again and again gets a thread; a scan ends by itself (the runs above). The std mutex of the inventory promises no order: only WF, so that `EveryCallEnds` says of a task that wants it for ever that others get it again and again |
| `repl` | WF of the writer's steps, WF of `Join` | two threads of the operating system |

Nothing is assumed of the user, of the target or of other processes: `Frozen` speaks of a user who
does not press Enter, and the target may overwrite the matches at any moment.

## 5. The proofs

Each proof starts from the named assumptions on the constants
(`TargetAssumption`, `SessionAssumption`, `ValueScanAssumption`,
`SigScanAssumption`, `PointerWalkAssumption`, `CliAssumption`, `McpAssumption`,
`DisasmAssumption`, `SigmakerAssumption`), which TLC evaluates in the runs.

* `SessionProofs`. The inductive invariant is `Fitting /\ Kept`. `Fitting` is
  `TypeOK` and `BufferFitsType`; `Kept` is `NoMatchLost` and
  `EveryMatchExplained`. None of the four is inductive alone: what a filter
  keeps is known only of a list of addresses, and a filter narrows `live` and
  `extra` correctly only if together they accounted for the list before. The
  lemmas on `Orders` and `Picks` say what the two passes do to a list, whatever
  the scheduler did. From it: `SessionFitting`, `SessionLosesNoMatch`,
  `SessionInventsNoMatch`.
  `SessionFailuresHarmless` needs no invariant: each early return of each call is
  looked at. `SessionWritesReach` is about `Written`: among the matches that
  cover a byte the last one wins (`LastWriteStays`). The caches have an invariant
  of their own (`Caches`): what `dirty` and `asked` say of them holds together.
  `NoAddressTwice` speaks of lists with `extra = {}` only; its strengthening
  `TwiceExplained` says of any list that each address in it twice is in `extra`,
  which survives the calls that let `extra` shrink. `SessionTypes` gives the types
  of the session together with those of its history variables.
* `ValueScanProofs`. `ScanInv` says of each job of a pass that it is still to do,
  was left out, is in the hands of a worker or has its result (`Accounted`), and
  no two of these at once (`Once`); that what a worker has in hand and what is
  handed in are both *complete*, as they have each comparison whose address held
  the value all the time, and *honest*, as they have none whose address never
  did (`InHand`, `Results`); and that the history variables say what they should
  (`Tracked`). A write by the target keeps both: it makes `stable` smaller and
  `ever` larger. A match in a hole is excepted (`Sure`). When the last job is
  done, `FilterResult` and `FirstResult` turn the results into a list: places of
  the old one in order, or an order of a set of addresses, each once because
  pages do not overlap. From it all four safety properties; on a quiet memory
  `stable` and `ever` are one set, and `PoolImplementsScan` follows, which is
  what justifies the single step of `ValueScanner`. Assumed: the pages of the
  first pass lie in the address space and do not overlap, and no value is empty.
* `SigScanProofs`. `IInv` adds to the types where the loop stands (`Place`),
  what the result holds so far (`Listed`: ascending, and before the point the
  search has reached), what is settled (`Settled`: every stable hit before that
  point is in the result or started in a failed chunk), that the buffer is a
  snapshot of some moment of the scan (`Snapshot`), and that the history
  variables say what they should (`Tracked`). From it all five safety properties,
  for every range, chunk size, signature and behaviour of the target.
* `PointerWalkProofs`. `WalkInv`: the way in `tmp` links the frames of the stack
  (`Linked`), each frame has only pointees and pointers in reach left
  (`Pending`), the depth is bounded (`Depth`), and all chains found are good.
  Soundness of a chain is a fact about the way at the moment it was reported,
  hence the lemmas `LinkFacts` and `LinkIntro` that take a link apart and put
  one together. From it: `WalkChainsResolve`, `WalkWithinBounds`.
  That no chain is *missed* has an invariant of its own, `VisitInv`. A way is
  *awaited* (`Awaits`) while the walk still has to come to it: the stack agrees
  with it down to some level, and there its next pointee is among `keys`, or its
  next pointer among `left`. `Visits` says that the chains reported are exactly
  those of the ways that are not awaited; `Taken`, that what a call is at has
  been taken off its lists. A step that follows a pointer takes exactly one way
  from those awaited (`FollowAwaits`), and a chain tells its way (`ChainTells`),
  so that none is reported twice. With the empty stack no way is awaited: this
  is `WalkFindsAllChains`, for maps with cycles as well.
* `ReplProofs`. `ReplInv` is `Fitting` of the session, *no type selected means
  the scanner is reset* (`Fresh`), an answer to `scan_value` is about a whole
  scan (`ScanAnswered`), and `NoWriterLeft`. `Fresh` is what makes the REPL's
  first scan one (`ReplFirstScanIsWhole`), although the session alone does not
  promise it.
* `CliProofs`. `CliInv` is `ReplInv` and *until the loop begins the session is
  new* (`New`), from which the properties of the loop follow for the whole
  program (`CliLeavesNoWriter`, `CliFirstScanIsWhole`). For
  `CliAttachesAsAsked` the invariant is `Listed`: every process of the name that
  ran all the time is in the listing.
* `McpProofs`. `LocksConsistent` is not inductive alone: whether the task that a
  mutex is handed to may have it depends on who stands in the queue. `Inv` adds
  that a task stands once in the queue of the session it asked for (`Queued`),
  that a request stays with its task until it is answered (`Asked`), and that a
  running tool has seen the latest state of its session (`UpToDate`), which is
  why no update is lost. From it `ServerLocksConsistent`, and, one step of the
  server after the other, that each is a step of `SessionService` or none
  (`ServerImplementsService`). Assumed: `NoCall` is neither a task nor a request.
* `DisasmProofs`. `SweepInv` says of each sweep that it stands at an instruction
  of the linear sweep and none reaches across that place (`Place`), that it has
  found exactly the entries before it (`Swept`), and how far it must have come
  for the steps it has made (`Reached`). The linear sweep is the least set with
  the first address that is closed under the next instruction; `NothingBetween`
  is the one use of its being the least. From it `SweepsAreLinear`. Assumed: the
  sections do not overlap. For the signature maker `SigInv` says that a state
  that is no duplicate matches nowhere in the chunks searched so far
  (`NoMatchYet`); when none is left, the chunks have covered the text
  (`ChunksCover`), and what is printed matches where the mask does
  (`HitsAreMatches`). From it `SignaturesAreUnique`; the types (`SigmakerTypes`)
  are inductive with the form of a mask (`Marks`). `MaskInv` says of each state
  that the first bytes of its mask, up to some place, are whole instructions of
  the linear sweep with the moving bytes left out (`Prefix`); that `mask_instr`
  clears just those of one instruction is `InstrMaskFacts`; and that mask and
  decoder both stand at that place, or the instruction there was rejected. That
  the wildcards written for one instruction leave those of another alone is
  `LinearOrdered`: instructions of a linear sweep do not overlap. From it
  `WildcardsAreTheOperands`. `MaskInv` also says that each duplicate has another
  match in the text it was compared with, hence `EmptyAnswersMeanNone`: what was
  given up at the greatest length is still ambiguous there. Assumed
  (`SigmakerAssumption`): the wildcard is no byte, and an instruction is no longer than the greatest signature, which on x86 is 15
  against 128.

Every safety invariant, action property and refinement of the passing runs has a
theorem. Only model-checked: liveness, which is beyond the prover (`Terminates` of the signature scan, `CallEnds` of the value scan and of the
signature maker, `WalkEnds`, `EveryCallEnds`, `Frozen`, `PromptComesBack`).

## 6. Not modelled

* Number formats (`types.rs`), printing, tables, the progress bar, the input
  editor and its history file, the parsing of arguments by clap, raising
  privileges, the two scripts: no state that another part reads. Types are known
  by their names and sizes, values by the bytes their parsers make of them.
* The choice of a process in the server's `attach_process` is that of
  `main.rs`: `Cli` models it, `McpServer` has its outcome, a session or an error.
* A panic while a chain is built would poison the inventory; memflow's builder is
  outside the repository, and nothing in it says that it panics.
* How rayon schedules the nested iterators of `collect_globals` and which
  thread-local buffers they find (`disasm.rs:61`): the sections of a call are
  fixed when their sweeps begin.
* Allocation: `set_type` and `read_memory` take any length.

## 7. Where code and documentation differ

* `pass_as_named`: "First-pass value scan: scan the whole address space"
  (`session.rs:234`). On a session that has scanned already `scan_value`
  filters (`session.rs:243`): TLC scans for a value that is nowhere, then for one
  that is there, and it is not found. An MCP client can get there; from the REPL
  nobody can, which is `FirstScanIsWhole`.
  The other half of `PassAsNamed` is "Filter existing matches against a new
  `value`" (`session.rs:258`). It does not hold either: on a list made by
  `add_match`, or by `sig_scan`, which resets the scanner, and after a `set_type`,
  `filter_value` scans all of memory and appends (`session.rs:268`). Checked alone
  it has a counterexample of these three calls; the run stops at the shorter one.
* `mask_misaligned`: "Sigmaker allows to find IDA-style code signatures"
  (`sigmaker.rs:91`). An instruction the decoder rejects, an invalid one or one
  cut off by the end of the buffer, moves the decoder but not the mask
  (`sigmaker.rs:21-29`), and the loop goes on while another state grows: behind
  it mask and bytes no longer belong together. `WildcardsAreOperands` holds
  before it, `WildcardsFollowCode` fails behind it, and `SignatureUnique` holds
  all the same, since mask and search agree with each other.
* `list_panics`: "List all active sessions." (`server.rs:126`). With a session
  attached, `list` uses `blocking_lock` inside a task of the runtime
  (`session_mgr.rs:319`), and tokio panics.

The help of the program differs from the program in three places. `Cli` has what
the program does, and no property says that it is right:

* `--pid` is to attach "by PID instead of by name" (`cli.rs:41`), and the refusal
  asks for "-p/--program or --pid" (`main.rs:48`); without a name the program
  refuses all the same (`main.rs:45-51`, `StartRefused`).
* The name is "ignored in connector/view mode" (`cli.rs:37`); with it the program
  refuses (`main.rs:61-76`, `StartRefused`).
* The subcommand `write` is to "Write a value to one or all matches"
  (`cli.rs:89`). It is the only call of a new session, which has neither a match
  nor a type, so that `write_value` always refuses (`commands.rs:57`,
  `session.rs:300-303`). The same holds of `filter` and `print`.

Seen while modelling, without a run of its own:

* "`len` is required only for unsized types" (`session.rs:149`). Without it
  `set_type` answers an error, but has stored the name already
  (`session.rs:153`): the string type is selected, with the length of the type
  before. `FailureChangesNothing` excepts it.
* "Create unique code signature that references one of the global variables"
  (`lib.rs:12`): a signature is unique in the module that holds the *global*,
  which need not be the module of the code (`sigmaker.rs:170-187`). When that
  module has no text, nothing is searched and each first signature is unique.
* A command that fails ends the REPL by `?` (`repl.rs:99`), past the place where
  the history is saved.
* A failed read in `collect_globals` costs the *end* of a section, not the chunk
  (`disasm.rs:88`): the next step reads the same chunk again.
* The inventory is "only locked briefly" (`session_mgr.rs:211`): it is held while
  a chain is built, and whoever waits for it blocks a thread of the runtime.

## 8. Plan

The order was: the session and its scanner first, since everything goes through
them; then the algorithms inside a call; then those who make the calls.

Done: all modules of section 2, the runs of section 3, the proofs of section 5.

What the repository has left to model is input and output (section 6).

Next, the proofs: the measures behind the liveness properties that only TLC
checks. Each loop has one, which a step of it makes smaller and which no step of
another actor makes greater (the jobs left of a pass, the chunks left of a
search, the ways awaited by the walk). As action properties these are within the
prover's reach, and what would remain of liveness is the fairness of section 4.
