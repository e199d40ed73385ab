# A TLA+ model of the Piglet interpreters

The repository holds the programs of three articles on bytecode interpreters.
Two of them are more than examples: **PigletVM**, a stack machine with eight
implementations of its main loop that are supposed to behave alike, and
**PigletMatcher**, a multi-threaded virtual machine that looks for event
patterns, with a pattern language, a translator and an assembler in front of it.
This directory models both, checks the models with TLC, and proves theorems about
them with TLAPS.

Contents: [parts of the system](#1-the-parts-of-the-system) ·
[modules](#2-the-modules-and-the-code) · [runs](#3-what-the-runs-check) ·
[bounds and fairness](#4-bounds-and-fairness) · [proofs](#5-what-is-proved) ·
[disagreements](#6-where-the-code-and-its-documentation-disagree) ·
[not modelled](#7-what-is-not-modelled) · [plan](#8-plan)

## 1. The parts of the system

Everything is sequential and in one process. What is hard is not concurrency
between processes but between the *threads* of the matcher, the state that
outlives a call (static structures, a trace cache, thread lists kept from event
to event), narrow counters, and that several implementations, or several
compilation stages, must agree.

| part | source | state | operations | what must hold |
|---|---|---|---|---|
| PigletMatcher | `piglet-matcher.c/.h` | two lists of threads with 8-bit counters, the bytecode; locals of the loops | `matcher_create`, `_reset`, `_destroy`, `_accept` | lists stay in their arrays; every call returns; the verdict depends on the *set* of reachable addresses, not on order or duplicates; no waiting thread is forgotten |
| matcher assembler, disassembler | `piglet-matcher-exec.c` 30–500 | list of lines, label table | parse lines, collect labels, resolve, emit, decode | branches land on their labels; the listing shows the program and assembles to it again |
| matcher driver | `piglet-matcher-exec.c` 540–706 | events of a file, matcher, event index | `read_events_file`, `match_events` for `run` and `asmrun` | reports a pattern if and only if it occurs |
| translator | `regexp/regexp_trans.py`, `regexp.py` | label counter | one function per AST node | the program means what the pattern means |
| scanner, parser | `regexp/regexp_parse.py`, `terms.py`, `tools.py`, `raddsl/` | input position | tokens to AST, alternatives tried in order | accepts the grammar; precedence and grouping |
| PigletVM, interpreters | `pigletvm.c` 1–579, `pigletvm.h` | static `vm`: ip, stack, memory, result | `vm_interpret`, `_no_range_check`, `_threaded`, `vm_get_result` | the three agree; a program that keeps to the stack stays inside it; no run sees an earlier one |
| PigletVM, trace interpreter | `pigletvm.c` 580–1002 | static `vm_trace`: as above, plus the trace cache | compile a row, run a row, dispatch | same behaviour as the interpreters; rows closed and inside their arrays; no row of another program is run |
| stack-top cached interpreters | `pigletvm-rcache.c` 1–651 | static `vm_rcache`, local `acc` | as above | same behaviour as `pigletvm.c` |
| stack-top cached trace interpreter | `pigletvm-rcache.c` 652–1059 | `vm_rcache_trace` | as above, the top passed from handler to handler and saved where a row ends | no row begins on an old top |
| assembler, disassembler, runner of PigletVM | `pigletvm-exec.c` | lines, labels, timers, results | `asm`, `dis`, `run`, `runtimes` | as for the matcher; all eight say the same, each report is the interpreter's own result, the exit status tells of every run |
| example interpreters | `interpreter-*.c` | small static machines | — | — |

Interactions: the translator writes text that the assembler reads; the
assembler writes bytes that the matcher (or an interpreter of PigletVM) runs;
the driver owns one matcher and calls it once per event; the runner calls eight
interpreters after one another on the same bytes, each with its own static
structure or sharing one. The list of hazards, each at its source line, is in
`PROJECT.json`.

## 2. The modules and the code

How they build on one another:

```
AsmText ── AsmFile ─┬─ MatcherAsm ── Regexp ──────── MatchEvents ── PigletMatcher ── MatcherCode
                    │     RegexpParse ──┘                               └ implements EventMatcher
                    └─ PigletAsm ── PigletExec ─┬─ PigletVM ────── implements PigletMachine
                                                ├─ PigletTrace ─── implements PigletMachine
     all on PigletISA                           ├─ PigletRcache ── implements PigletVM
                                                └─ PigletRcacheTrace implements PigletTrace
```

### Texts

* **`AsmText`** – what a line of an asm file is made of: operations, numbers, label
  names, label definitions. Cutting characters into words is left to the reader.
* **`AsmFile`** – the assembler and the disassembler, of which the two tools have
  a copy each, given their table of instructions: `ParseLine` with its early ends,
  the widths the first pass expects, the first definition of a label counting, the
  bytes the second pass writes, the file that must not be empty, and the
  listing, which a zero byte ends. Addresses here are byte offsets. The loops of
  the C code (over lines, over the first pass, over the bytes of a listing) are
  recursive functions from the number of turns to what has been collected, so that
  they can be reasoned about; `NextOffset` is the offset the disassembler is at.
  `Words` are the words a line can consist of. `Boundaries` are the offsets of the
  instructions and of the end, and `NumberOf` the number of the instruction at one.
  Where a label may stand both tools also take a number, and take it as it is, so that
  it can name any byte; `NumbersLand` says of a file that each such number is a boundary.
* **`MatcherAsm`**, **`PigletAsm`** – the two instruction tables, and how a bytecode
  file becomes the code that `PigletMatcher` or `PigletISA` runs (`Load`). That is
  what the C code runs as long as branches go to boundaries; one that does not
  gets a number outside the code, so that the result is no program of the
  interpreters' models, which say nothing about it.
* **`AsmTexts`** – an asm file for either tool, its bytecode and the listing of
  the bytecode, what the interpreters load (`Loaded`), and the properties that relate
  them. Here the two ways to count meet: bytes in the bytecode, instructions in the
  models of the interpreters (`Operand`, `InstructionsBefore`). `MCTexts` extends it
  with the lines, or tokens, that are typed in.
* **`RegexpParse`** – the terms of `terms.py` and the parser of `regexp_parse.py`
  on tokens: alternatives in order, and no way back from one that succeeded.
* **`RegexpGrammar`** – the reference: which token sequences are sentences
  (`IsSentence`), which terms precedence allows (`Shaped`), and how a term is
  written down (`Written`).
* **`Regexp`** – the translation of each term to lines with fresh labels, and as
  a reference `Ends`, where a pattern's matches end.

### PigletMatcher

* **`MatcherCode`** – decoded instructions, and `Successors`, the addresses where
  threads stand after one instruction. Addresses are instruction numbers;
  behind the code lies the zero byte of `read_file`, an `ABORT`.
* **`PigletMatcher`** – the library. `current_threads` and `next_threads` are the
  sequences of live entries, so their lengths are the counters; `AddThread` is the
  store followed by `counter++` on a `uint8_t`, which makes a list that
  gets its 256th entry an empty one. One action per client call (`Create`, `Reset`,
  `Destroy`, `Accept`), per turn of the `for` loop (`TakeThread`, `Exhausted`) and
  per instruction of the `while` loop (`OpTest` .. `OpAbort`). `at` is the
  program counter of `matcher_accept`. `reached` and `lost` are history variables.
  `Spec` has any client; `SessionSpec` one that resets or destroys the matcher
  after a final verdict, as the tests and the driver do.
* **`EventMatcher`** – the abstract specification: positions are a set, explored in
  any order; `MATCH_NEXT` only when the set is closed and holds no final
  instruction; exact until `lossy`. `PigletMatcher!ImplementsEventMatcher` is the
  refinement, with `waiting <- Standing(current_threads)`.
* **`MatcherHistory`** – a session with the events accepted so far (`seen`) as a
  history variable, and what verdicts mean for patterns without branches: `Fulfilled(p)`
  says, of the events seen last, that they pass every test before `p`, each
  event the tests between its `NEXT` and the next one.
* **`MatchEvents`** – composes all of them: the tokens of a pattern are parsed,
  translated, assembled, loaded, and run by `match_events` on an event file whose
  lines are chosen as they are read.

### PigletVM

* **`PigletISA`** – what an instruction does to stack, memory, result and output
  (`Effect`), how many operands it takes (`Needs`, `DepthAfter`), and which programs
  keep to the stack on every path of their control flow (`Disciplined`).
  Words are taken modulo `WordMod`, addresses modulo `MemorySize`.
* **`PigletVM`** – the three interpreters of `pigletvm.c`, which share `vm`. They
  differ in how they find a handler (`Handler`): a switch with a default, a
  switch on five bits, and a label table that ends at `OP_PRINT`. `Undefined` is
  a stack access outside the array or a jump through a missing label; nothing
  is claimed after it.
* **`PigletMachine`** – the abstract specification: instructions take effect one
  after another on zeroed data; unconditional jumps take no step; nothing is
  promised for opcodes the assembler does not know.
* **`PigletTrace`** – the trace interpreter: `Dispatch` is a turn of the loop of
  `vm_interpret_trace`, `Compile*` a turn of the loop of `trace_compile_handler`,
  `Run*` the call of a handler. Each cell of a row remembers, for the refinement
  mapping only, the address it was read from.
* **`PigletRcache`** – the three interpreters with the stack top in `acc`. The
  array is one cell behind: the first push spills an `acc` that is no value of the
  program. Seen as a stack (`stackSeen`), it must step exactly as `PigletVM` does.
* **`PigletRcacheTrace`** – the trace interpreter whose handlers get the stack top
  as an argument. The whole array is kept, popped cells included; the top of the
  structure (`saved_top`) changes only by `END_TRACE`, the argument (`stack_top`)
  with every handler. Rows are written as in `PigletTrace`, whose `Compile` it takes.
* **`PigletExec`** – `asm` followed by `run` or `runtimes`: a file is assembled,
  and its bytecode run on the eight interpreters in the order of the calls in
  `pigletvm-exec.c`, over the four static structures. `Report` is what a `run_*`
  function prints and returns; `get_result` which structure it asks, which for the
  two trace interpreters is not their own.

`MC*` modules hold the small instances: `MCTexts`, `MCPigletMatcher`,
`MCMatcherHistory`, `MCMatchEvents`, `MCPigletPrograms` with `MCPigletVM`,
`MCPigletTrace` and `MCPigletRcache` (a client of both structures of
`pigletvm-rcache.c`), and `MCPigletExec`. Proofs are in `PigletISAProofs` (lemmas on instructions, stacks and
jumps), `PigletVMProofs`, `PigletTraceProofs`, `PigletRcacheProofs`,
`PigletRcacheTraceProofs`, `PigletExecProofs`, `PigletMatcherProofs` and
`AsmTextsProofs`. Definitions whose name ends in `_...`
(`OpJump_InPlace`, `CompileBranch_NoPrejump`, ...) are plausible bugs: each is
substituted for the definition behind it to see that a property notices.

## 3. What the runs check

| run | question | properties |
|---|---|---|
| `matcher_sessions` | sessions of any length, patterns without branches and with `JUMP` and `SPLIT`, lists that do overflow | `OldestFirst`, `LinearNeverLoses`, `VerdictsExact`, `ImplementsEventMatcher` |
| `matcher_any_client` | clients that go on after a verdict; loops without `NEXT` | `TypeOK`, `AcceptTerminates` |
| `texts` | every asm file of four lines or fewer, for both assemblers; every pattern of six tokens or fewer | `RoundTrip`, `BranchesLandOnLabels`, `LoadsWellFormed`, `BranchesLandOnInstructions`, `ListingReassembles`, `GrammarFaithful` |
| `match_events` | twelve patterns, every event file of four events or fewer, from tokens to verdict | `NothingMissedUnlessLost`, `ExactWithoutChoice` |
| `match_events_choice` | *violated*, see F1 | `NothingInvented` |
| `match_events_overflow` | *violated*, see F2 | `NothingMissed` |
| `match_events_names` | *violated*, see F4 | `NothingMissed` |
| `vm` | every program of at most three instructions over an alphabet with unknown opcodes, every operation on boundary operands, and longer programs after one another on the same static structure | `TypeOK`, `StackSafe`, `ImplementsPigletMachine` |
| `trace` | the same programs on the trace interpreter, rows of four cells; loops re-enter rows | `TypeOK`, `RowsClosed`, `ImplementsPigletMachine`, `ForwardStops` |
| `rcache` | the same programs on all four interpreters of `pigletvm-rcache.c` | `TypeOK`, `ImplementsPigletVM`, `ImplementsPigletTrace` |
| `rcache_load` | *violated*, see F3 | `LoadsAgree` |
| `exec` | asm files from text to exit status, up to two iterations on each of the eight interpreters | `EnginesAgree`, `ReportsOwn`, `ExitStatusTells`, `RunEnds` |

The refinements carry most of the weight. `ImplementsEventMatcher` says that
the thread lists, with their order, duplicates, swap and overflow, implement a set.
`ImplementsPigletMachine` says that a program compiled to rows, or dispatched in
any of three ways, has the effect of the program. `ImplementsPigletVM` says the
cached top is invisible, and `ImplementsPigletTrace` that handing it from handler
to handler is. `EnginesAgree` and `ReportsOwn` are about what is composed of
these: two of the eight reports show the result of another structure, and are
right only because all runs of a program end alike. `VerdictsExact` is the purpose of
the matcher where it is sound: threads that see one event each, and never look back,
find every window of events. `LoadsWellFormed` is what the modules of the interpreters
take for granted of their programs; it needs `NumbersLand`, as files with `JUMP 3` behind an
`ABORT` show, where byte 3 is the last one of the `JUMP` itself. `NothingMissedUnlessLost` and
`ExactWithoutChoice` cross all stages of the pattern tool and compare with the
denotational meaning; `GrammarFaithful` compares the parser, which never backtracks,
with a grammar that does not say how to parse.

Runs that check liveness or sessions of any length have finite state spaces
without a bound on the number of events or runs.

## 4. Bounds and fairness

* `MaxThreadNum` (256 in the code) is 10 in sessions, just enough for a linear pattern of
  eight instructions, while the branching ones do overflow, and 6 for any client. The real 256 is
  used in `MatchEvents*`. `MatchEvents` reads files of `MaxEvents` = 4
  events, one more than the longest fixed pattern; 7 in the overflow run, which
  needs six; 2 in the run on wide names, which needs one.
* `MaxSeen` = 4 events are kept of a session of any length (`Forgets`): `VerdictsExact`
  looks no further back, since the longest linear pattern consumes three
  events after the one on which its thread starts.
* `MaxLines` = 4 asm lines with two labels: a branch, two definitions, and an
  instruction between. `MaxTokens` = 6 tokens of a pattern, enough for each operator
  inside and outside parentheses of another one, and for an event with a screen.
* `WordMod` = 32 and `MemorySize` = 16 keep the relation that matters: a word can be
  larger than an address, and both wrap. `StackMax` is 4, which a loop with a
  push reaches. (The assembler of `PigletAsm` always reads 16-bit operands; in `texts` the number
  98306 has a bit above the 16 that are kept, and the highest one of these set.)
* The short programs are run once each; those of `Sessions` are run after one
  another in every order (`MCStart`), without a bound on the number of runs. What
  a run can see of an earlier one does not depend on more than the structure it
  finds, and the programs of `Sessions` leave memory, results, stack and rows that
  differ. In `MCPigletRcache` both structures are there and one of them runs.
* `MaxTraceLen` = 4 (16 in the code) leaves two cells for operations, so that
  short programs fill rows; the code's reserve of two cells is kept.
* `MaxIterations` = 2: the second iteration is the one that starts on what the
  first has left. The files of `exec` are the programs that keep to the
  stack, end, and do not meet F3, written out with a label at each address, and
  three files that do not assemble.
* Printed output is its last value. A difference in output shows at
  the step that prints it, since the refinements compare step by step.

Fairness: `WF(Run)` for the matcher, `WF(Step)` for the trace interpreter and
`WF(RunCommand)` for the commands. All of these are sequential programs; the only
assumption is that a call or command that was started keeps running. Nothing obliges
a client to call, and nothing depends on fairness between threads, whose order is
fixed by the code.

Deadlock is not checked where a process ends (the runner, the driver, a text of
maximal length) or where undefined behaviour was reached. It is checked
in the matcher runs.

## 5. What is proved

The theorems hold for every value of the constants, under the assumptions
`MatcherAssumption` (at least two slots; programs whose branches lead into
the code, as `resolve_jumps` ensures; events are numbers), `ISAAssumption` (words
no narrower than addresses), `ProgramsAssumption`, `RcacheAssumption` and
`TraceAssumption` (well-formed programs; traces of more than two cells), and
`ExecAssumption` (traces of more than two cells; files whose lines consist of words and
which, if they assemble, have bytecode shorter than 65536 bytes and numeric addresses
that are boundaries of instructions, `NumbersLand`). The theorems about texts assume nothing of constants: they are about the two
tables of instructions that the code has.

**`PigletMatcherProofs`**

* `TypeCorrect` – `Spec => []TypeOK`, for any client. The invariant is
  inductive as stated; the work is that a list below its capacity stays below it
  through the wrap, and that threads stay on addresses of the code.
* `LinearSafe`, `LinearOrdered` – a linear pattern shorter than the lists never
  loses a thread. `LinearNeverLoses` is far from inductive. `LinearInv` adds why:
  each list is strictly decreasing; every thread but a new one stands behind a
  `NEXT`; the thread being run stays between its own start and the starts of the older
  threads, so what it appends to the next list is smaller than everything there;
  hence the lists hold distinct addresses and are no longer than the code.
* `Implementation` – `SessionSpec => ImplementsEventMatcher`.
  `ExplorationInv` says that, unless `lost`, every reached address is
  either still pending (in the list behind `thread_i`, or `ip`) or served: its
  successors are reached and, at a `NEXT`, the resume address waits. When the `for`
  loop ends nothing is pending, so the reached set is closed, which is what
  `MATCH_NEXT` promises.

* `VerdictsRight` – `HistorySpec => []VerdictsExact`, for sessions of any length.
  `WindowInv` relates the threads to the past. Between two events, threads wait
  exactly behind the `NEXT`s that the events seen last lead to. While an event is
  handled, only places that they lead to are reached, and those where a
  thread begins or resumes are among them from the start; when no thread is left, all
  have been reached (`AllReached`, from `ExplorationInv`). An event to come makes each
  window one event longer (`FulfilledLater`). As `LinearInv` keeps threads from
  getting lost, no window is missed.

**`PigletISAProofs`** has the lemmas on instructions, and what makes results
comparable. A *moment* of a run is where control has settled, the data, and
whether and how the run has ended; `After` is the moment that follows one of known
instructions. `Path(code)` is the smallest set of moments with the first one
(zeroed data) that is closed under `After`. It is defined without recursion, and yet has one
end at most: by `OneEnd`, two moments of it with a final status are the same
moment. The argument needs no induction on steps: of a smallest set closed under a
function, the moments that come before an ended one, or from which it can be
reached, are again closed.

**`PigletVMProofs`**

* `TypeCorrect` – `Spec => []TypeOK`: the stack is inside its array, `ip` inside the
  program, and every value is a word, whatever the program does.
* `StackDiscipline` – `Spec => []StackSafe`: a program whose control flow keeps to
  the stack reaches nothing undefined. `DepthInv` is the bridge between the
  static analysis and the run: while a run of a disciplined program lasts,
  `<<ip, Len(stack)>>` is a pair the analysis reached, which `Disciplined` says is
  closed under `Flow`.
* `Implementation` – `Spec => ImplementsPigletMachine`. The machine does not see
  JUMPs, so it stands at `Settle(bytecode, ip)`, where following JUMPs from `ip` leads.
  `Settle` is defined by the smallest set of JUMPs closed under following
  them, without recursion; the lemma `SettleJump` says that a JUMP and its target
  settle at the same place, so that an executed JUMP is a stuttering step.
* `OneWay` – `Spec => []OnPath`: of known instructions, the moment that a run
  is at lies on the path of its program. It says more than the refinement, which allows
  a call to begin with another program: what a run computes and how it ends is
  settled by its program alone.

**`PigletTraceProofs`**

* `TypeCorrect`, `Rows` – `Spec => []TypeOK` and `Spec => []RowsClosed`. Neither is
  inductive. `CacheInv` says what a row *means*: each cell stands for the
  instruction at its `src`, the first one is where control settles from the head of
  the row and each next one where it settles behind the one before (`Straight`),
  and the row is closed by a final instruction, a tail, or a prejump and the branch it
  belongs to (`Closes`). A row that is being written satisfies it up to the
  address `at` (`Open`) and has room for the two cells of a branch. A branch is
  called with `pc` behind it, which is what its prejump is for.
* `Implementation` – `Spec => ImplementsPigletMachine`, for any trace length. From
  `CacheInv`: compiling, dispatching, prejumps and tails are stuttering steps,
  since they all stay at the same instruction after JUMPs are followed; each
  operation called is the instruction whose turn it is.
* `OneWay` – tracing keeps to the path of the program.

**`PigletRcacheProofs`**

* `TypeCorrect` – `Spec => []TypeOK`, for every program, disciplined or not.
* `Implementation` – `Spec => ImplementsPigletVM`. `SeenExecute` is the core: for each
  class of instructions, the stack that array and register stand for afterwards
  is the effect on the one they stood for (`SeenPush`, `SeenPop`, `SeenPops`). It
  holds only where the operands are there, so the proof carries its own `DepthInv`:
  with the spilled cell, the array is as high as the stack it stands for. A `LOAD` above the memory
  is the one step of a disciplined program without a counterpart (F3).
* `OneWay` – on the stack that array and register stand for, a disciplined
  program keeps to its path until it does that.

**`PigletRcacheTraceProofs`**

* `TypeCorrect`, `Implementation` – `Spec => ImplementsPigletTrace`, with the
  assumptions of `PigletTrace` as a premise (`RowsAssumption`). The invariant adds to
  the one of `PigletTraceProofs`, whose lemmas are used through an instance, that
  whenever the dispatch loop runs the saved top is the one the last handler had.
  With `LeavesData`, which says that popped cells do not matter, each handler
  takes the step of `PigletTrace`. Together with `PigletTraceProofs` it follows that this
  interpreter, too, executes `PigletMachine`.
* `OneWay` – and it keeps to the path of its program.

**`PigletExecProofs`**

* `SayTheSame`, `SayTheirOwn`, `StatusOfAll` – `Spec => []EnginesAgree`,
  `[]ReportsOwn` and `[]ExitStatusTells`, for all files whose numeric addresses are
  boundaries, any number of iterations and any length of traces. Without that they would be
  wrong: in `PUSHI 27`, `JUMP 2`, `DONE` the JUMP goes to the byte 27, an unknown opcode
  that the switches report and the threaded interpreter jumps through no label for. The invariant `ExecInv` says of the
  structure that is being called that it keeps its type invariant and rows and is on
  the path of the bytecode (the lemmas of the four modules above, taken as instances).
  To this it adds that every report written tells an end of the path of the file's
  bytecode, and that the structures that `get_result` asks have run that bytecode
  to its end. `OneEnd` then makes all reports equal, the two that
  show another structure's result included: that is right only because the
  interpreters before them ran first, and the invariant says so.
* The path of a program has one end only if its opcodes are known. `AssembledKnown`
  has this from the lemmas of the module below, which is instantiated for the
  file of the command: a file that assembles has no other opcodes.
* `CommandsRunPrograms` – with a memory of 65536 words, as in the code, what a command
  hands to the interpreters is always one of the `Programs` they are defined for, so the
  guard of their calls keeps nothing out (`AssembledRuns`, from `ProgramsLoad`).

**`AsmTextsProofs`** – for every asm file, of any length, whose lines are words (`Words`:
a number, a name, a definition, a mnemonic of the table, or a blank), for either
assembler:

* `ListingShowsText` – `RoundTrip`. `BranchesLand` – `BranchesLandOnLabels`, if the
  bytecode is shorter than 65536 bytes: a longer program has addresses that the 16 bits of
  an operand cannot name (`Addressable`), and neither tool has buffers for it
  (`MAX_CODE_LEN`). `ListingAssembles` – `ListingReassembles`.
* The properties are about what loops have computed. A loop is a recursive
  function of the number of turns; `Loop` shows that such a function exists, and
  `BoundedInduction`, from the well-foundedness of `<`, what its values are. `FlattenSeq`
  is one of these loops (`JoinedParts`), and `JoinedPlace` says where a part of what it joins lies.
* `Table` is all that is relied on in the two tables: at most 256 distinct names, the
  first one `ABORT`, and for each a list of operand kinds; `Tables` checks it for both.
* `LinesLoop`: every line of a file that assembles is an instruction with as many
  operands as its table says, or a label. `Written`: with the bytes that the second pass
  writes (`EmitLine`) the offsets of the first pass (`OffsetLoop`) are the numbers of
  bytes before each line. So the disassembler, which goes from offset to offset,
  decodes exactly the instructions of the lines (`DecodedLines`), and these are the ones typed
  (`ListedTyped`). `CutAlike`: the listing and the text are cut at the same `ABORT`.
* A listing typed in again has a number for every operand, so each of its lines is read
  (`RowParsed`) and no label is missing; its own listing has the same operations and
  operands, and therefore the same offsets (`SameListing`).
* `ProgramsLoad` – `LoadsWellFormed`, where the program is `Addressable` and its numeric
  addresses are boundaries (`NumbersLand`): what is decoded from the bytes is, operand by
  operand, an instruction of the interpreters (`MatcherDecodes`, `PigletDecodes`). Of numbers
  it is a premise that they are boundaries; of labels it is proved, from the offsets of the
  two passes (`TargetNumber`, `BranchesLandInside`). A boundary becomes
  a number of instructions, at most the length of the program (`NumberBound`). This is the
  `WellFormed` that `MatcherAssumption`, `ProgramsAssumption`, `RcacheAssumption` and
  `TraceAssumption` ask of programs.
* `BranchesReach` – `BranchesLandOnInstructions`, where the program is `Addressable`,
  whatever its numbers: the offset of a label is one of the offsets of the listing or its
  end, and these rise with every instruction (`SpacedRises`), so counting those before it
  (`ListedBefore`) counts the instructions before the label.

**Model-checked only**: liveness (`AcceptTerminates`, `ForwardStops`, `RunEnds`), which
needs fairness and is out of the prover's reach; `GrammarFaithful`,
`NothingMissedUnlessLost` and `ExactWithoutChoice`, which are about the parser, the
translator and the meaning of patterns: recursive operators over terms, which the
provers cannot reason about. `VerdictsRight` has the core of `ExactWithoutChoice`, for the
matcher and patterns without operators. `ImplementsPigletTrace` is checked of a client
with both structures of `pigletvm-rcache.c`, and proved, as is the type invariant that
belongs to it, of the structure alone with any client. The three violated
properties of the driver and `LoadsAgree` are findings.

## 6. Where the code and its documentation disagree

* **F1** (`match_events_choice`) `OP_JUMP` and `OP_SPLIT` add threads but the
  thread that branched goes on behind the branch (`piglet-matcher.c:103`). Behind
  the `JUMP` that ends the left side of a choice lies the right side, so
  `1 (2|3) 1` is reported on the events 1 2 3 1. The third article says that the
  thread that branched is not kept and that the jump goes to the end.
  Patterns without `|` are not affected: `ExactWithoutChoice`.
* **F2** (`match_events_overflow`) the counters of 256-entry lists are `uint8_t`
  (`piglet-matcher.c:33`): `1 (2|3)* 1` multiplies threads, a list
  wraps to empty, and the pattern is missed on 1 2 2 2 2 1.
* **F3** (`rcache_load`) `LOAD` with a cached stack top indexes the memory with
  all 64 bits (`pigletvm-rcache.c:128`); `pigletvm.c` truncates to 16, and so does
  every `STORE`.
* **F4** (`match_events_names`) `event_name` keeps 8 bits of a name that has 16
  (`piglet-matcher.c:23`), while `OP_NAME` compares them with a 16-bit operand: the
  pattern 257, which parser and assembler accept, is never found on event 257.
  The third article describes an event as 16 bits of type and 16 of context.

## 7. What is not modelled

* Characters: the scanner of `tools.py` and `terms.py`, which cuts a pattern into
  tokens; `sscanf` and `strtok`-like code that cuts lines into words and numbers, its
  copies of arguments that are one byte too short for the closing zero included
  (`piglet-matcher-exec.c:149`). A line of blanks alone, on which that code reads outside the string, is left out.
* Files and the command line, `fopen` and `malloc` failures, timers, and the
  wording of what is printed.
* Jumps to a byte inside an instruction or behind the end. A number typed as an
  address can ask for one, since both assemblers take it unchecked
  (`piglet-matcher-exec.c:153` and `186`, `pigletvm-exec.c:257`): in `NEXT`, `JUMP 3` the
  matcher goes on with the last byte of the `JUMP`, which reads as a `NEXT`; in `PUSHI 27`,
  `JUMP 2`, `DONE` the VM decodes the 27 as an opcode; `JUMP 60000` leaves the buffer.
  Addresses are instruction numbers in the models of the interpreters and byte
  offsets in `AsmFile`, so what such a program does is not described, and what is said
  of the interpreters is said of files for which `NumbersLand` holds. Labels never ask for one,
  and the translator writes nothing else. Opcodes above those of `enum matcher_opcode`.
* Programs that never stop jumping: a cycle of `JUMP`s keeps the trace compiler from
  running what it has compiled (`pigletvm.c:931`), and `ForwardStops` leaves cycles out.
  Unknown opcodes beyond their being undefined behaviour of the threaded
  interpreter: the trace compiler looks them up behind the end of its table.
* The limits `MAX_CODE_LEN` and `MAX_EVENT_LEN`, which nothing in the code
  compares with the sizes that are read: reaching them takes files of 4096 entries.
* The example interpreters of the first article (`interpreter-*.c`): five
  self-contained programs, each running fixed bytecode in its own `main`, with no
  other part of the repository depending on them.
* The vendored `raddsl`, tests, build files and articles are read but not modelled;
  `PROJECT.json` gives the reason for each.

## 8. Plan

Done, in this order: the matcher library with its proofs; assembler, translator and
driver; PigletVM's interpreters with their proofs; the trace interpreter; the
interpreters with a cached top; the parser, both assemblers, the cached trace
interpreter and the runner; the refinement proofs of all four models of PigletVM's
interpreters.

The proofs about texts and the runner came next, and last the verdicts of linear
patterns and the programs that are loaded.

Left:

1. `NothingMissedUnlessLost` for programs that the translator writes: it would need the
   meaning of patterns without recursion over terms, such as a relation
   between the terms of a pattern and ranges of its code.
2. The scanner, if patterns with spaces in unusual places matter to someone.
3. The example interpreters, if they grow clients.
