----------------------------- MODULE PigletExec ------------------------------
(***************************************************************************)
(* The asm, run and runtimes commands of pigletvm-exec.c: a file is         *)
(* assembled, and its bytecode is run num_iterations times on each of the   *)
(* eight interpreters in turn.  "run" is one iteration.                     *)
(*                                                                          *)
(* The four static structures (vm, vm_trace, vm_rcache, vm_rcache_trace)    *)
(* have variables of their own for what a caller can see after a call: the  *)
(* stacks, the memories and the results.  The others, which every reset     *)
(* sets and nothing reads between two calls, are shared.                    *)
(***************************************************************************)
EXTENDS PigletAsm

CONSTANTS
  Files,         \* asm files
  MaxTraceLen,
  MaxIterations

(* Files of words, whose numeric addresses are those of instructions and whose *)
(* labels have addresses of 16 bits.                                           *)
ASSUME ExecAssumption ==
  /\ MaxTraceLen \in Nat /\ MaxTraceLen > 2
  /\ MaxIterations \in Nat
  /\ Files \subseteq Seq(Seq(File!Words))
  /\ \A f \in Files :
       File!Assembles(File!Lines(f)) =>
         File!NumbersLand(File!Lines(f)) /\ Len(Assemble(f)) < 65536

VARIABLES
  file,                                    \* the asm file of the commands
  num_iterations,
  command,                                 \* "asm", "run", a call is "called", or "exited"
  reports,                                 \* what the run_* functions have said
  res,                                     \* of main
  bytecode, status,                        \* of the interpreter called last
  engine, ip,                              \* if it is none with a trace
  pc, trace_cache, mode, head, at, k,      \* if it is one with a trace
  data,                                    \* vm
  trace_data,                              \* vm_trace
  rcache_data, acc,                        \* vm_rcache
  array, saved_top, stack_top, regs        \* vm_rcache_trace

commands == <<file, num_iterations, command, reports, res>>
plain == <<engine, ip>>
rows == <<pc, trace_cache, mode, head, at, k>>
rcache == <<rcache_data, acc>>
rcache_trace == <<array, saved_top, stack_top, regs>>
vars == <<commands, bytecode, status, plain, rows, data, trace_data, rcache, rcache_trace>>

(* What the interpreters may be given; a caller passes them its bytecode. *)
Programs == {code \in Seq(Instruction) : WellFormed(code)}

VM == INSTANCE PigletVM
Trace == INSTANCE PigletTrace WITH data <- trace_data
Rcache == INSTANCE PigletRcache WITH data <- rcache_data
RcacheTrace == INSTANCE PigletRcacheTrace

Outcomes == {"EXIT_SUCCESS", "EXIT_FAILURE"}

Interpreter(structure, e) == [structure |-> structure, engine |-> e]

(* The calls of the commands with the trace interpreters before the others. *)
Interpreters_TraceFirst == <<
  Interpreter("vm_trace", "trace"),
  Interpreter("vm", "switch"), Interpreter("vm", "no_range_check"), Interpreter("vm", "threaded"),
  Interpreter("vm_rcache_trace", "trace"),
  Interpreter("vm_rcache", "switch"), Interpreter("vm_rcache", "no_range_check"),
  Interpreter("vm_rcache", "threaded")>>

Interpreters == <<
  Interpreter("vm", "switch"), Interpreter("vm", "no_range_check"), Interpreter("vm", "threaded"),
  Interpreter("vm_trace", "trace"),
  Interpreter("vm_rcache", "switch"), Interpreter("vm_rcache", "no_range_check"),
  Interpreter("vm_rcache", "threaded"), Interpreter("vm_rcache_trace", "trace")>>

(* "res" is not initialised. *)
Init ==
  /\ file \in Files
  /\ num_iterations \in 0 .. MaxIterations
  /\ command = "asm"
  /\ reports = <<>>
  /\ res \in Outcomes
  /\ VM!Init /\ Trace!Init /\ Rcache!Init /\ RcacheTrace!Init

-----------------------------------------------------------------------------
(* asm, and read_file of the command that runs its output. *)
AsmCommand ==
  /\ command = "asm"
  /\ File!Assembles(File!Lines(file)) /\ File!Writes(Assemble(file))
  /\ bytecode' = Load(Assemble(file))
  /\ command' = "run"
  /\ UNCHANGED <<file, num_iterations, reports, res, status, plain, rows, data, trace_data,
                 rcache, rcache_trace>>

AsmFails ==
  /\ command = "asm"
  /\ ~(File!Assembles(File!Lines(file)) /\ File!Writes(Assemble(file)))
  /\ command' = "exited"
  /\ res' = "EXIT_FAILURE"
  /\ UNCHANGED <<file, num_iterations, reports, bytecode, status, plain, rows, data, trace_data,
                 rcache, rcache_trace>>

-----------------------------------------------------------------------------
(* run and runtimes *)

CallsLeft == Len(reports) < num_iterations * Len(Interpreters)

(* All iterations of one interpreter come before those of the next. *)
Called == Interpreters[Len(reports) \div num_iterations + 1]

Running(structure) == command \in {"run", "called"} /\ CallsLeft /\ Called.structure = structure

(* A call of an interpreter (start), or the next step of its run. *)
Advance(start, step) ==
  /\ UNCHANGED <<file, num_iterations, reports, res, bytecode>>
  /\ \/ command = "run" /\ command' = "called" /\ start
     \/ command = "called" /\ command' = "called" /\ step

InterpretVM ==
  /\ Running("vm")
  /\ Advance(engine' = Called.engine /\ VM!Start, VM!Run)
  /\ UNCHANGED <<rows, trace_data, rcache, rcache_trace>>

InterpretTrace ==
  /\ Running("vm_trace")
  /\ Advance(Trace!Start, Trace!Step)
  /\ UNCHANGED <<plain, data, rcache, rcache_trace>>

InterpretRcache ==
  /\ Running("vm_rcache")
  /\ Advance(engine' = Called.engine /\ Rcache!Start, Rcache!Run)
  /\ UNCHANGED <<rows, data, trace_data, rcache_trace>>

InterpretRcacheTrace ==
  /\ Running("vm_rcache_trace")
  /\ Advance(RcacheTrace!Start, RcacheTrace!Step)
  /\ UNCHANGED <<plain, data, trace_data, rcache>>

(* The last value that the interpreter printed, and its result. *)
Own ==
  CASE Called.structure = "vm"        -> data
    [] Called.structure = "vm_trace"  -> trace_data
    [] Called.structure = "vm_rcache" -> rcache_data
    [] OTHER                          -> regs

(* The result of the structure that the run_* function asks. *)
get_result == IF Called.structure \in {"vm", "vm_trace"} THEN data.result ELSE rcache_data.result

(* A run_* function after the interpreter has returned. *)
Report ==
  /\ command = "called" /\ status \in VM!Results
  /\ reports' = Append(reports, [engine |-> Called, error |-> status, value |-> get_result,
                                 own |-> Own.result, printed |-> Own.printed])
  /\ res' = IF status = "SUCCESS" THEN "EXIT_SUCCESS" ELSE "EXIT_FAILURE"
  /\ command' = "run"
  /\ UNCHANGED <<file, num_iterations, bytecode, status, plain, rows, data, trace_data,
                 rcache, rcache_trace>>

ReturnRes ==
  /\ command = "run" /\ ~CallsLeft
  /\ command' = "exited"
  /\ UNCHANGED <<file, num_iterations, reports, res, bytecode, status, plain, rows, data,
                 trace_data, rcache, rcache_trace>>

RunCommand ==
  \/ InterpretVM \/ InterpretTrace \/ InterpretRcache \/ InterpretRcacheTrace
  \/ Report \/ ReturnRes

Next == AsmCommand \/ AsmFails \/ RunCommand

Spec == Init /\ [][Next]_vars

(* The program is sequential: a command that was started keeps running. *)
FairSpec == Spec /\ WF_vars(RunCommand)

-----------------------------------------------------------------------------
(* All eight interpreters say the same of a program that keeps to the stack, *)
(* in each iteration: they end alike, print alike, and with success show the *)
(* same value.                                                              *)
EnginesAgree ==
  \A i, j \in DOMAIN reports :
    /\ reports[i].error = reports[j].error
    /\ reports[i].printed = reports[j].printed
    /\ reports[i].error = "SUCCESS" => reports[i].value = reports[j].value

(* The value shown for an interpreter is the result that this interpreter has *)
(* computed, although two of the run_* functions ask another one's structure. *)
ReportsOwn ==
  \A i \in DOMAIN reports : reports[i].error = "SUCCESS" => reports[i].value = reports[i].own

(* The exit status of run, which is the last interpreter's, tells of all: it is *)
(* success only when the file was assembled and none of the runs failed.       *)
ExitStatusTells ==
  command = "exited" /\ num_iterations > 0 =>
    (res = "EXIT_SUCCESS" <=> /\ reports # <<>>
                              /\ \A i \in DOMAIN reports : reports[i].error = "SUCCESS")

(* The commands end on a file whose jumps and branches all go forward. *)
RunEnds == (command = "run" /\ Trace!Forward(bytecode)) ~> command = "exited"

=============================================================================
