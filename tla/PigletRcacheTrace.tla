-------------------------- MODULE PigletRcacheTrace --------------------------
(***************************************************************************)
(* vm_rcache_interpret_trace of pigletvm-rcache.c: the trace interpreter    *)
(* whose handlers take the stack top as an argument and hand it on.  The    *)
(* structure gets it back only when a row ends, by END_TRACE.               *)
(*                                                                          *)
(* Rows are written as in PigletTrace, from which Compile is taken: the two *)
(* trace_compile_handlers are the same but for the argument they pass on.   *)
(***************************************************************************)
EXTENDS PigletISA

CONSTANTS Programs, MaxTraceLen  \* as in PigletTrace, with its assumptions

VARIABLES
  bytecode, pc, status, trace_cache, mode, head, at, k,  \* as in PigletTrace
  array,      \* vm_rcache_trace.stack, all of its cells
  saved_top,  \* vm_rcache_trace.stack_top, as a number of cells
  stack_top,  \* the argument of the handler called last, likewise
  regs        \* vm_rcache_trace.memory, result, and the output

cache == <<bytecode, pc, status, trace_cache, mode, head, at, k>>
stacks == <<array, saved_top, stack_top, regs>>
vars == <<cache, stacks>>

(* The data of PigletISA: the cells below the handlers' stack top are live. *)
data ==
  [stack |-> SubSeq(array, 1, stack_top),
   memory |-> regs.memory, result |-> regs.result, printed |-> regs.printed]

Trace == INSTANCE PigletTrace

EmptyArray == [i \in 1 .. StackMax |-> 0]

NoRegs == [memory |-> Zeroed.memory, result |-> 0, printed |-> 0]

Init ==
  /\ bytecode = <<>>
  /\ pc = 0
  /\ status = "off"
  /\ trace_cache = Trace!Cleared(<<>>)
  /\ mode = "dispatch"
  /\ head = 0 /\ at = 0 /\ k = 1
  /\ array = EmptyArray
  /\ saved_top = 0 /\ stack_top = 0
  /\ regs = NoRegs

(* A call: vm_rcache_trace_reset. *)
Start ==
  /\ status \notin {"running", "UNDEFINED"}
  /\ bytecode' \in Programs
  /\ pc' = 0
  /\ status' = "running"
  /\ trace_cache' = Trace!Cleared(bytecode')
  /\ mode' = "dispatch"
  /\ head' = 0 /\ at' = 0 /\ k' = 1
  /\ array' = EmptyArray
  /\ saved_top' = 0 /\ stack_top' = 0
  /\ regs' = NoRegs

(* The loop of vm_rcache_interpret_trace hands out the saved top. *)
Dispatch ==
  /\ Trace!In("dispatch")
  /\ head' = pc
  /\ IF trace_cache[pc] = <<>>
       THEN mode' = "compile" /\ at' = pc /\ UNCHANGED k
       ELSE mode' = "run" /\ k' = 1 /\ UNCHANGED at
  /\ stack_top' = saved_top
  /\ UNCHANGED <<bytecode, pc, status, trace_cache, array, saved_top, regs>>

Compile == UNCHANGED stacks /\ Trace!Compile

-----------------------------------------------------------------------------
(* The handlers *)

Cell == Trace!row[k]

TopValue == data.stack[stack_top]

(* A handler leaves the data d; popped cells keep their values. *)
Leaves(d) ==
  /\ array' = [i \in 1 .. StackMax |-> IF i <= Len(d.stack) THEN d.stack[i] ELSE array[i]]
  /\ stack_top' = Len(d.stack)
  /\ regs' = [memory |-> d.memory, result |-> d.result, printed |-> d.printed]

(* END_TRACE, back to the loop. *)
EndTrace ==
  /\ saved_top' = stack_top'
  /\ mode' = "dispatch"
  /\ UNCHANGED <<bytecode, status, trace_cache, head, at, k>>

RunOp ==
  /\ Trace!Calls(DataOps)
  /\ Trace!Operands
  /\ ~DividesByZero(Trace!Operation, TopValue)
  /\ Leaves(Effect(Trace!Operation, data))
  /\ k' = k + 1
  /\ UNCHANGED <<bytecode, pc, status, trace_cache, mode, head, at, saved_top>>

(* "error" not set: the reset left SUCCESS there. *)
RunDivideByZero_NoError ==
  /\ Trace!Calls({"DIV"})
  /\ Trace!Operands
  /\ DividesByZero(Trace!Operation, TopValue)
  /\ Leaves(Popped(data))
  /\ status' = "SUCCESS"
  /\ UNCHANGED <<bytecode, pc, trace_cache, mode, head, at, k, saved_top>>

(* longjmp: the saved top stays what it was when the row began. *)
RunDivideByZero ==
  /\ Trace!Calls({"DIV"})
  /\ Trace!Operands
  /\ DividesByZero(Trace!Operation, TopValue)
  /\ Leaves(Popped(data))
  /\ status' = "ERROR_DIVISION_BY_ZERO"
  /\ UNCHANGED <<bytecode, pc, trace_cache, mode, head, at, k, saved_top>>

RunPrejump ==
  /\ Trace!Calls({"PREJUMP"})
  /\ pc' = Cell.arg
  /\ k' = k + 1
  /\ UNCHANGED <<bytecode, status, trace_cache, mode, head, at, stacks>>

(* A return in place of END_TRACE. *)
RunBranch_NoEndTrace ==
  /\ Trace!Calls(BranchOps)
  /\ Trace!Operands
  /\ Leaves(Popped(data))
  /\ pc' = IF Taken(Trace!Operation, TopValue) THEN Cell.arg ELSE pc
  /\ mode' = "dispatch"
  /\ UNCHANGED <<bytecode, status, trace_cache, head, at, k, saved_top>>

RunBranch ==
  /\ Trace!Calls(BranchOps)
  /\ Trace!Operands
  /\ Leaves(Popped(data))
  /\ pc' = IF Taken(Trace!Operation, TopValue) THEN Cell.arg ELSE pc
  /\ EndTrace

RunTail ==
  /\ Trace!Calls({"TAIL"})
  /\ pc' = Cell.arg
  /\ UNCHANGED <<array, stack_top, regs>>
  /\ EndTrace

RunFinal ==
  /\ Trace!Calls(FinalOps)
  /\ status' = IF Cell.handler = "DONE" THEN "SUCCESS" ELSE "ERROR_END_OF_STREAM"
  /\ saved_top' = stack_top
  /\ UNCHANGED <<bytecode, pc, trace_cache, mode, head, at, k, array, stack_top, regs>>

RunUndefined ==
  /\ Trace!Calls(DataOps \cup BranchOps)
  /\ ~Trace!Operands
  /\ status' = "UNDEFINED"
  /\ UNCHANGED <<bytecode, pc, trace_cache, mode, head, at, k, stacks>>

Handle ==
  RunOp \/ RunDivideByZero \/ RunPrejump \/ RunBranch \/ RunTail \/ RunFinal \/ RunUndefined

Step == Dispatch \/ Compile \/ Handle

Next == Start \/ Step

Spec == Init /\ [][Next]_vars

-----------------------------------------------------------------------------
TypeOK ==
  /\ Trace!TypeOK
  /\ array \in [1 .. StackMax -> Word]
  /\ {saved_top, stack_top} \subseteq 0 .. StackMax

(* The stack top that travels through the handlers and comes back when a row  *)
(* ends is the one PigletTrace keeps in its structure: no row begins on a top *)
(* that an earlier row, or an earlier run that was left by longjmp, has left  *)
(* behind.                                                                    *)
ImplementsPigletTrace == Trace!Spec

=============================================================================
