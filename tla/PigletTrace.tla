----------------------------- MODULE PigletTrace -----------------------------
(***************************************************************************)
(* vm_interpret_trace of pigletvm.c.  The first time control comes to a pc, *)
(* trace_compile_handler writes the straight-line code that starts there,   *)
(* followed through unconditional jumps, as a row of handlers and runs it;  *)
(* later visits run the row.  A row ends with a final instruction, with a   *)
(* prejump and a branch, or, when it is full, with a tail.                  *)
(*                                                                          *)
(* trace_cache[pc] is the row written so far, <<>> for the initial          *)
(* trace_compile_handler.  A cell holds a handler, its argument, and "src", *)
(* the address it was read from, which only the refinement mapping uses.    *)
(***************************************************************************)
EXTENDS PigletISA

CONSTANTS
  Programs,
  MaxTraceLen  \* MAX_TRACE_LEN

ASSUME TraceAssumption ==
  /\ \A code \in Programs : WellFormed(code)
  /\ MaxTraceLen \in Nat /\ MaxTraceLen > 2

VARIABLES
  bytecode,     \* vm_trace.bytecode
  pc,           \* vm_trace.pc
  data,         \* vm_trace.stack, memory, result, and the output
  status,       \* is_running and error, as in PigletVM
  trace_cache,  \* vm_trace.trace_cache
  mode,         \* "dispatch" in the loop of vm_interpret_trace, "compile", "run"
  head,         \* the row compiled or run
  at,           \* "compile": the local pc of trace_compile_handler
  k             \* "run": the cell whose handler is called

vars == <<bytecode, pc, data, status, trace_cache, mode, head, at, k>>

Handlers == Ops \cup {"TAIL", "PREJUMP"}

Cell(handler, arg, src) == [handler |-> handler, arg |-> arg, src |-> src]

(* vm_trace_reset. *)
Cleared(code) == [a \in Addresses(code) |-> <<>>]

Init ==
  /\ bytecode = <<>>
  /\ pc = 0
  /\ data = Zeroed
  /\ status = "off"
  /\ trace_cache = Cleared(<<>>)
  /\ mode = "dispatch"
  /\ head = 0 /\ at = 0 /\ k = 1

(* The rows of the last program kept. *)
Start_StaleCache ==
  /\ status \notin {"running", "UNDEFINED"}
  /\ bytecode' \in Programs
  /\ pc' = 0
  /\ data' = Zeroed
  /\ status' = "running"
  /\ trace_cache' = [a \in Addresses(bytecode') |->
                      IF a \in DOMAIN trace_cache THEN trace_cache[a] ELSE <<>>]
  /\ mode' = "dispatch"
  /\ head' = 0 /\ at' = 0 /\ k' = 1

Start ==
  /\ status \notin {"running", "UNDEFINED"}
  /\ bytecode' \in Programs
  /\ pc' = 0
  /\ data' = Zeroed
  /\ status' = "running"
  /\ trace_cache' = Cleared(bytecode')
  /\ mode' = "dispatch"
  /\ head' = 0 /\ at' = 0 /\ k' = 1

In(m) == status = "running" /\ mode = m

(* One turn of the loop: call the handler at the head of the row of pc. *)
Dispatch ==
  /\ In("dispatch")
  /\ head' = pc
  /\ IF trace_cache[pc] = <<>>
       THEN mode' = "compile" /\ at' = pc /\ UNCHANGED k
       ELSE mode' = "run" /\ k' = 1 /\ UNCHANGED at
  /\ UNCHANGED <<bytecode, pc, data, status, trace_cache>>

-----------------------------------------------------------------------------
(* trace_compile_handler *)

row == trace_cache[head]
Read == At(bytecode, at)
HasRoom == Len(row) < MaxTraceLen - 2

Write(cells) == trace_cache' = [trace_cache EXCEPT ![head] = @ \o cells]

CompileOp ==
  /\ In("compile")
  /\ Known(Read) /\ Read.op \in DataOps /\ HasRoom
  /\ Write(<<Cell(Read.op, Read.arg, at)>>)
  /\ at' = at + 1
  /\ UNCHANGED <<bytecode, pc, data, status, mode, head, k>>

CompileJump ==
  /\ In("compile")
  /\ Known(Read) /\ Read.op = "JUMP" /\ HasRoom
  /\ at' = Read.arg
  /\ UNCHANGED <<bytecode, pc, data, status, trace_cache, mode, head, k>>

RunRow ==
  /\ mode' = "run"
  /\ k' = 1
  /\ UNCHANGED <<bytecode, pc, data, status, head, at>>

CompileFinal ==
  /\ In("compile")
  /\ Known(Read) /\ Read.op \in FinalOps
  /\ Write(<<Cell(Read.op, 0, at)>>)
  /\ RunRow

(* No prejump: pc is not moved past the branch. *)
CompileBranch_NoPrejump ==
  /\ In("compile")
  /\ Known(Read) /\ Read.op \in BranchOps
  /\ Write(<<Cell(Read.op, Read.arg, at)>>)
  /\ RunRow

(* The prejump one instruction too far. *)
CompileBranch_SkipsNext ==
  /\ In("compile")
  /\ Known(Read) /\ Read.op \in BranchOps
  /\ Write(<<Cell("PREJUMP", at + 2, at), Cell(Read.op, Read.arg, at)>>)
  /\ RunRow

CompileBranch ==
  /\ In("compile")
  /\ Known(Read) /\ Read.op \in BranchOps
  /\ Write(<<Cell("PREJUMP", at + 1, at), Cell(Read.op, Read.arg, at)>>)
  /\ RunRow

(* The tail of a full row leads back to its head. *)
CompileTail_Restarts ==
  /\ In("compile")
  /\ Known(Read) /\ Read.op \in DataOps \cup {"JUMP"} /\ ~HasRoom
  /\ Write(<<Cell("TAIL", head, at)>>)
  /\ RunRow

CompileTail ==
  /\ In("compile")
  /\ Known(Read) /\ Read.op \in DataOps \cup {"JUMP"} /\ ~HasRoom
  /\ Write(<<Cell("TAIL", at, at)>>)
  /\ RunRow

(* The opcode indexes past the end of trace_opcode_to_opinfo. *)
CompileUnknown ==
  /\ In("compile")
  /\ ~Known(Read)
  /\ status' = "UNDEFINED"
  /\ UNCHANGED <<bytecode, pc, data, trace_cache, mode, head, at, k>>

Compile ==
  CompileOp \/ CompileJump \/ CompileFinal \/ CompileBranch \/ CompileTail \/ CompileUnknown

-----------------------------------------------------------------------------
(* The handlers *)

Calls(handlers) == In("run") /\ row[k].handler \in handlers

Operation == [op |-> row[k].handler, arg |-> row[k].arg, high |-> FALSE]

Operands == Fits(Operation, Len(data.stack))

RunOp ==
  /\ Calls(DataOps)
  /\ Operands
  /\ ~DividesByZero(Operation, Top(data.stack))
  /\ data' = Effect(Operation, data)
  /\ k' = k + 1
  /\ UNCHANGED <<bytecode, pc, status, trace_cache, mode, head, at>>

(* longjmp to vm_interpret_trace. *)
RunDivideByZero ==
  /\ Calls({"DIV"})
  /\ Operands
  /\ DividesByZero(Operation, Top(data.stack))
  /\ data' = Popped(data)
  /\ status' = "ERROR_DIVISION_BY_ZERO"
  /\ UNCHANGED <<bytecode, pc, trace_cache, mode, head, at, k>>

RunPrejump ==
  /\ Calls({"PREJUMP"})
  /\ pc' = row[k].arg
  /\ k' = k + 1
  /\ UNCHANGED <<bytecode, data, status, trace_cache, mode, head, at>>

RunBranch ==
  /\ Calls(BranchOps)
  /\ Operands
  /\ data' = Popped(data)
  /\ pc' = IF Taken(Operation, Top(data.stack)) THEN row[k].arg ELSE pc
  /\ mode' = "dispatch"
  /\ UNCHANGED <<bytecode, status, trace_cache, head, at, k>>

RunTail ==
  /\ Calls({"TAIL"})
  /\ pc' = row[k].arg
  /\ mode' = "dispatch"
  /\ UNCHANGED <<bytecode, data, status, trace_cache, head, at, k>>

RunFinal ==
  /\ Calls(FinalOps)
  /\ status' = IF row[k].handler = "DONE" THEN "SUCCESS" ELSE "ERROR_END_OF_STREAM"
  /\ UNCHANGED <<bytecode, pc, data, trace_cache, mode, head, at, k>>

RunUndefined ==
  /\ Calls(DataOps \cup BranchOps)
  /\ ~Operands
  /\ status' = "UNDEFINED"
  /\ UNCHANGED <<bytecode, pc, data, trace_cache, mode, head, at, k>>

Handle ==
  RunOp \/ RunDivideByZero \/ RunPrejump \/ RunBranch \/ RunTail \/ RunFinal \/ RunUndefined

Step == Dispatch \/ Compile \/ Handle

Next == Start \/ Step

Spec == Init /\ [][Next]_vars

(* The interpreter is a sequential function: a call keeps running. *)
FairSpec == Spec /\ WF_vars(Step)

-----------------------------------------------------------------------------
TypeOK ==
  /\ bytecode \in Programs \cup {<<>>}
  /\ {pc, head, at} \subseteq Addresses(bytecode)
  /\ data \in Data /\ Len(data.stack) <= StackMax
  /\ DOMAIN trace_cache = Addresses(bytecode)
  /\ mode \in {"dispatch", "compile", "run"}
  /\ mode = "run" => k \in 1 .. Len(row)

(* A row never grows past its array, and it is closed: control leaves it only  *)
(* through a final instruction, a branch behind its prejump, or a tail.        *)
RowsClosed ==
  \A a \in DOMAIN trace_cache :
    LET r == trace_cache[a]
        n == Len(r)
        beingWritten == mode = "compile" /\ head = a
        ends(i) == r[i].handler \in FinalOps \cup BranchOps \cup {"TAIL"}
    IN  /\ n <= MaxTraceLen
        /\ r # <<>> /\ ~beingWritten => ends(n)
        /\ \A i \in 1 .. n : ends(i) => i = n
        /\ \A i \in 1 .. n : r[i].handler \in BranchOps => i > 1 /\ r[i - 1].handler = "PREJUMP"

(* A compiled program behaves as the interpreted one: every handler called     *)
(* has the effect of the instruction whose turn it is, from the zeroed data of *)
(* a fresh run on, whichever rows were written before.                         *)
(* The address whose instruction is next to take effect. *)
current == CASE mode = "dispatch" -> pc
             [] mode = "compile" -> head
             [] OTHER -> row[k].src

Machine == INSTANCE PigletMachine WITH ip <- Settle(bytecode, current)
ImplementsPigletMachine == Machine!Spec

(* A program whose jumps and branches all go forward stops. *)
Forward(code) ==
  \A i \in 1 .. Len(code) : code[i].op \in BranchOps \cup {"JUMP"} => code[i].arg >= i

ForwardStops == (status = "running" /\ Forward(bytecode)) ~> status # "running"

=============================================================================
