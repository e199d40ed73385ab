------------------------------ MODULE PigletVM ------------------------------
(***************************************************************************)
(* The three interpreters of pigletvm.c that share the structure "vm":      *)
(* vm_interpret, vm_interpret_no_range_check and vm_interpret_threaded.     *)
(* Their handlers are the same; they differ in how they find the handler of *)
(* an opcode.                                                               *)
(***************************************************************************)
EXTENDS PigletISA

CONSTANT Programs

ASSUME ProgramsAssumption == \A code \in Programs : WellFormed(code)

Engines == {"switch", "no_range_check", "threaded"}

VARIABLES
  bytecode,  \* the program of the current or last run
  engine,    \* the interpreter that runs it
  ip,        \* vm.ip - bytecode, at the start of an instruction
  data,      \* vm.stack, vm.memory, vm.result, and the output
  status     \* "off", "running", an interpret_result, or "UNDEFINED"

vars == <<bytecode, engine, ip, data, status>>

Results == {"SUCCESS", "ERROR_DIVISION_BY_ZERO", "ERROR_UNKNOWN_OPCODE", "ERROR_END_OF_STREAM"}

TypeOK ==
  /\ bytecode \in Programs \cup {<<>>}
  /\ engine \in Engines
  /\ ip \in Addresses(bytecode)
  /\ data \in Data
  /\ Len(data.stack) <= StackMax
  /\ status \in Results \cup {"off", "running", "UNDEFINED"}

Init ==
  /\ bytecode = <<>>
  /\ engine = "switch"
  /\ ip = 0
  /\ data = Zeroed
  /\ status = "off"

(* The memset of vm_reset forgotten. *)
Start_KeepsData ==
  /\ status \notin {"running", "UNDEFINED"}
  /\ bytecode' \in Programs
  /\ engine' \in Engines
  /\ ip' = 0
  /\ data' = [data EXCEPT !.stack = <<>>]
  /\ status' = "running"

(* A call of an interpreter: vm_reset. *)
Start ==
  /\ status \notin {"running", "UNDEFINED"}
  /\ bytecode' \in Programs
  /\ engine' \in Engines
  /\ ip' = 0
  /\ data' = Zeroed
  /\ status' = "running"

(* The handler an engine finds for the instruction i.  The first switch has a *)
(* default for the opcodes above OP_PRINT, the second drops the high bits and *)
(* names 26 to 31, the label table of the threaded code just ends.            *)
Handler(e, i) ==
  IF e = "no_range_check"
    THEN i.op
    ELSE IF Known(i) THEN i.op ELSE IF e = "switch" THEN "UNKNOWN" ELSE "OUT_OF_TABLE"

Current == At(bytecode, ip)

Fetched(ops) == status = "running" /\ Handler(engine, Current) \in ops

Operands == Fits(Current, Len(data.stack))

Execute ==
  /\ Fetched(DataOps)
  /\ Operands
  /\ ~DividesByZero(Current, Top(data.stack))
  /\ data' = Effect(Current, data)
  /\ ip' = ip + 1
  /\ UNCHANGED <<bytecode, engine, status>>

DivideByZero ==
  /\ Fetched({"DIV"})
  /\ Operands
  /\ DividesByZero(Current, Top(data.stack))
  /\ data' = Popped(data)
  /\ status' = "ERROR_DIVISION_BY_ZERO"
  /\ UNCHANGED <<bytecode, engine, ip>>

Jump ==
  /\ Fetched({"JUMP"})
  /\ ip' = Current.arg
  /\ UNCHANGED <<bytecode, engine, data, status>>

(* The condition looked at and left on the stack. *)
JumpIf_Peeks ==
  /\ Fetched(BranchOps)
  /\ Operands
  /\ ip' = IF Taken(Current, Top(data.stack)) THEN Current.arg ELSE ip + 1
  /\ UNCHANGED <<bytecode, engine, data, status>>

JumpIf ==
  /\ Fetched(BranchOps)
  /\ Operands
  /\ data' = Popped(data)
  /\ ip' = IF Taken(Current, Top(data.stack)) THEN Current.arg ELSE ip + 1
  /\ UNCHANGED <<bytecode, engine, status>>

Stop ==
  /\ Fetched(FinalOps \cup {"UNKNOWN"})
  /\ status' = CASE Handler(engine, Current) = "DONE"  -> "SUCCESS"
                 [] Handler(engine, Current) = "ABORT" -> "ERROR_END_OF_STREAM"
                 [] OTHER                              -> "ERROR_UNKNOWN_OPCODE"
  /\ UNCHANGED <<bytecode, engine, ip, data>>

(* Past the label table, below the stack or above it: C promises nothing. *)
Undefined ==
  /\ \/ Fetched({"OUT_OF_TABLE"})
     \/ Fetched(DataOps \cup BranchOps) /\ ~Operands
  /\ status' = "UNDEFINED"
  /\ UNCHANGED <<bytecode, engine, ip, data>>

Run == Execute \/ DivideByZero \/ Jump \/ JumpIf \/ Stop \/ Undefined

Next == Start \/ Run

Spec == Init /\ [][Next]_vars

-----------------------------------------------------------------------------
(* A program that keeps to the stack on every path of its control flow runs   *)
(* without an access outside the stack array and without a jump through a     *)
(* missing label, whatever values decide its branches.                        *)
StackSafe == status = "UNDEFINED" => ~Disciplined(bytecode)

(* A run is the one the instructions promise, whichever of the three           *)
(* interpreters runs it and whatever was run before: zeroed data at the start, *)
(* then the effect of one instruction at a time.                               *)
Machine == INSTANCE PigletMachine WITH ip <- Settle(bytecode, ip)
ImplementsPigletMachine == Machine!Spec

=============================================================================
