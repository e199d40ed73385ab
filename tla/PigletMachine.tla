---------------------------- MODULE PigletMachine ----------------------------
(***************************************************************************)
(* What an interpreter of PigletVM promises for a program of known opcodes: *)
(* the instructions other than JUMP take effect one after the other, on     *)
(* zeroed data, and the run ends with the interpret_result of the           *)
(* instruction that ends it.  Unconditional jumps take no step here, so an  *)
(* engine may follow them when it likes.                                    *)
(***************************************************************************)
EXTENDS PigletISA

CONSTANT Programs

VARIABLES
  bytecode,  \* the program
  ip,        \* the next instruction that is not a JUMP
  data,      \* as in PigletISA
  status     \* as in PigletVM

vars == <<bytecode, ip, data, status>>

Init ==
  /\ bytecode = <<>>
  /\ ip = 0
  /\ data = Zeroed
  /\ status = "off"

Start ==
  /\ status \notin {"running", "UNDEFINED"}
  /\ bytecode' \in Programs
  /\ ip' = Settle(bytecode', 0)
  /\ data' = Zeroed
  /\ status' = "running"

Current == At(bytecode, ip)

Operands == Fits(Current, Len(data.stack))

Running(ops) ==
  /\ status = "running"
  /\ ip \in Addresses(bytecode)
  /\ Current.op \in ops

Execute ==
  /\ Running(DataOps)
  /\ Operands
  /\ ~DividesByZero(Current, Top(data.stack))
  /\ data' = Effect(Current, data)
  /\ ip' = Settle(bytecode, ip + 1)
  /\ UNCHANGED <<bytecode, status>>

DivideByZero ==
  /\ Running({"DIV"})
  /\ Operands
  /\ DividesByZero(Current, Top(data.stack))
  /\ data' = Popped(data)
  /\ status' = "ERROR_DIVISION_BY_ZERO"
  /\ UNCHANGED <<bytecode, ip>>

Branch ==
  /\ Running(BranchOps)
  /\ Operands
  /\ data' = Popped(data)
  /\ ip' = Settle(bytecode, IF Taken(Current, Top(data.stack)) THEN Current.arg ELSE ip + 1)
  /\ UNCHANGED <<bytecode, status>>

Stop ==
  /\ Running(FinalOps)
  /\ status' = IF Current.op = "DONE" THEN "SUCCESS" ELSE "ERROR_END_OF_STREAM"
  /\ UNCHANGED <<bytecode, ip, data>>

(* Nothing is promised for operands that are not there. *)
Undefined ==
  /\ Running(DataOps \cup BranchOps)
  /\ ~Operands
  /\ status' = "UNDEFINED"
  /\ UNCHANGED <<bytecode, ip, data>>

(* Nor is anything for a program with an opcode the assembler never emits. *)
UnknownOpcode ==
  /\ status = "running"
  /\ \E i \in 1 .. Len(bytecode) : ~Known(bytecode[i])
  /\ UNCHANGED bytecode

Next == Start \/ Execute \/ DivideByZero \/ Branch \/ Stop \/ Undefined \/ UnknownOpcode

Spec == Init /\ [][Next]_vars

=============================================================================
