---------------------------- MODULE PigletRcache ----------------------------
(***************************************************************************)
(* The three interpreters of pigletvm-rcache.c that keep the top of the     *)
(* stack in the register "acc": a PUSH first spills acc to the array, so    *)
(* the cell at the bottom holds no value of the program, and a POP refills  *)
(* acc from the array.                                                      *)
(***************************************************************************)
EXTENDS PigletISA

CONSTANT Programs

ASSUME RcacheAssumption == \A code \in Programs : WellFormed(code)

VARIABLES
  bytecode, engine, ip, status,  \* as in PigletVM
  data,                          \* data.stack is the array below stack_top
  acc

vars == <<bytecode, engine, ip, data, acc, status>>

(* What the interpreters of pigletvm.c keep in their stack. *)
stackSeen == IF data.stack = <<>> THEN <<>> ELSE Append(Tail(data.stack), acc)

VM == INSTANCE PigletVM WITH data <- [data EXCEPT !.stack = stackSeen]

Init ==
  /\ bytecode = <<>>
  /\ engine = "switch"
  /\ ip = 0
  /\ data = Zeroed
  /\ acc = 0
  /\ status = "off"

(* vm_rcache_reset. *)
Start ==
  /\ status \notin {"running", "UNDEFINED"}
  /\ bytecode' \in Programs
  /\ engine' \in VM!Engines
  /\ ip' = 0
  /\ data' = Zeroed
  /\ acc' = 0
  /\ status' = "running"

Current == At(bytecode, ip)

Fetched(ops) == status = "running" /\ VM!Handler(engine, Current) \in ops

array == data.stack

(* How far below stack_top an instruction reads: one operand is in acc, and POP() *)
(* refills acc from the array, which TOP() does not.                             *)
Pops(i) ==
  CASE i.op \in TopOps \cup {"DUP"} -> 0
    [] i.op \in BinaryOps           -> 1
    [] OTHER                        -> Needs(i)

(* A PUSH counted without the cell it spills to. *)
Room_Unchecked(i) == Pops(i) <= Len(array)

Room(i) == Pops(i) <= Len(array) /\ (i.op \in PushOps => Len(array) < StackMax)

(* LOAD indexes memory with all of acc. *)
OutOfMemory(i) == i.op = "LOAD" /\ acc \notin Address

(* The instructions of DataOps, on <<array, acc>>. *)
PushOp(i) ==
  /\ i.op \in PushOps
  /\ data' = [data EXCEPT !.stack = Append(@, acc)]
  /\ acc' = Pushed(i, data.memory, acc)

TopOp(i) ==
  /\ i.op \in TopOps
  /\ acc' = Replaced(i, data.memory, acc)
  /\ UNCHANGED data

BinaryOp(i) ==
  /\ i.op \in BinaryOps
  /\ acc' = Binary(i.op, Top(array), acc)
  /\ data' = Popped(data)

PopOp(i) ==
  /\ i.op \in PopOps
  /\ data' = Popped(Stored(i, data, acc, 0))
  /\ acc' = Top(array)

StoreOp(i) ==
  /\ i.op = "STORE"
  /\ data' = Popped(Popped(Stored(i, data, acc, Top(array))))
  /\ acc' = Below(array)

Execute ==
  /\ Fetched(DataOps)
  /\ Room(Current)
  /\ ~DividesByZero(Current, acc)
  /\ ~OutOfMemory(Current)
  /\ PushOp(Current) \/ TopOp(Current) \/ BinaryOp(Current) \/ PopOp(Current) \/ StoreOp(Current)
  /\ ip' = ip + 1
  /\ UNCHANGED <<bytecode, engine, status>>

DivideByZero ==
  /\ Fetched({"DIV"})
  /\ Room(Current)
  /\ DividesByZero(Current, acc)
  /\ data' = Popped(data)
  /\ acc' = Top(array)
  /\ status' = "ERROR_DIVISION_BY_ZERO"
  /\ UNCHANGED <<bytecode, engine, ip>>

Jump ==
  /\ Fetched({"JUMP"})
  /\ ip' = Current.arg
  /\ UNCHANGED <<bytecode, engine, data, acc, status>>

(* acc looked at after it was refilled. *)
JumpIf_Refilled ==
  /\ Fetched(BranchOps)
  /\ Room(Current)
  /\ data' = Popped(data)
  /\ acc' = Top(array)
  /\ ip' = IF Taken(Current, acc') THEN Current.arg ELSE ip + 1
  /\ UNCHANGED <<bytecode, engine, status>>

JumpIf ==
  /\ Fetched(BranchOps)
  /\ Room(Current)
  /\ data' = Popped(data)
  /\ acc' = Top(array)
  /\ ip' = IF Taken(Current, acc) THEN Current.arg ELSE ip + 1
  /\ UNCHANGED <<bytecode, engine, status>>

(* STORE_REGS and return. *)
Stop ==
  /\ Fetched(FinalOps \cup {"UNKNOWN"})
  /\ status' = CASE VM!Handler(engine, Current) = "DONE"  -> "SUCCESS"
                 [] VM!Handler(engine, Current) = "ABORT" -> "ERROR_END_OF_STREAM"
                 [] OTHER                                 -> "ERROR_UNKNOWN_OPCODE"
  /\ UNCHANGED <<bytecode, engine, ip, data, acc>>

Undefined ==
  /\ \/ Fetched({"OUT_OF_TABLE"})
     \/ Fetched(DataOps \cup BranchOps) /\ (~Room(Current) \/ OutOfMemory(Current))
  /\ status' = "UNDEFINED"
  /\ UNCHANGED <<bytecode, engine, ip, data, acc>>

Run == Execute \/ DivideByZero \/ Jump \/ JumpIf \/ Stop \/ Undefined

Next == Start \/ Run

Spec == Init /\ [][Next]_vars

-----------------------------------------------------------------------------
TypeOK ==
  /\ VM!TypeOK
  /\ acc \in Word
  /\ data \in Data

(* A program that keeps to the stack runs on these interpreters as on those of *)
(* pigletvm.c, step by step, up to a LOAD from an address above MEMORY_SIZE,   *)
(* which those truncate and these do not.                                      *)
WildLoad == status = "running" /\ OutOfMemory(Current) /\ status' = "UNDEFINED"

ImplementsPigletVM ==
  VM!Init /\ [][VM!Next \/ WildLoad \/ ~Disciplined(bytecode)]_(VM!vars)

(* Without the exception: a program that keeps to the stack never leaves what  *)
(* C defines.                                                                  *)
LoadsAgree == status = "UNDEFINED" => ~Disciplined(bytecode)

=============================================================================
