--------------------------- MODULE PigletVMProofs ---------------------------
(***************************************************************************)
(* What the interpreters of pigletvm.c promise for every program, word      *)
(* size, memory size and stack size.                                        *)
(***************************************************************************)
EXTENDS PigletVM, PigletISAProofs

-----------------------------------------------------------------------------
(* Every instruction fetched is one of the program's or the ABORT behind it. *)

(* What is fetched from the program that runs is an instruction. *)
LEMMA CodeInside ==
  ASSUME TypeOK
  PROVE  /\ WellFormed(bytecode) /\ bytecode \in Seq(Instruction)
         /\ Current \in Instruction
<1>1. WellFormed(<<>>)
  BY DEF WellFormed
<1>2. WellFormed(bytecode)
  BY <1>1, ProgramsAssumption DEF TypeOK
<1> QED
  BY <1>2, AtInside DEF TypeOK, WellFormed, Current

(* The engines execute what the instruction says, or nothing. *)
LEMMA HandlerIsOp ==
  ASSUME NEW e \in Engines, NEW i \in Instruction
  PROVE  Handler(e, i) \in {i.op, "UNKNOWN", "OUT_OF_TABLE"}
  BY DEF Handler

(* A handler that was entered is that of the instruction fetched. *)
LEMMA FetchedOp ==
  ASSUME TypeOK, NEW ops, Fetched(ops), "UNKNOWN" \notin ops, "OUT_OF_TABLE" \notin ops
  PROVE  Current.op \in ops /\ status = "running"
  BY CodeInside, HandlerIsOp DEF Fetched, TypeOK

-----------------------------------------------------------------------------
(* The static structure before the first run. *)
LEMMA TypeInit == Init => TypeOK
  BY ZeroedInData, ISAAssumption DEF Init, TypeOK, Addresses, Engines

(* A call finds the structure in order, whatever the last one left. *)
LEMMA TypeStart == Start => TypeOK'
<1> SUFFICES ASSUME Start PROVE TypeOK'
  OBVIOUS
<1>1. bytecode' \in Programs /\ 0 \in Addresses(bytecode')
  BY ProgramsAssumption DEF Start, WellFormed, Addresses
<1> QED
  BY <1>1, ZeroedInData, ISAAssumption DEF Start, TypeOK

(* Each action keeps the stack inside its array and ip inside the code. *)
LEMMA TypeStep == TypeOK /\ [Next]_vars => TypeOK'
<1> SUFFICES ASSUME TypeOK, [Next]_vars PROVE TypeOK'
  OBVIOUS
<1>1. /\ WellFormed(bytecode) /\ bytecode \in Seq(Instruction)
      /\ Current \in Instruction
      /\ ip \in Addresses(bytecode) /\ data \in Data /\ Len(data.stack) <= StackMax
      /\ Current.op # "ABORT" => ip + 1 \in Addresses(bytecode)
  BY CodeInside, AtInside DEF TypeOK, Current
<1>2. Len(data.stack) \in Nat
  BY <1>1 DEF Data
<1>3. CASE Start
  BY <1>3, TypeStart
<1>4. CASE Execute
  <2>1. Current.op \in DataOps
    BY <1>4, FetchedOp DEF Execute, DataOps, PushOps, TopOps, BinaryOps, PopOps
  <2>2. Current.op # "ABORT"
    BY <2>1 DEF DataOps, PushOps, TopOps, BinaryOps, PopOps
  <2>3. Fits(Current, Len(data.stack)) /\ data' = Effect(Current, data)
    BY <1>4 DEF Execute, Operands
  <2>4. data' \in Data /\ Len(data'.stack) = DepthAfter(Current, Len(data.stack))
    BY <2>1, <2>3, <1>1, EffectInData
  <2>5. Len(data'.stack) <= StackMax
    BY <2>3, <2>4 DEF Fits
  <2> QED
    BY <2>2, <2>4, <2>5, <1>1, <1>4 DEF Execute, TypeOK
<1>5. CASE DivideByZero \/ JumpIf
  <2>1. Current.op \in {"DIV"} \cup BranchOps
    BY <1>5, FetchedOp DEF DivideByZero, JumpIf, BranchOps
  <2>2. Fits(Current, Len(data.stack)) /\ data' = Popped(data)
    BY <1>5 DEF DivideByZero, JumpIf, Operands
  <2>3. Len(data.stack) >= 1
    BY <2>1, <2>2, <1>2 DEF Fits, Needs, BinaryOps, TopOps, PopOps, BranchOps
  <2>4. data' \in Data /\ Len(data'.stack) <= StackMax
    BY <2>2, <2>3, <1>1, <1>2, PoppedInData, ISAAssumption
  <2>5. CASE DivideByZero
    BY <2>4, <2>5 DEF DivideByZero, TypeOK, Results
  <2>6. CASE JumpIf
    <3>1. Current.op \in BranchOps
      BY <2>6, FetchedOp DEF JumpIf, BranchOps
    <3>2. Current.arg \in Addresses(bytecode) /\ ip + 1 \in Addresses(bytecode)
      BY <3>1, <1>1, TargetInside DEF Current, BranchOps
    <3> QED
      BY <2>4, <2>6, <3>2 DEF JumpIf, TypeOK
  <2> QED
    BY <1>5, <2>5, <2>6
<1>6. CASE Jump
  <2>1. Current.op = "JUMP"
    BY <1>6, FetchedOp DEF Jump
  <2>2. Current.arg \in Addresses(bytecode)
    BY <2>1, <1>1, TargetInside DEF Current
  <2> QED
    BY <2>2, <1>6 DEF Jump, TypeOK
<1>7. CASE Stop
  BY <1>7 DEF Stop, TypeOK, Results
<1>8. CASE Undefined
  BY <1>8 DEF Undefined, TypeOK
<1>9. CASE UNCHANGED vars
  BY <1>9 DEF vars, TypeOK
<1> QED
  BY <1>3, <1>4, <1>5, <1>6, <1>7, <1>8, <1>9 DEF Next, Run

(***************************************************************************)
(* The stack never grows past its array, the instruction pointer never      *)
(* leaves the program, memory and registers hold words, whatever program    *)
(* well-formed code makes, until C stops promising anything.                *)
(***************************************************************************)
THEOREM TypeCorrect == Spec => []TypeOK
<1> QED
  BY TypeInit, TypeStep, PTL DEF Spec

-----------------------------------------------------------------------------
(* The invariant behind StackSafe: while a program that keeps to the stack    *)
(* runs, the depth of the stack is one that its control flow gives.           *)
DepthInv ==
  Disciplined(bytecode) =>
    /\ status # "UNDEFINED"
    /\ status = "running" => <<ip, Len(data.stack)>> \in Reached(bytecode)

(* What Disciplined says of the instruction that is fetched. *)
LEMMA DisciplinedHere ==
  ASSUME DepthInv, Disciplined(bytecode), status = "running"
  PROVE  /\ Known(Current)
         /\ Fits(Current, Len(data.stack))
         /\ \A a \in NextAddresses(Current, ip) :
              <<a, DepthAfter(Current, Len(data.stack))>> \in Reached(bytecode)
<1> DEFINE p == <<ip, Len(data.stack)>>
<1>1. p \in Reached(bytecode)
  BY DEF DepthInv
<1>2. /\ Known(At(bytecode, p[1])) /\ Fits(At(bytecode, p[1]), p[2])
      /\ Flow(bytecode, p) \subseteq Reached(bytecode)
  BY <1>1 DEF Disciplined
<1>3. p[1] = ip /\ p[2] = Len(data.stack)
  OBVIOUS
<1>4. Flow(bytecode, p) =
        {<<a, DepthAfter(Current, Len(data.stack))>> : a \in NextAddresses(Current, ip)}
  BY <1>2, <1>3 DEF Flow, Current
<1> QED
  BY <1>2, <1>3, <1>4 DEF Current

(* Nothing runs at first. *)
LEMMA DepthInit == Init => DepthInv
  BY DEF Init, DepthInv

(* Each step takes the stack to a depth that control flow gives. *)
LEMMA DepthStep == TypeOK /\ DepthInv /\ [Next]_vars => DepthInv'
<1> SUFFICES ASSUME TypeOK, DepthInv, [Next]_vars, Disciplined(bytecode')
             PROVE  /\ status' # "UNDEFINED"
                    /\ status' = "running" => <<ip', Len(data'.stack)>> \in Reached(bytecode')
  BY DEF DepthInv
<1>1. Current \in Instruction /\ data \in Data
  BY CodeInside DEF TypeOK
<1>2. CASE Start
  <2>1. Len(data'.stack) = 0 /\ ip' = 0
    BY <1>2, ZeroedInData DEF Start
  <2>2. <<0, 0>> \in Reached(bytecode')
    BY DEF Disciplined
  <2> QED
    BY <2>1, <2>2, <1>2 DEF Start
<1>3. CASE Execute
  <2>1. Current.op \in DataOps /\ status = "running"
    BY <1>3, FetchedOp DEF Execute, DataOps, PushOps, TopOps, BinaryOps, PopOps
  <2>2. ip + 1 \in NextAddresses(Current, ip)
    BY <2>1 DEF NextAddresses, DataOps, PushOps, TopOps, BinaryOps, PopOps, FinalOps, BranchOps
  <2>3. bytecode' = bytecode /\ ip' = ip + 1 /\ status' = status
    BY <1>3 DEF Execute
  <2>4. Len(data'.stack) = DepthAfter(Current, Len(data.stack))
    BY <2>1, <1>1, <1>3, EffectInData DEF Execute, Operands
  <2>5. <<ip + 1, DepthAfter(Current, Len(data.stack))>> \in Reached(bytecode)
    BY <2>1, <2>2, <2>3, DisciplinedHere
  <2> QED
    BY <2>1, <2>3, <2>4, <2>5
<1>4. CASE DivideByZero
  BY <1>4 DEF DivideByZero
<1>5. CASE Jump
  <2>1. Current.op = "JUMP" /\ status = "running"
    BY <1>5, FetchedOp DEF Jump
  <2>2. NextAddresses(Current, ip) = {Current.arg} /\ DepthAfter(Current, Len(data.stack)) = Len(data.stack)
    BY <2>1 DEF NextAddresses, DepthAfter, FinalOps, BranchOps, PushOps, BinaryOps, PopOps
  <2>3. bytecode' = bytecode /\ ip' = Current.arg /\ status' = status /\ data' = data
    BY <1>5 DEF Jump
  <2> QED
    BY <2>1, <2>2, <2>3, DisciplinedHere
<1>6. CASE JumpIf
  <2>1. Current.op \in BranchOps /\ status = "running"
    BY <1>6, FetchedOp DEF JumpIf, BranchOps
  <2>2. NextAddresses(Current, ip) = {ip + 1, Current.arg}
    BY <2>1 DEF NextAddresses, FinalOps, BranchOps
  <2>3. /\ Needs(Current) = 1
        /\ DepthAfter(Current, Len(data.stack)) = Len(data.stack) - 1
    BY <2>1 DEF Needs, DepthAfter, BranchOps, PushOps, TopOps, BinaryOps, PopOps
  <2>4. Len(data.stack) >= 1
    BY <1>6, <2>3 DEF JumpIf, Operands, Fits
  <2>5. Len(data'.stack) = DepthAfter(Current, Len(data.stack))
    BY <2>3, <2>4, <1>1, <1>6, PoppedInData DEF JumpIf
  <2>6. bytecode' = bytecode /\ ip' \in {ip + 1, Current.arg} /\ status' = status
    BY <1>6 DEF JumpIf
  <2> QED
    BY <2>1, <2>2, <2>5, <2>6, DisciplinedHere
<1>7. CASE Stop
  BY <1>7 DEF Stop
<1>8. CASE Undefined
  <2>1. status = "running" /\ bytecode' = bytecode
    BY <1>8 DEF Undefined, Fetched
  <2>2. Known(Current) /\ Operands
    BY <2>1, DisciplinedHere DEF Operands
  <2>3. Handler(engine, Current) = Current.op
    BY <2>2 DEF Handler
  <2>4. Current.op # "OUT_OF_TABLE"
    BY <1>1 DEF Instruction, Ops, DataOps, PushOps, TopOps, BinaryOps, PopOps, BranchOps, FinalOps
  <2> QED
    BY <1>8, <2>2, <2>3, <2>4 DEF Undefined, Fetched
<1>9. CASE UNCHANGED vars
  BY <1>9 DEF vars, DepthInv
<1> QED
  BY <1>2, <1>3, <1>4, <1>5, <1>6, <1>7, <1>8, <1>9 DEF Next, Run

(***************************************************************************)
(* None of the three interpreters reads or writes outside its stack array   *)
(* or jumps through a missing label, for a program whose control flow keeps *)
(* to the stack.                                                            *)
(***************************************************************************)
THEOREM StackDiscipline == Spec => []StackSafe
<1>1. DepthInv => StackSafe
  BY DEF DepthInv, StackSafe
<1> QED
  BY <1>1, TypeInit, TypeStep, DepthInit, DepthStep, PTL DEF Spec

-----------------------------------------------------------------------------
(* The interpreters implement the machine of PigletMachine. *)

(* The instance of the machine reads the same instruction set. *)
LEMMA SameCode ==
  /\ Machine!DataOps = DataOps /\ Machine!BranchOps = BranchOps /\ Machine!FinalOps = FinalOps
  /\ Machine!Zeroed = Zeroed
  /\ \A code : Machine!Addresses(code) = Addresses(code)
  /\ \A code, a : Machine!At(code, a) = At(code, a)
  /\ \A i : Machine!Known(i) = Known(i)
<1>1. /\ Machine!DataOps = DataOps /\ Machine!BranchOps = BranchOps /\ Machine!FinalOps = FinalOps
      /\ Machine!Zeroed = Zeroed
  BY DEF Machine!DataOps, DataOps, Machine!PushOps, PushOps, Machine!TopOps, TopOps,
         Machine!BinaryOps, BinaryOps, Machine!PopOps, PopOps, Machine!BranchOps, BranchOps,
         Machine!FinalOps, FinalOps, Machine!Zeroed, Zeroed, Machine!Address, Address
<1>2. \A code : Machine!Addresses(code) = Addresses(code)
  BY DEF Machine!Addresses, Addresses
<1>3. \A code, a : Machine!At(code, a) = At(code, a)
  BY DEF Machine!At, At, Machine!Op, Op
<1>4. \A i : Machine!Known(i) = Known(i)
  BY DEF Machine!Known, Known
<1> QED
  BY <1>1, <1>2, <1>3, <1>4

(* It follows the same jumps. *)
LEMMA SameSettle ==
  ASSUME NEW code, NEW a
  PROVE  Machine!Settle(code, a) = Settle(code, a)
<1>1. Machine!Jumps(code) = Jumps(code)
  BY SameCode DEF Machine!Jumps, Jumps
<1>2. \A from, S : Machine!Closed(code, from, S) = Closed(code, from, S)
  BY <1>1, SameCode DEF Machine!Closed, Closed
<1>3. \A from : Machine!JumpsFrom(code, from) = JumpsFrom(code, from)
  BY <1>1, <1>2 DEF Machine!JumpsFrom, JumpsFrom
<1> QED
  BY <1>1, <1>3, SameCode DEF Machine!Settle, Settle

(* Its instructions have the same operands and the same effect. *)
LEMMA SameEffect ==
  ASSUME NEW i, NEW d, NEW n, NEW top
  PROVE  /\ Machine!Effect(i, d) = Effect(i, d)
         /\ Machine!Popped(d) = Popped(d)
         /\ Machine!Fits(i, n) = Fits(i, n)
         /\ Machine!DividesByZero(i, top) = DividesByZero(i, top)
         /\ Machine!Taken(i, top) = Taken(i, top)
         /\ Machine!Top(d.stack) = Top(d.stack)
<1>1. Machine!Fits(i, n) = Fits(i, n)
  BY DEF Machine!Fits, Fits, Machine!Needs, Needs, Machine!DepthAfter, DepthAfter,
         Machine!PushOps, PushOps, Machine!TopOps, TopOps, Machine!BinaryOps, BinaryOps,
         Machine!PopOps, PopOps, Machine!BranchOps, BranchOps
<1>2. /\ Machine!Popped(d) = Popped(d)
      /\ Machine!DividesByZero(i, top) = DividesByZero(i, top)
      /\ Machine!Taken(i, top) = Taken(i, top)
      /\ Machine!Top(d.stack) = Top(d.stack)
  BY DEF Machine!Popped, Popped, Machine!Drop, Drop, Machine!DividesByZero, DividesByZero,
         Machine!Taken, Taken, Machine!Top, Top
<1>3. Machine!Effect(i, d) = Effect(i, d)
  BY DEF Machine!Effect, Effect, Machine!Stored, Stored, Machine!StackAfter, StackAfter,
         Machine!Pushed, Pushed, Machine!Replaced, Replaced, Machine!Binary, Binary,
         Machine!Bool, Bool, Machine!Top, Top, Machine!Below, Below, Machine!Drop, Drop,
         Machine!PushOps, PushOps, Machine!TopOps, TopOps, Machine!BinaryOps, BinaryOps
<1> QED
  BY <1>1, <1>2, <1>3

(* At an instruction other than a JUMP the machine is where the interpreter is. *)
LEMMA MachineHere ==
  ASSUME Current.op # "JUMP"
  PROVE  Settle(bytecode, ip) = ip /\ Machine!Current = Current
<1>1. Settle(bytecode, ip) = ip
  BY SettleHere DEF Current
<1> QED
  BY <1>1, SameCode DEF Machine!Current, Current

(* The machine executes what an interpreter has fetched. *)
LEMMA MachineRunning ==
  ASSUME TypeOK, NEW ops, Fetched(ops), "UNKNOWN" \notin ops, "OUT_OF_TABLE" \notin ops,
         "JUMP" \notin ops
  PROVE  /\ Machine!Running(ops)
         /\ Settle(bytecode, ip) = ip /\ Machine!Current = Current
         /\ Machine!Operands <=> Operands
<1>1. Current.op \in ops /\ status = "running" /\ Current.op # "JUMP"
  BY FetchedOp
<1>2. Settle(bytecode, ip) = ip /\ Machine!Current = Current
  BY <1>1, MachineHere
<1>3. Machine!Operands <=> Operands
  BY <1>2, SameEffect DEF Machine!Operands, Operands
<1> QED
  BY <1>1, <1>2, <1>3, SameCode DEF Machine!Running, TypeOK

(* Only an instruction of the program can be unknown. *)
LEMMA UnknownInside ==
  ASSUME TypeOK, ~Known(Current)
  PROVE  \E i \in 1 .. Len(bytecode) : ~Machine!Known(bytecode[i])
<1>1. Known(Op("ABORT"))
  BY DEF Known, Op
<1>2. ip < Len(bytecode) /\ Current = bytecode[ip + 1]
  BY <1>1 DEF Current, At
<1>3. ip + 1 \in 1 .. Len(bytecode)
  BY <1>2, CodeInside DEF TypeOK, Addresses
<1> QED
  BY <1>2, <1>3, SameCode

(* Before the first run both are at the ABORT of an empty program. *)
LEMMA ImplementsInit == Init => Machine!Init
<1> SUFFICES ASSUME Init PROVE Machine!Init
  OBVIOUS
<1>1. At(<<>>, 0).op = "ABORT"
  BY DEF At, Op
<1> QED
  BY <1>1, SettleHere, SameCode DEF Init, Machine!Init

(* Each step is a step of the machine; a JUMP moves only the interpreter. *)
LEMMA ImplementsStep == TypeOK /\ [Next]_vars => [Machine!Next]_(Machine!vars)
<1> SUFFICES ASSUME TypeOK, [Next]_vars PROVE [Machine!Next]_(Machine!vars)
  OBVIOUS
<1>1. CASE Start
  BY <1>1, SameCode, SameSettle DEF Start, Machine!Start, Machine!Next
<1>2. CASE Execute
  <2>1. /\ Machine!Running(DataOps) /\ Settle(bytecode, ip) = ip
        /\ Machine!Current = Current /\ Machine!Operands
    BY <1>2, MachineRunning DEF Execute, DataOps, PushOps, TopOps, BinaryOps, PopOps
  <2>2. /\ ~DividesByZero(Current, Top(data.stack)) /\ data' = Effect(Current, data)
        /\ ip' = ip + 1 /\ bytecode' = bytecode /\ status' = status
    BY <1>2 DEF Execute
  <2>3. Machine!Execute
    BY <2>1, <2>2, SameCode, SameSettle, SameEffect DEF Machine!Execute
  <2> QED
    BY <2>3 DEF Machine!Next
<1>3. CASE DivideByZero
  <2>1. /\ Machine!Running({"DIV"}) /\ Machine!Current = Current /\ Machine!Operands
    BY <1>3, MachineRunning DEF DivideByZero
  <2>2. Machine!DivideByZero
    BY <1>3, <2>1, SameEffect DEF DivideByZero, Machine!DivideByZero
  <2> QED
    BY <2>2 DEF Machine!Next
<1>4. CASE Jump
  <2>1. Current.op = "JUMP"
    BY <1>4, FetchedOp DEF Jump
  <2>2. Settle(bytecode, ip) = Settle(bytecode, Current.arg)
    BY <2>1, CodeInside, SettleJump DEF TypeOK, Current
  <2> QED
    BY <1>4, <2>2 DEF Jump, Machine!vars
<1>5. CASE JumpIf
  <2>1. /\ Machine!Running(BranchOps) /\ Settle(bytecode, ip) = ip
        /\ Machine!Current = Current /\ Machine!Operands
    BY <1>5, MachineRunning DEF JumpIf, BranchOps
  <2>2. Machine!Branch
    BY <1>5, <2>1, SameCode, SameSettle, SameEffect DEF JumpIf, Machine!Branch
  <2> QED
    BY <2>2 DEF Machine!Next
<1>6. CASE Stop
  <2>1. CASE Fetched(FinalOps)
    <3>1. Machine!Running(FinalOps) /\ Machine!Current = Current
      BY <2>1, MachineRunning DEF FinalOps
    <3>2. Handler(engine, Current) \in FinalOps /\ Handler(engine, Current) = Current.op
      BY <2>1, CodeInside, HandlerIsOp DEF Fetched, FinalOps, TypeOK
    <3>3. Machine!Stop
      BY <1>6, <3>1, <3>2, SameCode DEF Stop, Machine!Stop, FinalOps
    <3> QED
      BY <3>3 DEF Machine!Next
  <2>2. CASE ~Fetched(FinalOps)
    <3>1. Handler(engine, Current) = "UNKNOWN" /\ status = "running"
      BY <1>6, <2>2 DEF Stop, Fetched
    <3>2. ~Known(Current)
      <4>1. Known(Current) => Handler(engine, Current) = Current.op
        BY DEF Handler
      <4>2. Current.op = "UNKNOWN" => ~Known(Current)
        BY DEF Known
      <4> QED
        BY <3>1, <4>1, <4>2
    <3>3. Machine!UnknownOpcode
      BY <1>6, <3>1, <3>2, UnknownInside DEF Stop, Machine!UnknownOpcode
    <3> QED
      BY <3>3 DEF Machine!Next
  <2> QED
    BY <2>1, <2>2
<1>7. CASE Undefined
  <2>1. CASE Fetched({"OUT_OF_TABLE"})
    <3>1. Handler(engine, Current) = "OUT_OF_TABLE" /\ status = "running"
      BY <2>1 DEF Fetched
    <3>2. ~Known(Current)
      <4>1. Known(Current) => Handler(engine, Current) = Current.op
        BY DEF Handler
      <4>2. Current.op # "OUT_OF_TABLE"
        BY CodeInside
           DEF Instruction, Ops, DataOps, PushOps, TopOps, BinaryOps, PopOps, BranchOps, FinalOps
      <4> QED
        BY <3>1, <4>1, <4>2
    <3>3. Machine!UnknownOpcode
      BY <1>7, <3>1, <3>2, UnknownInside DEF Undefined, Machine!UnknownOpcode
    <3> QED
      BY <3>3 DEF Machine!Next
  <2>2. CASE Fetched(DataOps \cup BranchOps) /\ ~Operands
    <3>1. Machine!Running(DataOps \cup BranchOps) /\ ~Machine!Operands
      BY <2>2, MachineRunning DEF DataOps, PushOps, TopOps, BinaryOps, PopOps, BranchOps
    <3>2. Machine!Undefined
      BY <1>7, <3>1, SameCode DEF Undefined, Machine!Undefined
    <3> QED
      BY <3>2 DEF Machine!Next
  <2> QED
    BY <1>7, <2>1, <2>2 DEF Undefined
<1>8. CASE UNCHANGED vars
  BY <1>8 DEF vars, Machine!vars
<1> QED
  BY <1>1, <1>2, <1>3, <1>4, <1>5, <1>6, <1>7, <1>8 DEF Next, Run

(***************************************************************************)
(* Each of the three interpreters executes the instructions of a program as *)
(* they are promised: from zeroed data on, one effect at a time, to the     *)
(* interpret_result of the instruction that ends the run.                   *)
(***************************************************************************)
THEOREM Implementation == Spec => ImplementsPigletMachine
<1> QED
  BY TypeInit, TypeStep, ImplementsInit, ImplementsStep, PTL
     DEF Spec, ImplementsPigletMachine, Machine!Spec

-----------------------------------------------------------------------------
(* A run of known instructions goes the one way the program can go.           *)
here == Moment(Settle(bytecode, ip), data, status)

(* A step of an interpreter changes nothing, or is the next step on the way. *)
LEMMA Follows ==
  ASSUME TypeOK, AllKnown(bytecode), Run
  PROVE  bytecode' = bytecode /\ status = "running" /\ here' \in {here, After(bytecode, here)}
<1> DEFINE i == At(bytecode, here.ip)
<1>1. bytecode' = bytecode /\ status = "running"
  BY DEF Run, Execute, DivideByZero, Jump, JumpIf, Stop, Undefined, Fetched
<1> SUFFICES here' \in {here, After(bytecode, here)}
  BY <1>1
<1>2. Machine!Next \/ UNCHANGED Machine!vars
  BY ImplementsStep DEF Next
<1>3. /\ here.ip = Settle(bytecode, ip) /\ here.data = data /\ here.status = status
      /\ here' = Moment(Settle(bytecode, ip)', data', status')
      /\ Machine!Current = i /\ Top(data.stack) = Machine!Top(data.stack)
      /\ Machine!Operands <=> Fits(i, Len(data.stack))
  BY SameCode, SameEffect DEF here, Moment, Machine!Current, Machine!Operands
<1>4. ~Machine!UnknownOpcode /\ ~Machine!Start
  BY <1>1, SameCode DEF AllKnown, Machine!UnknownOpcode, Machine!Start
<1>5. CASE UNCHANGED Machine!vars
  BY <1>5 DEF Machine!vars, here
<1> HIDE DEF i
<1>6. CASE Machine!Execute
  <2>1. /\ i.op \in DataOps /\ Fits(i, Len(data.stack)) /\ ~DividesByZero(i, Top(data.stack))
        /\ here' = Moment(Settle(bytecode, here.ip + 1), Effect(i, data), "running")
    BY <1>1, <1>3, <1>6, SameCode, SameEffect, SameSettle DEF Machine!Execute, Machine!Running
  <2> QED
    BY <2>1, <1>3, AfterCases DEF i
<1>7. CASE Machine!DivideByZero
  <2>1. /\ i.op = "DIV" /\ Fits(i, Len(data.stack)) /\ DividesByZero(i, Top(data.stack))
        /\ here' = Moment(here.ip, Popped(data), "ERROR_DIVISION_BY_ZERO")
    BY <1>3, <1>7, SameEffect DEF Machine!DivideByZero, Machine!Running
  <2> QED
    BY <2>1, <1>3, AfterCases DEF i
<1>8. CASE Machine!Branch
  <2>1. /\ i.op \in BranchOps /\ Fits(i, Len(data.stack))
        /\ here' = Moment(Settle(bytecode, IF Taken(i, Top(data.stack)) THEN i.arg ELSE here.ip + 1),
                          Popped(data), "running")
    BY <1>1, <1>3, <1>8, SameCode, SameEffect, SameSettle DEF Machine!Branch, Machine!Running
  <2> QED
    BY <2>1, <1>3, AfterCases DEF i
<1>9. CASE Machine!Stop
  BY <1>3, <1>9, SameCode, AfterCases DEF Machine!Stop, Machine!Running, i
<1>10. CASE Machine!Undefined
  <2>1. /\ i.op \in DataOps \cup BranchOps /\ ~Fits(i, Len(data.stack))
        /\ here' = Moment(here.ip, data, "UNDEFINED")
    BY <1>3, <1>10, SameCode DEF Machine!Undefined, Machine!Running
  <2> QED
    BY <2>1, <1>3, AfterCases DEF i
<1> QED
  BY <1>1, <1>2, <1>4, <1>5, <1>6, <1>7, <1>8, <1>9, <1>10 DEF Machine!Next

(* A run of a program stays on that way, from its start on. *)
OnPath == status # "off" /\ AllKnown(bytecode) => here \in Path(bytecode)

(* A call begins where the way begins, whatever was run before. *)
LEMMA PathStart == Start => bytecode' \in Seq(Instruction) /\ here' \in Path(bytecode')
<1> SUFFICES ASSUME Start PROVE bytecode' \in Seq(Instruction) /\ here' \in Path(bytecode')
  OBVIOUS
<1>1. bytecode' \in Seq(Instruction)
  BY ProgramsAssumption DEF Start, WellFormed
<1>2. here' = Begin(bytecode')
  BY DEF Start, here, Begin
<1> QED
  BY <1>1, <1>2, PathContinued

(* A step stays on the way. *)
LEMMA PathStep == TypeOK /\ OnPath /\ [Next]_vars => OnPath'
<1> SUFFICES ASSUME TypeOK, OnPath, [Next]_vars, status' # "off", AllKnown(bytecode')
             PROVE  here' \in Path(bytecode')
  BY DEF OnPath
<1>1. CASE Start
  BY <1>1, PathStart
<1>2. CASE Run
  <2>1. bytecode' = bytecode /\ status = "running"
    BY <1>2 DEF Run, Execute, DivideByZero, Jump, JumpIf, Stop, Undefined, Fetched
  <2>2. here \in Path(bytecode) /\ here.status = "running" /\ bytecode \in Seq(Instruction)
    BY <2>1, CodeInside DEF OnPath, here, Moment
  <2>3. here' \in {here, After(bytecode, here)}
    BY <1>2, <2>1, Follows
  <2> QED
    BY <2>1, <2>2, <2>3, PathContinued
<1>3. CASE UNCHANGED vars
  BY <1>3 DEF vars, here, OnPath
<1> QED
  BY <1>1, <1>2, <1>3 DEF Next

(***************************************************************************)
(* What the interpreters compute is settled by the program alone: of known  *)
(* instructions they follow, whichever of the three runs and whatever was   *)
(* run before, the one way from zeroed data that the instructions describe, *)
(* which by OneEnd ends in one way at most.                                 *)
(***************************************************************************)
THEOREM OneWay == Spec => []OnPath
<1>1. Init => OnPath
  BY DEF Init, OnPath
<1> QED
  BY <1>1, TypeInit, TypeStep, PathStep, PTL DEF Spec

=============================================================================
