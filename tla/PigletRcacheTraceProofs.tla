---------------------- MODULE PigletRcacheTraceProofs ----------------------
(***************************************************************************)
(* What vm_rcache_interpret_trace of pigletvm-rcache.c promises for every   *)
(* program, word, memory and stack size, and length of a trace.             *)
(*                                                                          *)
(* The rows are those of PigletTrace, and so is what is known of them; new  *)
(* is the stack top that travels from handler to handler.                   *)
(***************************************************************************)
EXTENDS PigletRcacheTrace, PigletISAProofs

TP == INSTANCE PigletTraceProofs

(* TraceAssumption of PigletTrace. *)
RowsAssumption ==
  /\ \A code \in Programs : WellFormed(code)
  /\ MaxTraceLen \in Nat /\ MaxTraceLen > 2

-----------------------------------------------------------------------------
(* The instances of PigletTrace read the same instruction set. *)

(* Both instances have the same classes of instructions and the same data. *)
LEMMA SameOps ==
  /\ TP!DataOps = DataOps /\ TP!BranchOps = BranchOps /\ TP!FinalOps = FinalOps
  /\ Trace!DataOps = DataOps /\ Trace!BranchOps = BranchOps /\ Trace!FinalOps = FinalOps
  /\ TP!Instruction = Instruction /\ TP!Data = Data
  /\ Trace!Zeroed = Zeroed
  /\ \A code : TP!Addresses(code) = Addresses(code)
  /\ \A code : TP!WellFormed(code) = WellFormed(code)
<1>1. /\ TP!PushOps = PushOps /\ TP!TopOps = TopOps /\ TP!BinaryOps = BinaryOps
      /\ TP!PopOps = PopOps /\ TP!BranchOps = BranchOps /\ TP!FinalOps = FinalOps
  BY DEF TP!PushOps, PushOps, TP!TopOps, TopOps, TP!BinaryOps, BinaryOps, TP!PopOps, PopOps,
         TP!BranchOps, BranchOps, TP!FinalOps, FinalOps
<1>2. TP!DataOps = DataOps
  BY <1>1 DEF TP!DataOps, DataOps
<1>3. /\ Trace!PushOps = PushOps /\ Trace!TopOps = TopOps /\ Trace!BinaryOps = BinaryOps
      /\ Trace!PopOps = PopOps /\ Trace!BranchOps = BranchOps /\ Trace!FinalOps = FinalOps
  BY DEF Trace!PushOps, PushOps, Trace!TopOps, TopOps, Trace!BinaryOps, BinaryOps,
         Trace!PopOps, PopOps, Trace!BranchOps, BranchOps, Trace!FinalOps, FinalOps
<1>4. Trace!DataOps = DataOps
  BY <1>3 DEF Trace!DataOps, DataOps
<1>5. TP!Word = Word /\ TP!Address = Address /\ Trace!Zeroed = Zeroed
  BY DEF TP!Word, Word, TP!Address, Address, Trace!Zeroed, Zeroed, Trace!Address
<1>6. TP!Data = Data
  BY <1>5 DEF TP!Data, Data
<1>7. TP!Instruction = Instruction
  BY <1>1, <1>2, <1>5 DEF TP!Instruction, Instruction, TP!Ops, Ops
<1>8. \A code : TP!Addresses(code) = Addresses(code)
  BY DEF TP!Addresses, Addresses
<1>9. \A code : TP!WellFormed(code) = WellFormed(code)
  BY <1>1, <1>7, <1>8 DEF TP!WellFormed, WellFormed
<1> QED
  BY <1>1, <1>2, <1>3, <1>4, <1>5, <1>6, <1>7, <1>8, <1>9

(* An instruction has the same operands and the same effect. *)
LEMMA SameEffect ==
  ASSUME NEW i, NEW d, NEW n, NEW top
  PROVE  /\ Trace!Effect(i, d) = Effect(i, d)
         /\ Trace!Popped(d) = Popped(d)
         /\ Trace!Fits(i, n) = Fits(i, n)
         /\ Trace!DividesByZero(i, top) = DividesByZero(i, top)
         /\ Trace!Taken(i, top) = Taken(i, top)
         /\ Trace!Top(d.stack) = Top(d.stack)
<1>1. Trace!Fits(i, n) = Fits(i, n)
  BY DEF Trace!Fits, Fits, Trace!Needs, Needs, Trace!DepthAfter, DepthAfter,
         Trace!PushOps, PushOps, Trace!TopOps, TopOps, Trace!BinaryOps, BinaryOps,
         Trace!PopOps, PopOps, Trace!BranchOps, BranchOps
<1>2. /\ Trace!Popped(d) = Popped(d)
      /\ Trace!DividesByZero(i, top) = DividesByZero(i, top)
      /\ Trace!Taken(i, top) = Taken(i, top)
      /\ Trace!Top(d.stack) = Top(d.stack)
  BY DEF Trace!Popped, Popped, Trace!Drop, Drop, Trace!DividesByZero, DividesByZero,
         Trace!Taken, Taken, Trace!Top, Top
<1>3. Trace!Effect(i, d) = Effect(i, d)
  BY DEF Trace!Effect, Effect, Trace!Stored, Stored, Trace!StackAfter, StackAfter,
         Trace!Pushed, Pushed, Trace!Replaced, Replaced, Trace!Binary, Binary,
         Trace!Bool, Bool, Trace!Top, Top, Trace!Below, Below, Trace!Drop, Drop,
         Trace!PushOps, PushOps, Trace!TopOps, TopOps, Trace!BinaryOps, BinaryOps
<1> QED
  BY <1>1, <1>2, <1>3

(* A call is the same in both instances. *)
LEMMA SameStart == TP!Start <=> Trace!Start
  BY DEF TP!Start, Trace!Start, TP!Cleared, Trace!Cleared, TP!Addresses, Trace!Addresses,
         TP!Zeroed, Trace!Zeroed, TP!Address, Trace!Address

(* The two instances are the same state machine. *)
LEMMA SameSteps ==
  /\ TP!Init <=> Trace!Init
  /\ TP!Next <=> Trace!Next
  /\ TP!vars = Trace!vars
  /\ TP!TypeOK <=> Trace!TypeOK
<1>1. TP!vars = Trace!vars
  BY DEF TP!vars, Trace!vars
<1> USE DEF TP!In, TP!row, TP!At, TP!Op, TP!Known, TP!Cleared, TP!Zeroed, TP!Address,
            TP!Addresses, TP!PushOps, TP!TopOps, TP!BinaryOps, TP!PopOps, TP!DataOps,
            TP!BranchOps, TP!FinalOps,
            Trace!In, Trace!row, Trace!At, Trace!Op, Trace!Known, Trace!Cleared, Trace!Zeroed,
            Trace!Address, Trace!Addresses, Trace!PushOps, Trace!TopOps, Trace!BinaryOps,
            Trace!PopOps, Trace!DataOps, Trace!BranchOps, Trace!FinalOps
<1>2. TP!Init <=> Trace!Init
  BY DEF TP!Init, Trace!Init
<1>4. TP!Dispatch <=> Trace!Dispatch
  BY DEF TP!Dispatch, Trace!Dispatch
<1>5. TP!Compile <=> Trace!Compile
  BY DEF TP!Compile, TP!CompileOp, TP!CompileJump, TP!CompileFinal, TP!CompileBranch,
         TP!CompileTail, TP!CompileUnknown, TP!Read, TP!HasRoom, TP!Write, TP!Cell, TP!RunRow,
         Trace!Compile, Trace!CompileOp, Trace!CompileJump, Trace!CompileFinal,
         Trace!CompileBranch, Trace!CompileTail, Trace!CompileUnknown, Trace!Read,
         Trace!HasRoom, Trace!Write, Trace!Cell, Trace!RunRow
<1>6. TP!Handle <=> Trace!Handle
  <2>1. TP!Operation = Trace!Operation
    BY DEF TP!Operation, Trace!Operation
  <2>2. TP!Operands <=> Trace!Operands
    BY <2>1 DEF TP!Operands, TP!Fits, TP!Needs, TP!DepthAfter,
                Trace!Operands, Trace!Fits, Trace!Needs, Trace!DepthAfter
  <2>3. /\ TP!Effect(TP!Operation, data) = Trace!Effect(Trace!Operation, data)
        /\ TP!Popped(data) = Trace!Popped(data)
    BY <2>1
       DEF Trace!Effect, TP!Effect, Trace!Stored, TP!Stored, Trace!StackAfter, TP!StackAfter,
           Trace!Pushed, TP!Pushed, Trace!Replaced, TP!Replaced, Trace!Binary, TP!Binary,
           Trace!Bool, TP!Bool, Trace!Top, TP!Top, Trace!Below, TP!Below, Trace!Drop, TP!Drop,
           TP!Popped, Trace!Popped
  <2>4. /\ TP!DividesByZero(TP!Operation, TP!Top(data.stack)) <=>
             Trace!DividesByZero(Trace!Operation, Trace!Top(data.stack))
        /\ TP!Taken(TP!Operation, TP!Top(data.stack)) <=>
             Trace!Taken(Trace!Operation, Trace!Top(data.stack))
    BY <2>1 DEF TP!DividesByZero, Trace!DividesByZero, TP!Taken, Trace!Taken, TP!Top, Trace!Top
  <2> QED
    BY <2>2, <2>3, <2>4
       DEF TP!Handle, TP!RunOp, TP!RunDivideByZero, TP!RunPrejump, TP!RunBranch, TP!RunTail,
           TP!RunFinal, TP!RunUndefined, TP!Calls,
           Trace!Handle, Trace!RunOp, Trace!RunDivideByZero, Trace!RunPrejump, Trace!RunBranch,
           Trace!RunTail, Trace!RunFinal, Trace!RunUndefined, Trace!Calls
<1>7. TP!TypeOK <=> Trace!TypeOK
  BY DEF TP!TypeOK, Trace!TypeOK, TP!Data, Trace!Data, TP!Word, Trace!Word
<1> QED
  BY <1>1, <1>2, <1>4, <1>5, <1>6, <1>7, SameStart
     DEF TP!Next, TP!Step, Trace!Next, Trace!Step

-----------------------------------------------------------------------------
(* The stack array and the two stack tops.                                    *)

(* Between two rows the structure has the top that the handlers had.          *)
Inv ==
  /\ TP!Inv
  /\ array \in [1 .. StackMax -> Word]
  /\ saved_top \in 0 .. StackMax /\ stack_top \in 0 .. StackMax
  /\ regs \in [memory : [Address -> Word], result : Word, printed : Word]
  /\ status = "running" /\ mode = "dispatch" => saved_top = stack_top

(* The cells below the top are live. *)
LEMMA LiveData ==
  ASSUME Inv
  PROVE  /\ data \in Data /\ data.stack = SubSeq(array, 1, stack_top)
         /\ Len(data.stack) = stack_top /\ Len(data.stack) <= StackMax
         /\ data.memory = regs.memory
<1>1. /\ array \in [1 .. StackMax -> Word] /\ stack_top \in 0 .. StackMax
      /\ regs \in [memory : [Address -> Word], result : Word, printed : Word]
  BY DEF Inv
<1>2. SubSeq(array, 1, stack_top) \in Seq(Word) /\ Len(SubSeq(array, 1, stack_top)) = stack_top
  <2>1. SubSeq(array, 1, stack_top) = [i \in 1 .. stack_top |-> array[i]]
    BY <1>1, ISAAssumption
  <2>2. \A i \in 1 .. stack_top : array[i] \in Word
    BY <1>1, ISAAssumption
  <2> QED
    BY <1>1, <2>1, <2>2, ISAAssumption
<1> QED
  BY <1>1, <1>2, ISAAssumption DEF data, Data

(* What a handler leaves is what is live when the next one is called. *)
LEMMA LeavesData ==
  ASSUME Inv, NEW d \in Data, Len(d.stack) <= StackMax, Leaves(d)
  PROVE  /\ data' = d
         /\ array' \in [1 .. StackMax -> Word]
         /\ stack_top' \in 0 .. StackMax
         /\ regs' \in [memory : [Address -> Word], result : Word, printed : Word]
<1> DEFINE n == Len(d.stack)
<1>1. /\ d.stack \in Seq(Word) /\ n \in 0 .. StackMax
      /\ d.memory \in [Address -> Word] /\ d.result \in Word /\ d.printed \in Word
  BY ISAAssumption DEF Data
<1>2. /\ array' = [i \in 1 .. StackMax |-> IF i <= n THEN d.stack[i] ELSE array[i]]
      /\ stack_top' = n
      /\ regs' = [memory |-> d.memory, result |-> d.result, printed |-> d.printed]
  BY DEF Leaves
<1>3. array' \in [1 .. StackMax -> Word]
  <2>1. \A i \in 1 .. StackMax : i <= n => d.stack[i] \in Word
    BY <1>1, ISAAssumption
  <2>2. \A i \in 1 .. StackMax : array[i] \in Word
    BY DEF Inv
  <2> QED
    BY <1>2, <2>1, <2>2
<1>4. SubSeq(array', 1, n) = d.stack
  <2>1. SubSeq(array', 1, n) = [i \in 1 .. n |-> array'[i]]
    BY <1>1, <1>3, ISAAssumption
  <2>2. \A i \in 1 .. n : array'[i] = d.stack[i]
    BY <1>1, <1>2, ISAAssumption
  <2>3. d.stack = [i \in 1 .. n |-> d.stack[i]]
    BY <1>1
  <2> QED
    BY <2>1, <2>2, <2>3
<1>5. data' = [stack |-> d.stack, memory |-> d.memory, result |-> d.result, printed |-> d.printed]
  BY <1>2, <1>4 DEF data
<1>6. data' = d
  BY <1>5 DEF Data
<1> QED
  BY <1>1, <1>2, <1>3, <1>6

(* Nothing changes while the stack, its top and the registers stay. *)
LEMMA SameLive ==
  ASSUME array' = array, stack_top' = stack_top, regs' = regs
  PROVE  data' = data
  BY DEF data

(* A cleared structure has zeroed data. *)
LEMMA ClearedData ==
  /\ array = EmptyArray /\ stack_top = 0 /\ regs = NoRegs => data = Zeroed
  /\ array' = EmptyArray /\ stack_top' = 0 /\ regs' = NoRegs => data' = Zeroed
  /\ EmptyArray \in [1 .. StackMax -> Word]
  /\ NoRegs \in [memory : [Address -> Word], result : Word, printed : Word]
<1>1. 0 \in Word
  BY ISAAssumption DEF Word
<1>2. EmptyArray \in [1 .. StackMax -> Word] /\ SubSeq(EmptyArray, 1, 0) = <<>>
  BY <1>1, ISAAssumption DEF EmptyArray
<1>3. NoRegs \in [memory : [Address -> Word], result : Word, printed : Word]
  BY <1>1 DEF NoRegs, Zeroed
<1>4. [stack |-> <<>>, memory |-> NoRegs.memory, result |-> NoRegs.result,
       printed |-> NoRegs.printed] = Zeroed
  BY DEF NoRegs, Zeroed
<1>5. array = EmptyArray /\ stack_top = 0 /\ regs = NoRegs => data = Zeroed
  BY <1>2, <1>4 DEF data
<1>6. array' = EmptyArray /\ stack_top' = 0 /\ regs' = NoRegs => data' = Zeroed
  BY <1>2, <1>4 DEF data
<1> QED
  BY <1>2, <1>3, <1>5, <1>6

(* The handler that is called has the instruction it was compiled from. *)
LEMMA Called ==
  ASSUME RowsAssumption, Inv, NEW ops, ops \subseteq DataOps \cup BranchOps, Trace!Calls(ops)
  PROVE  Trace!Operation \in Instruction /\ Trace!Operation.op \in ops
<1>1. mode = "run" /\ Trace!row[k].handler \in ops
  BY DEF Trace!Calls, Trace!In
<1>2. TP!row = Trace!row /\ TP!Operation = Trace!Operation
  BY DEF TP!row, Trace!row, TP!Operation, Trace!Operation
<1>3. TP!row[k].handler \in TP!DataOps \cup TP!BranchOps
  BY <1>1, <1>2, SameOps
<1>4. TP!Operation \in TP!Instruction /\ TP!Operation.op = TP!row[k].handler
  <2>1. \A code \in Programs : TP!WellFormed(code)
    BY SameOps DEF RowsAssumption
  <2> QED
    BY <1>1, <1>3, <2>1, ISAAssumption, TP!CalledInstruction DEF RowsAssumption, Inv
<1> QED
  BY <1>1, <1>2, <1>4, SameOps

-----------------------------------------------------------------------------
(* Every step is one of PigletTrace, and the tops agree again at its end.     *)

(* The part of the invariant that is about this structure, after a step. *)
Tops ==
  /\ array \in [1 .. StackMax -> Word]
  /\ saved_top \in 0 .. StackMax /\ stack_top \in 0 .. StackMax
  /\ regs \in [memory : [Address -> Word], result : Word, printed : Word]
  /\ status = "running" /\ mode = "dispatch" => saved_top = stack_top

(* An instruction with its operands there. *)
LEMMA StepOp == RowsAssumption /\ Inv /\ RunOp => Trace!RunOp /\ Tops'
<1> SUFFICES ASSUME RowsAssumption, Inv, RunOp PROVE Trace!RunOp /\ Tops'
  OBVIOUS
<1> DEFINE i == Trace!Operation
<1>1. i \in Instruction /\ i.op \in DataOps
  BY Called DEF RunOp
<1>2. Fits(i, Len(data.stack)) /\ data \in Data /\ TopValue = Top(data.stack)
  BY LiveData, SameEffect DEF RunOp, Trace!Operands, TopValue, Top
<1>3. Effect(i, data) \in Data /\ Len(Effect(i, data).stack) <= StackMax
  BY <1>1, <1>2, EffectInData DEF Fits
<1>4. /\ data' = Effect(i, data) /\ array' \in [1 .. StackMax -> Word]
      /\ stack_top' \in 0 .. StackMax
      /\ regs' \in [memory : [Address -> Word], result : Word, printed : Word]
  BY <1>3, LeavesData DEF RunOp
<1>5. Trace!RunOp
  BY <1>2, <1>4, SameOps, SameEffect DEF RunOp, Trace!RunOp
<1>6. mode = "run" /\ mode' = mode /\ saved_top' = saved_top
  BY DEF RunOp, Trace!Calls, Trace!In
<1> QED
  BY <1>4, <1>5, <1>6 DEF Tops, Inv

(* A POP, by the handler of a division by zero or of a branch. *)
LEMMA StepPop ==
  ASSUME RowsAssumption, Inv, NEW ops, ops \subseteq {"DIV"} \cup BranchOps,
         Trace!Calls(ops), Trace!Operands, Leaves(Popped(data))
  PROVE  /\ TopValue = Trace!Top(data.stack) /\ data' = Trace!Popped(data)
         /\ array' \in [1 .. StackMax -> Word]
         /\ stack_top' \in 0 .. StackMax
         /\ regs' \in [memory : [Address -> Word], result : Word, printed : Word]
<1> DEFINE i == Trace!Operation
<1>1. i \in Instruction /\ i.op \in {"DIV"} \cup BranchOps
  <2>1. ops \subseteq DataOps \cup BranchOps
    BY DEF DataOps, BinaryOps
  <2> QED
    BY <2>1, Called
<1>2. Fits(i, Len(data.stack)) /\ data \in Data /\ TopValue = Top(data.stack)
  BY LiveData, SameEffect DEF Trace!Operands, TopValue, Top
<1>3. Len(data.stack) >= 1 /\ Len(data.stack) <= StackMax
  <2>1. Needs(i) >= 1 /\ Needs(i) \in Nat
    BY <1>1 DEF Needs, BinaryOps, BranchOps
  <2> QED
    BY <1>2, <2>1, LiveData DEF Fits, Inv
<1>4. Popped(data) \in Data /\ Len(Popped(data).stack) <= StackMax
  BY <1>2, <1>3, PoppedInData, ISAAssumption
<1>5. data' = Popped(data)
  BY <1>4, LeavesData
<1> QED
  BY <1>2, <1>4, <1>5, LeavesData, SameEffect

(* A call clears all of the structure, whatever the last one left. *)
LEMMA StartTraces == RowsAssumption /\ Start => Trace!Start /\ Tops' /\ data' = Zeroed
<1> SUFFICES ASSUME RowsAssumption, Start PROVE Trace!Start /\ Tops' /\ data' = Zeroed
  OBVIOUS
<1>1. data' = Zeroed
  BY ClearedData DEF Start
<1>2. Trace!Start
  BY <1>1, SameOps DEF Start, Trace!Start
<1>3. Tops'
  BY ClearedData, ISAAssumption DEF Start, Tops
<1> QED
  BY <1>1, <1>2, <1>3

(* Each step, and what it leaves of the two tops. *)
LEMMA StepTraces ==
  RowsAssumption /\ Inv /\ [Next]_vars => [Trace!Next]_(Trace!vars) /\ Tops'
<1> SUFFICES ASSUME RowsAssumption, Inv, [Next]_vars
             PROVE  (Trace!Next \/ UNCHANGED Trace!vars) /\ Tops'
  OBVIOUS
<1>1. CASE Start
  BY <1>1, StartTraces DEF Trace!Next
<1>2. CASE Dispatch
  <2>1. stack_top' = stack_top /\ data' = data
    BY <1>2, SameLive DEF Dispatch, Trace!In, Inv
  <2>2. Trace!Dispatch
    BY <1>2, <2>1 DEF Dispatch, Trace!Dispatch
  <2>3. Tops'
    BY <1>2, <2>1 DEF Dispatch, Tops, Inv
  <2> QED
    BY <2>2, <2>3 DEF Trace!Next, Trace!Step
<1>3. CASE Compile
  <2>1. mode = "compile" /\ (mode' = mode \/ mode' = "run")
    BY <1>3
       DEF Compile, Trace!Compile, Trace!CompileOp, Trace!CompileJump, Trace!CompileFinal,
           Trace!CompileBranch, Trace!CompileTail, Trace!CompileUnknown, Trace!RunRow, Trace!In
  <2>2. Tops'
    BY <1>3, <2>1 DEF Compile, stacks, Tops, Inv
  <2> QED
    BY <1>3, <2>2 DEF Compile, Trace!Next, Trace!Step
<1>4. CASE RunOp
  BY <1>4, StepOp DEF Trace!Next, Trace!Step, Trace!Handle
<1>5. CASE RunDivideByZero
  <2>1. /\ TopValue = Trace!Top(data.stack) /\ data' = Trace!Popped(data)
        /\ array' \in [1 .. StackMax -> Word] /\ stack_top' \in 0 .. StackMax
        /\ regs' \in [memory : [Address -> Word], result : Word, printed : Word]
    BY <1>5, StepPop DEF RunDivideByZero
  <2>2. Trace!RunDivideByZero
    BY <1>5, <2>1, SameEffect DEF RunDivideByZero, Trace!RunDivideByZero
  <2>3. Tops'
    BY <1>5, <2>1 DEF RunDivideByZero, Tops, Inv
  <2> QED
    BY <2>2, <2>3 DEF Trace!Next, Trace!Step, Trace!Handle
<1>6. CASE RunPrejump
  <2>1. data' = data /\ mode = "run" /\ mode' = mode
    BY <1>6, SameLive DEF RunPrejump, stacks, Trace!Calls, Trace!In
  <2>2. Trace!RunPrejump
    BY <1>6, <2>1 DEF RunPrejump, Trace!RunPrejump, Cell
  <2>3. Tops'
    BY <1>6, <2>1 DEF RunPrejump, stacks, Tops, Inv
  <2> QED
    BY <2>2, <2>3 DEF Trace!Next, Trace!Step, Trace!Handle
<1>7. CASE RunBranch
  <2>1. /\ TopValue = Trace!Top(data.stack) /\ data' = Trace!Popped(data)
        /\ array' \in [1 .. StackMax -> Word] /\ stack_top' \in 0 .. StackMax
        /\ regs' \in [memory : [Address -> Word], result : Word, printed : Word]
    BY <1>7, StepPop DEF RunBranch
  <2>2. Trace!RunBranch
    BY <1>7, <2>1, SameOps, SameEffect DEF RunBranch, EndTrace, Trace!RunBranch, Cell
  <2>3. Tops'
    BY <1>7, <2>1 DEF RunBranch, EndTrace, Tops
  <2> QED
    BY <2>2, <2>3 DEF Trace!Next, Trace!Step, Trace!Handle
<1>8. CASE RunTail
  <2>1. data' = data
    BY <1>8, SameLive DEF RunTail
  <2>2. Trace!RunTail
    BY <1>8, <2>1 DEF RunTail, EndTrace, Trace!RunTail, Cell
  <2>3. Tops'
    BY <1>8 DEF RunTail, EndTrace, Tops, Inv
  <2> QED
    BY <2>2, <2>3 DEF Trace!Next, Trace!Step, Trace!Handle
<1>9. CASE RunFinal
  <2>1. data' = data
    BY <1>9, SameLive DEF RunFinal
  <2>2. Trace!RunFinal
    BY <1>9, <2>1, SameOps DEF RunFinal, Trace!RunFinal, Cell
  <2>3. Tops'
    BY <1>9 DEF RunFinal, Tops, Inv
  <2> QED
    BY <2>2, <2>3 DEF Trace!Next, Trace!Step, Trace!Handle
<1>10. CASE RunUndefined
  <2>1. data' = data
    BY <1>10, SameLive DEF RunUndefined, stacks
  <2>2. Trace!RunUndefined
    BY <1>10, <2>1, SameOps DEF RunUndefined, Trace!RunUndefined
  <2>3. Tops'
    BY <1>10 DEF RunUndefined, stacks, Tops, Inv
  <2> QED
    BY <2>2, <2>3 DEF Trace!Next, Trace!Step, Trace!Handle
<1>11. CASE UNCHANGED vars
  <2>1. data' = data
    BY <1>11, SameLive DEF vars, stacks
  <2>2. UNCHANGED Trace!vars
    BY <1>11, <2>1 DEF vars, cache, Trace!vars
  <2>3. Tops'
    BY <1>11 DEF vars, cache, stacks, Tops, Inv
  <2> QED
    BY <2>2, <2>3
<1> QED
  BY <1>1, <1>2, <1>3, <1>4, <1>5, <1>6, <1>7, <1>8, <1>9, <1>10, <1>11
     DEF Next, Step, Handle

-----------------------------------------------------------------------------
(* The invariant, and what it is for. *)

(* Before the first run both structures are zeroed. *)
LEMMA StartsTrace == RowsAssumption /\ Init => Trace!Init /\ Inv
<1> SUFFICES ASSUME RowsAssumption, Init PROVE Trace!Init /\ Inv
  OBVIOUS
<1>1. Trace!Init
  BY ClearedData, SameOps DEF Init, Trace!Init
<1>2. TP!Inv
  <2>1. \A code \in Programs : TP!WellFormed(code)
    BY SameOps DEF RowsAssumption
  <2> QED
    BY <1>1, <2>1, SameSteps, ISAAssumption, TP!InvInit DEF RowsAssumption
<1>3. Inv
  BY <1>2, ClearedData, ISAAssumption DEF Init, Inv
<1> QED
  BY <1>1, <1>3

(* The invariant is inductive. *)
LEMMA InvStep == RowsAssumption /\ Inv /\ [Next]_vars => Inv'
<1> SUFFICES ASSUME RowsAssumption, Inv, [Next]_vars PROVE Inv'
  OBVIOUS
<1>1. [TP!Next]_(TP!vars) /\ Tops'
  <2>1. (Trace!Next \/ UNCHANGED Trace!vars) /\ Tops'
    BY StepTraces
  <2>2. UNCHANGED Trace!vars => UNCHANGED TP!vars
    BY DEF Trace!vars, TP!vars
  <2> QED
    BY <2>1, <2>2, SameSteps
<1>2. TP!Inv'
  <2>1. \A code \in Programs : TP!WellFormed(code)
    BY SameOps DEF RowsAssumption
  <2> QED
    BY <1>1, <2>1, ISAAssumption, TP!InvStep DEF RowsAssumption, Inv
<1> QED
  BY <1>1, <1>2 DEF Tops, Inv

(***************************************************************************)
(* The stack top handed from handler to handler, and the one saved, stay in *)
(* the array, and the row that runs is one of the program's.                *)
(***************************************************************************)
THEOREM TypeCorrect == ASSUME RowsAssumption PROVE Spec => []TypeOK
<1>1. Inv => TypeOK
  BY SameSteps DEF Inv, TypeOK, TP!Inv
<1> QED
  BY <1>1, StartsTrace, InvStep, PTL DEF Spec

(***************************************************************************)
(* Passing the stack top on and saving it only where a row ends cannot be   *)
(* told from keeping it in the structure all the time: the interpreter does *)
(* what vm_interpret_trace does, whatever rows there are and after whatever *)
(* earlier runs.                                                            *)
(***************************************************************************)
THEOREM Implementation == ASSUME RowsAssumption PROVE Spec => ImplementsPigletTrace
<1> QED
  BY StartsTrace, InvStep, StepTraces, PTL DEF Spec, ImplementsPigletTrace, Trace!Spec

-----------------------------------------------------------------------------
(* A run of known instructions goes the one way the program can go.           *)
here == Moment(Settle(bytecode, TP!current), data, status)

(* Both instances know the same way of a program. *)
LEMMA SamePath ==
  /\ \A code : TP!Path(code) = Path(code)
  /\ \A code : TP!AllKnown(code) <=> AllKnown(code)
  /\ \A code, m : TP!After(code, m) = After(code, m)
  /\ TP!here = here /\ TP!here' = here'
<1>1. \A code, a : TP!Settle(code, a) = Settle(code, a) /\ TP!At(code, a) = At(code, a)
  BY DEF TP!Settle, Settle, TP!JumpsFrom, JumpsFrom, TP!Jumps, Jumps, TP!Closed, Closed,
         TP!Addresses, Addresses, TP!At, At, TP!Op, Op
<1>2. \A i, d : TP!Effect(i, d) = Effect(i, d)
  BY DEF TP!Effect, Effect, TP!Stored, Stored, TP!StackAfter, StackAfter, TP!Pushed, Pushed,
         TP!Replaced, Replaced, TP!Binary, Binary, TP!Bool, Bool, TP!Top, Top, TP!Below,
         Below, TP!Drop, Drop, TP!PushOps, PushOps, TP!TopOps, TopOps, TP!BinaryOps,
         BinaryOps
<1>3. \A code, m : TP!After(code, m) = After(code, m)
  <2>1. /\ TP!DataOps = DataOps /\ TP!BranchOps = BranchOps /\ TP!FinalOps = FinalOps
        /\ \A i, n : TP!Fits(i, n) <=> Fits(i, n)
    BY DEF TP!DataOps, DataOps, TP!PushOps, PushOps, TP!TopOps, TopOps, TP!BinaryOps, BinaryOps,
           TP!PopOps, PopOps, TP!BranchOps, BranchOps, TP!FinalOps, FinalOps,
           TP!Fits, Fits, TP!Needs, Needs, TP!DepthAfter, DepthAfter
  <2>2. /\ \A d : TP!Popped(d) = Popped(d)
        /\ \A stack : TP!Top(stack) = Top(stack)
        /\ \A i, top : TP!DividesByZero(i, top) <=> DividesByZero(i, top)
        /\ \A a, d, s : TP!Moment(a, d, s) = Moment(a, d, s)
    BY DEF TP!Popped, Popped, TP!Drop, Drop, TP!Top, Top, TP!DividesByZero, DividesByZero,
           TP!Moment, Moment
  <2>3. \A i, top : TP!Taken(i, top) = Taken(i, top)
    BY DEF TP!Taken, Taken
  <2> QED
    BY <1>1, <1>2, <2>1, <2>2, <2>3 DEF TP!After, After
<1>4. TP!Moments = Moments /\ \A code : TP!Begin(code) = Begin(code)
  BY <1>1 DEF TP!Moments, Moments, TP!Ends, Ends, TP!Data, Data, TP!Word, Word, TP!Address,
         Address, TP!Begin, Begin, TP!Moment, Moment, TP!Zeroed, Zeroed
<1>5. \A code : TP!Path(code) = Path(code)
  BY <1>3, <1>4 DEF TP!Path, Path, TP!From, From, TP!Continued, Continued
<1>6. \A code : TP!AllKnown(code) <=> AllKnown(code)
  BY DEF TP!AllKnown, AllKnown, TP!Known, Known
<1>7. TP!here = here /\ TP!here' = here'
  BY <1>1 DEF TP!here, here, TP!Moment, Moment
<1> QED
  BY <1>3, <1>5, <1>6, <1>7

(* The program that runs is one. *)
LEMMA CodeInside == RowsAssumption /\ Inv => bytecode \in Seq(Instruction)
<1>1. Inv => bytecode \in Programs \cup {<<>>}
  BY DEF Inv, TP!Inv, TP!TypeOK
<1>2. <<>> \in Seq(Instruction)
  OBVIOUS
<1> QED
  BY <1>1, <1>2 DEF RowsAssumption, WellFormed

(* A call leaves the invariant behind, whatever it finds. *)
LEMMA InvStart == RowsAssumption /\ Start => Inv'
<1> SUFFICES ASSUME RowsAssumption, Start PROVE Inv'
  OBVIOUS
<1>1. TP!Start /\ Tops'
  BY StartTraces, SameStart
<1>2. TP!Inv'
  <2>1. \A code \in Programs : TP!WellFormed(code)
    BY SameOps DEF RowsAssumption
  <2> QED
    BY <1>1, <2>1, ISAAssumption, TP!InvStart DEF RowsAssumption
<1> QED
  BY <1>1, <1>2 DEF Tops, Inv

(* Every step belongs to a run. *)
LEMMA StepRuns == Step => bytecode' = bytecode /\ status = "running"
  BY DEF Step, Dispatch, Compile, Trace!Compile, Trace!CompileOp, Trace!CompileJump,
         Trace!CompileFinal, Trace!CompileBranch, Trace!CompileTail, Trace!CompileUnknown,
         Trace!RunRow, Handle, RunOp, RunDivideByZero, RunPrejump, RunBranch, RunTail, RunFinal,
         RunUndefined, EndTrace, Trace!Calls, Trace!In

(* A step is one of PigletTrace, or changes nothing there. *)
LEMMA StepIsTrace == RowsAssumption /\ Inv /\ Step => TP!Step \/ UNCHANGED TP!vars
<1> SUFFICES ASSUME RowsAssumption, Inv, Step PROVE TP!Step \/ UNCHANGED TP!vars
  OBVIOUS
<1>1. status = "running"
  BY StepRuns
<1>2. Trace!Next \/ UNCHANGED Trace!vars
  BY StepTraces DEF Next
<1>3. UNCHANGED Trace!vars => UNCHANGED TP!vars
  BY DEF Trace!vars, TP!vars
<1>4. ~TP!Start
  BY <1>1 DEF TP!Start
<1> QED
  BY <1>2, <1>3, <1>4, SameSteps DEF TP!Next

(* A step of the interpreter changes nothing, or is the next step on the way. *)
LEMMA Follows ==
  ASSUME RowsAssumption, Inv, AllKnown(bytecode), Step
  PROVE  here' \in {here, After(bytecode, here)} /\ bytecode' = bytecode /\ status = "running"
<1>1. bytecode' = bytecode /\ status = "running"
  BY StepRuns
<1>2. CASE UNCHANGED TP!vars
  <2>1. TP!here' = TP!here
    BY <1>2 DEF TP!vars, TP!here, TP!current, TP!row
  <2> QED
    BY <1>1, <2>1, SamePath
<1>3. CASE TP!Step
  <2>1. \A code \in Programs : TP!WellFormed(code)
    BY SameOps DEF RowsAssumption
  <2>2. TP!AllKnown(bytecode) /\ TP!Inv
    BY SamePath DEF Inv
  <2>3. TP!here' \in {TP!here, TP!After(bytecode, TP!here)}
    BY <1>3, <2>1, <2>2, ISAAssumption, TP!Follows DEF RowsAssumption
  <2> QED
    BY <1>1, <2>3, SamePath
<1> QED
  BY <1>2, <1>3, StepIsTrace

(* A run of a program stays on that way, from its start on. *)
OnPath == status # "off" /\ AllKnown(bytecode) => here \in Path(bytecode)

(* A call begins where the way begins, whatever was run before. *)
LEMMA PathStart ==
  RowsAssumption /\ Start => bytecode' \in Seq(Instruction) /\ here' \in Path(bytecode')
<1> SUFFICES ASSUME RowsAssumption, Start
             PROVE  bytecode' \in Seq(Instruction) /\ here' \in Path(bytecode')
  OBVIOUS
<1>1. TP!Start
  BY StartTraces, SameStart
<1>2. \A code \in Programs : TP!WellFormed(code)
  BY SameOps DEF RowsAssumption
<1>3. TP!here' \in TP!Path(bytecode')
  BY <1>1, <1>2, ISAAssumption, TP!PathStart DEF RowsAssumption
<1>4. bytecode' \in Seq(Instruction)
  BY DEF Start, RowsAssumption, WellFormed
<1> QED
  BY <1>3, <1>4, SamePath

(* A step stays on the way. *)
LEMMA PathStep == RowsAssumption /\ Inv /\ OnPath /\ [Next]_vars => OnPath'
<1> SUFFICES ASSUME RowsAssumption, Inv, OnPath, [Next]_vars,
                    status' # "off", AllKnown(bytecode')
             PROVE  here' \in Path(bytecode')
  BY DEF OnPath
<1>1. CASE Start
  BY <1>1, PathStart
<1>2. CASE Step
  <2>1. bytecode' = bytecode /\ status = "running" /\ here' \in {here, After(bytecode, here)}
    <3>1. bytecode' = bytecode
      BY <1>2, StepRuns
    <3> QED
      BY <1>2, <3>1, Follows
  <2>2. bytecode \in Seq(Instruction)
    BY CodeInside
  <2>3. here \in Path(bytecode) /\ here.status = "running"
    BY <2>1 DEF OnPath, here, Moment
  <2> QED
    BY <2>1, <2>2, <2>3, PathContinued
<1>3. CASE UNCHANGED vars
  <2>1. data' = data
    BY <1>3, SameLive DEF vars, stacks
  <2>2. here' = here
    BY <1>3, <2>1 DEF vars, cache, here, TP!current, TP!row
  <2> QED
    BY <1>3, <2>2 DEF vars, cache, OnPath
<1> QED
  BY <1>1, <1>2, <1>3 DEF Next

(***************************************************************************)
(* Neither the rows nor the travelling stack top settle what is computed: a *)
(* run of known instructions goes the one way of the program, wherever rows *)
(* were cut and whatever an earlier run, left by longjmp or not, has saved. *)
(***************************************************************************)
THEOREM OneWay == ASSUME RowsAssumption PROVE Spec => []OnPath
<1>1. Init => OnPath
  BY DEF Init, OnPath
<1> QED
  BY <1>1, StartsTrace, InvStep, PathStep, PTL DEF Spec

=============================================================================
