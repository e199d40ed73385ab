-------------------------- MODULE PigletExecProofs --------------------------
(***************************************************************************)
(* What the run and runtimes commands of pigletvm-exec.c promise for every  *)
(* set of files, number of iterations, word, memory and stack size, and     *)
(* length of a trace.                                                       *)
(***************************************************************************)
EXTENDS PigletExec, PigletISAProofs

VP == INSTANCE PigletVMProofs
TP == INSTANCE PigletTraceProofs WITH data <- trace_data
RP == INSTANCE PigletRcacheProofs WITH data <- rcache_data
RTP == INSTANCE PigletRcacheTraceProofs
ATP == INSTANCE AsmTextsProofs WITH kind <- "vm asm", text <- file

-----------------------------------------------------------------------------
(* The four structures run the same instruction set. *)

(* What is known of vm is about the same way of a program. *)
LEMMA SamePathVM ==
  /\ \A code : VP!Path(code) = Path(code)
  /\ \A code : VP!AllKnown(code) <=> AllKnown(code)
<1>1. /\ VP!DataOps = DataOps /\ VP!BranchOps = BranchOps /\ VP!FinalOps = FinalOps
      /\ \A i, n : VP!Fits(i, n) <=> Fits(i, n)
  BY DEF VP!DataOps, DataOps, VP!PushOps, PushOps, VP!TopOps, TopOps, VP!BinaryOps,
         BinaryOps, VP!PopOps, PopOps, VP!BranchOps, BranchOps, VP!FinalOps, FinalOps,
         VP!Fits, Fits, VP!Needs, Needs, VP!DepthAfter, DepthAfter
<1>2. \A code, a : VP!Settle(code, a) = Settle(code, a) /\ VP!At(code, a) = At(code, a)
  BY DEF VP!Settle, Settle, VP!JumpsFrom, JumpsFrom, VP!Jumps, Jumps, VP!Closed, Closed,
         VP!Addresses, Addresses, VP!At, At, VP!Op, Op
<1>3. \A i, d : VP!Effect(i, d) = Effect(i, d)
  <2>1. \A op, below, top : VP!Binary(op, below, top) = Binary(op, below, top)
    BY DEF VP!Binary, Binary, VP!Bool, Bool
  <2>2. \A stack, n : /\ VP!Top(stack) = Top(stack) /\ VP!Below(stack) = Below(stack)
                      /\ VP!Drop(stack, n) = Drop(stack, n)
    BY DEF VP!Top, Top, VP!Below, Below, VP!Drop, Drop
  <2>3. /\ VP!PushOps = PushOps /\ VP!TopOps = TopOps /\ VP!BinaryOps = BinaryOps
    BY DEF VP!PushOps, PushOps, VP!TopOps, TopOps, VP!BinaryOps, BinaryOps
  <2>4. \A i, memory, top : /\ VP!Pushed(i, memory, top) = Pushed(i, memory, top)
                            /\ VP!Replaced(i, memory, top) = Replaced(i, memory, top)
    BY <2>1 DEF VP!Pushed, Pushed, VP!Replaced, Replaced
  <2>5. \A i, stack, memory : VP!StackAfter(i, stack, memory) = StackAfter(i, stack, memory)
    BY <2>1, <2>2, <2>3, <2>4 DEF VP!StackAfter, StackAfter
  <2>6. \A i, d, top, below : VP!Stored(i, d, top, below) = Stored(i, d, top, below)
    BY DEF VP!Stored, Stored
  <2> QED
    BY <2>2, <2>5, <2>6 DEF VP!Effect, Effect
<1>4. /\ \A d : VP!Popped(d) = Popped(d)
      /\ \A stack : VP!Top(stack) = Top(stack)
      /\ \A i, top : VP!DividesByZero(i, top) <=> DividesByZero(i, top)
      /\ \A a, d, s : VP!Moment(a, d, s) = Moment(a, d, s)
  BY DEF VP!Popped, Popped, VP!Drop, Drop, VP!Top, Top, VP!DividesByZero, DividesByZero,
         VP!Moment, Moment
<1>5. \A i, top : VP!Taken(i, top) = Taken(i, top)
  BY DEF VP!Taken, Taken
<1>6. \A code, m : VP!After(code, m) = After(code, m)
  BY <1>1, <1>2, <1>3, <1>4, <1>5 DEF VP!After, After
<1>7. VP!Moments = Moments /\ \A code : VP!Begin(code) = Begin(code)
  BY <1>2, <1>4 DEF VP!Moments, Moments, VP!Ends, Ends, VP!Data, Data, VP!Word, Word,
         VP!Address, Address, VP!Begin, Begin, VP!Zeroed, Zeroed
<1>8. \A code : VP!Path(code) = Path(code)
  BY <1>6, <1>7 DEF VP!Path, Path, VP!From, From, VP!Continued, Continued
<1>9. \A code : VP!AllKnown(code) <=> AllKnown(code)
  BY DEF VP!AllKnown, AllKnown, VP!Known, Known
<1> QED
  BY <1>8, <1>9

(* So is what is known of vm_trace. *)
LEMMA SamePathTrace ==
  /\ \A code : TP!Path(code) = Path(code)
  /\ \A code : TP!AllKnown(code) <=> AllKnown(code)
<1>1. /\ TP!DataOps = DataOps /\ TP!BranchOps = BranchOps /\ TP!FinalOps = FinalOps
      /\ \A i, n : TP!Fits(i, n) <=> Fits(i, n)
  BY DEF TP!DataOps, DataOps, TP!PushOps, PushOps, TP!TopOps, TopOps, TP!BinaryOps,
         BinaryOps, TP!PopOps, PopOps, TP!BranchOps, BranchOps, TP!FinalOps, FinalOps,
         TP!Fits, Fits, TP!Needs, Needs, TP!DepthAfter, DepthAfter
<1>2. \A code, a : TP!Settle(code, a) = Settle(code, a) /\ TP!At(code, a) = At(code, a)
  BY DEF TP!Settle, Settle, TP!JumpsFrom, JumpsFrom, TP!Jumps, Jumps, TP!Closed, Closed,
         TP!Addresses, Addresses, TP!At, At, TP!Op, Op
<1>3. \A i, d : TP!Effect(i, d) = Effect(i, d)
  <2>1. \A op, below, top : TP!Binary(op, below, top) = Binary(op, below, top)
    BY DEF TP!Binary, Binary, TP!Bool, Bool
  <2>2. \A stack, n : /\ TP!Top(stack) = Top(stack) /\ TP!Below(stack) = Below(stack)
                      /\ TP!Drop(stack, n) = Drop(stack, n)
    BY DEF TP!Top, Top, TP!Below, Below, TP!Drop, Drop
  <2>3. /\ TP!PushOps = PushOps /\ TP!TopOps = TopOps /\ TP!BinaryOps = BinaryOps
    BY DEF TP!PushOps, PushOps, TP!TopOps, TopOps, TP!BinaryOps, BinaryOps
  <2>4. \A i, memory, top : /\ TP!Pushed(i, memory, top) = Pushed(i, memory, top)
                            /\ TP!Replaced(i, memory, top) = Replaced(i, memory, top)
    BY <2>1 DEF TP!Pushed, Pushed, TP!Replaced, Replaced
  <2>5. \A i, stack, memory : TP!StackAfter(i, stack, memory) = StackAfter(i, stack, memory)
    BY <2>1, <2>2, <2>3, <2>4 DEF TP!StackAfter, StackAfter
  <2>6. \A i, d, top, below : TP!Stored(i, d, top, below) = Stored(i, d, top, below)
    BY DEF TP!Stored, Stored
  <2> QED
    BY <2>2, <2>5, <2>6 DEF TP!Effect, Effect
<1>4. /\ \A d : TP!Popped(d) = Popped(d)
      /\ \A stack : TP!Top(stack) = Top(stack)
      /\ \A i, top : TP!DividesByZero(i, top) <=> DividesByZero(i, top)
      /\ \A a, d, s : TP!Moment(a, d, s) = Moment(a, d, s)
  BY DEF TP!Popped, Popped, TP!Drop, Drop, TP!Top, Top, TP!DividesByZero, DividesByZero,
         TP!Moment, Moment
<1>5. \A i, top : TP!Taken(i, top) = Taken(i, top)
  BY DEF TP!Taken, Taken
<1>6. \A code, m : TP!After(code, m) = After(code, m)
  BY <1>1, <1>2, <1>3, <1>4, <1>5 DEF TP!After, After
<1>7. TP!Moments = Moments /\ \A code : TP!Begin(code) = Begin(code)
  BY <1>2, <1>4 DEF TP!Moments, Moments, TP!Ends, Ends, TP!Data, Data, TP!Word, Word,
         TP!Address, Address, TP!Begin, Begin, TP!Zeroed, Zeroed
<1>8. \A code : TP!Path(code) = Path(code)
  BY <1>6, <1>7 DEF TP!Path, Path, TP!From, From, TP!Continued, Continued
<1>9. \A code : TP!AllKnown(code) <=> AllKnown(code)
  BY DEF TP!AllKnown, AllKnown, TP!Known, Known
<1> QED
  BY <1>8, <1>9

(* So is what is known of vm_rcache. *)
LEMMA SamePathRcache ==
  /\ \A code : RP!Path(code) = Path(code)
  /\ \A code : RP!AllKnown(code) <=> AllKnown(code)
<1>1. /\ RP!DataOps = DataOps /\ RP!BranchOps = BranchOps /\ RP!FinalOps = FinalOps
      /\ \A i, n : RP!Fits(i, n) <=> Fits(i, n)
  BY DEF RP!DataOps, DataOps, RP!PushOps, PushOps, RP!TopOps, TopOps, RP!BinaryOps,
         BinaryOps, RP!PopOps, PopOps, RP!BranchOps, BranchOps, RP!FinalOps, FinalOps,
         RP!Fits, Fits, RP!Needs, Needs, RP!DepthAfter, DepthAfter
<1>2. \A code, a : RP!Settle(code, a) = Settle(code, a) /\ RP!At(code, a) = At(code, a)
  BY DEF RP!Settle, Settle, RP!JumpsFrom, JumpsFrom, RP!Jumps, Jumps, RP!Closed, Closed,
         RP!Addresses, Addresses, RP!At, At, RP!Op, Op
<1>3. \A i, d : RP!Effect(i, d) = Effect(i, d)
  <2>1. \A op, below, top : RP!Binary(op, below, top) = Binary(op, below, top)
    BY DEF RP!Binary, Binary, RP!Bool, Bool
  <2>2. \A stack, n : /\ RP!Top(stack) = Top(stack) /\ RP!Below(stack) = Below(stack)
                      /\ RP!Drop(stack, n) = Drop(stack, n)
    BY DEF RP!Top, Top, RP!Below, Below, RP!Drop, Drop
  <2>3. /\ RP!PushOps = PushOps /\ RP!TopOps = TopOps /\ RP!BinaryOps = BinaryOps
    BY DEF RP!PushOps, PushOps, RP!TopOps, TopOps, RP!BinaryOps, BinaryOps
  <2>4. \A i, memory, top : /\ RP!Pushed(i, memory, top) = Pushed(i, memory, top)
                            /\ RP!Replaced(i, memory, top) = Replaced(i, memory, top)
    BY <2>1 DEF RP!Pushed, Pushed, RP!Replaced, Replaced
  <2>5. \A i, stack, memory : RP!StackAfter(i, stack, memory) = StackAfter(i, stack, memory)
    BY <2>1, <2>2, <2>3, <2>4 DEF RP!StackAfter, StackAfter
  <2>6. \A i, d, top, below : RP!Stored(i, d, top, below) = Stored(i, d, top, below)
    BY DEF RP!Stored, Stored
  <2> QED
    BY <2>2, <2>5, <2>6 DEF RP!Effect, Effect
<1>4. /\ \A d : RP!Popped(d) = Popped(d)
      /\ \A stack : RP!Top(stack) = Top(stack)
      /\ \A i, top : RP!DividesByZero(i, top) <=> DividesByZero(i, top)
      /\ \A a, d, s : RP!Moment(a, d, s) = Moment(a, d, s)
  BY DEF RP!Popped, Popped, RP!Drop, Drop, RP!Top, Top, RP!DividesByZero, DividesByZero,
         RP!Moment, Moment
<1>5. \A i, top : RP!Taken(i, top) = Taken(i, top)
  BY DEF RP!Taken, Taken
<1>6. \A code, m : RP!After(code, m) = After(code, m)
  BY <1>1, <1>2, <1>3, <1>4, <1>5 DEF RP!After, After
<1>7. RP!Moments = Moments /\ \A code : RP!Begin(code) = Begin(code)
  BY <1>2, <1>4 DEF RP!Moments, Moments, RP!Ends, Ends, RP!Data, Data, RP!Word, Word,
         RP!Address, Address, RP!Begin, Begin, RP!Zeroed, Zeroed
<1>8. \A code : RP!Path(code) = Path(code)
  BY <1>6, <1>7 DEF RP!Path, Path, RP!From, From, RP!Continued, Continued
<1>9. \A code : RP!AllKnown(code) <=> AllKnown(code)
  BY DEF RP!AllKnown, AllKnown, RP!Known, Known
<1> QED
  BY <1>8, <1>9

(* So is what is known of vm_rcache_trace. *)
LEMMA SamePathRcacheTrace ==
  /\ \A code : RTP!Path(code) = Path(code)
  /\ \A code : RTP!AllKnown(code) <=> AllKnown(code)
<1>1. /\ RTP!DataOps = DataOps /\ RTP!BranchOps = BranchOps /\ RTP!FinalOps = FinalOps
      /\ \A i, n : RTP!Fits(i, n) <=> Fits(i, n)
  BY DEF RTP!DataOps, DataOps, RTP!PushOps, PushOps, RTP!TopOps, TopOps, RTP!BinaryOps,
         BinaryOps, RTP!PopOps, PopOps, RTP!BranchOps, BranchOps, RTP!FinalOps, FinalOps,
         RTP!Fits, Fits, RTP!Needs, Needs, RTP!DepthAfter, DepthAfter
<1>2. \A code, a : RTP!Settle(code, a) = Settle(code, a) /\ RTP!At(code, a) = At(code, a)
  BY DEF RTP!Settle, Settle, RTP!JumpsFrom, JumpsFrom, RTP!Jumps, Jumps, RTP!Closed, Closed,
         RTP!Addresses, Addresses, RTP!At, At, RTP!Op, Op
<1>3. \A i, d : RTP!Effect(i, d) = Effect(i, d)
  <2>1. \A op, below, top : RTP!Binary(op, below, top) = Binary(op, below, top)
    BY DEF RTP!Binary, Binary, RTP!Bool, Bool
  <2>2. \A stack, n : /\ RTP!Top(stack) = Top(stack) /\ RTP!Below(stack) = Below(stack)
                      /\ RTP!Drop(stack, n) = Drop(stack, n)
    BY DEF RTP!Top, Top, RTP!Below, Below, RTP!Drop, Drop
  <2>3. /\ RTP!PushOps = PushOps /\ RTP!TopOps = TopOps /\ RTP!BinaryOps = BinaryOps
    BY DEF RTP!PushOps, PushOps, RTP!TopOps, TopOps, RTP!BinaryOps, BinaryOps
  <2>4. \A i, memory, top : /\ RTP!Pushed(i, memory, top) = Pushed(i, memory, top)
                            /\ RTP!Replaced(i, memory, top) = Replaced(i, memory, top)
    BY <2>1 DEF RTP!Pushed, Pushed, RTP!Replaced, Replaced
  <2>5. \A i, stack, memory : RTP!StackAfter(i, stack, memory) = StackAfter(i, stack, memory)
    BY <2>1, <2>2, <2>3, <2>4 DEF RTP!StackAfter, StackAfter
  <2>6. \A i, d, top, below : RTP!Stored(i, d, top, below) = Stored(i, d, top, below)
    BY DEF RTP!Stored, Stored
  <2> QED
    BY <2>2, <2>5, <2>6 DEF RTP!Effect, Effect
<1>4. /\ \A d : RTP!Popped(d) = Popped(d)
      /\ \A stack : RTP!Top(stack) = Top(stack)
      /\ \A i, top : RTP!DividesByZero(i, top) <=> DividesByZero(i, top)
      /\ \A a, d, s : RTP!Moment(a, d, s) = Moment(a, d, s)
  BY DEF RTP!Popped, Popped, RTP!Drop, Drop, RTP!Top, Top, RTP!DividesByZero, DividesByZero,
         RTP!Moment, Moment
<1>5. \A i, top : RTP!Taken(i, top) = Taken(i, top)
  BY DEF RTP!Taken, Taken
<1>6. \A code, m : RTP!After(code, m) = After(code, m)
  BY <1>1, <1>2, <1>3, <1>4, <1>5 DEF RTP!After, After
<1>7. RTP!Moments = Moments /\ \A code : RTP!Begin(code) = Begin(code)
  BY <1>2, <1>4 DEF RTP!Moments, Moments, RTP!Ends, Ends, RTP!Data, Data, RTP!Word, Word,
         RTP!Address, Address, RTP!Begin, Begin, RTP!Zeroed, Zeroed
<1>8. \A code : RTP!Path(code) = Path(code)
  BY <1>6, <1>7 DEF RTP!Path, Path, RTP!From, From, RTP!Continued, Continued
<1>9. \A code : RTP!AllKnown(code) <=> AllKnown(code)
  BY DEF RTP!AllKnown, AllKnown, RTP!Known, Known
<1> QED
  BY <1>8, <1>9

-----------------------------------------------------------------------------
(* The commands and the lemmas speak of the same interpreters. *)

(* Programs are what the four take for one. *)
LEMMA SamePrograms ==
  /\ \A code \in Programs : /\ VP!WellFormed(code) /\ TP!WellFormed(code)
                            /\ RP!WellFormed(code) /\ RTP!WellFormed(code)
  /\ MaxTraceLen \in Nat /\ MaxTraceLen > 2
<1>1. \A code : VP!WellFormed(code) <=> WellFormed(code)
  BY DEF VP!WellFormed, WellFormed, VP!Instruction, Instruction, VP!Ops, Ops, VP!Address,
         Address, VP!Addresses, Addresses, VP!PushOps, PushOps, VP!TopOps, TopOps,
         VP!BinaryOps, BinaryOps, VP!PopOps, PopOps, VP!DataOps, DataOps, VP!BranchOps,
         BranchOps, VP!FinalOps, FinalOps
<1>2. \A code : TP!WellFormed(code) <=> WellFormed(code)
  BY DEF TP!WellFormed, WellFormed, TP!Instruction, Instruction, TP!Ops, Ops, TP!Address,
         Address, TP!Addresses, Addresses, TP!PushOps, PushOps, TP!TopOps, TopOps,
         TP!BinaryOps, BinaryOps, TP!PopOps, PopOps, TP!DataOps, DataOps, TP!BranchOps,
         BranchOps, TP!FinalOps, FinalOps
<1>3. \A code : RP!WellFormed(code) <=> WellFormed(code)
  BY DEF RP!WellFormed, WellFormed, RP!Instruction, Instruction, RP!Ops, Ops, RP!Address,
         Address, RP!Addresses, Addresses, RP!PushOps, PushOps, RP!TopOps, TopOps,
         RP!BinaryOps, BinaryOps, RP!PopOps, PopOps, RP!DataOps, DataOps, RP!BranchOps,
         BranchOps, RP!FinalOps, FinalOps
<1>4. \A code : RTP!WellFormed(code) <=> WellFormed(code)
  BY DEF RTP!WellFormed, WellFormed, RTP!Instruction, Instruction, RTP!Ops, Ops,
         RTP!Address, Address, RTP!Addresses, Addresses, RTP!PushOps, PushOps, RTP!TopOps,
         TopOps, RTP!BinaryOps, BinaryOps, RTP!PopOps, PopOps, RTP!DataOps, DataOps,
         RTP!BranchOps, BranchOps, RTP!FinalOps, FinalOps
<1> QED
  BY <1>1, <1>2, <1>3, <1>4, ExecAssumption DEF Programs

(* vm *)
LEMMA SameVM == (VM!Start <=> VP!Start) /\ (VM!Run <=> VP!Run) /\ VM!Results = VP!Results
<1>1. VM!Start <=> VP!Start
  BY DEF VM!Start, VP!Start, VM!Engines, VP!Engines, VM!Zeroed, VP!Zeroed, VM!Address,
         VP!Address
<1>2. VM!Run <=> VP!Run
  BY DEF VM!Run, VP!Run, VM!Execute, VP!Execute, VM!DivideByZero, VP!DivideByZero, VM!Jump,
         VP!Jump, VM!JumpIf, VP!JumpIf, VM!Stop, VP!Stop, VM!Undefined, VP!Undefined,
         VM!Fetched, VP!Fetched, VM!Handler, VP!Handler, VM!Current, VP!Current,
         VM!Operands, VP!Operands, VM!At, VP!At, VM!Op, VP!Op, VM!Known, VP!Known,
         VM!Effect, VP!Effect, VM!Stored, VP!Stored, VM!StackAfter, VP!StackAfter,
         VM!Pushed, VP!Pushed, VM!Replaced, VP!Replaced, VM!Binary, VP!Binary, VM!Bool,
         VP!Bool, VM!Top, VP!Top, VM!Below, VP!Below, VM!Drop, VP!Drop, VM!Popped,
         VP!Popped, VM!Fits, VP!Fits, VM!Needs, VP!Needs, VM!DepthAfter, VP!DepthAfter,
         VM!DividesByZero, VP!DividesByZero, VM!Taken, VP!Taken, VM!PushOps, VP!PushOps,
         VM!TopOps, VP!TopOps, VM!BinaryOps, VP!BinaryOps, VM!PopOps, VP!PopOps, VM!DataOps,
         VP!DataOps, VM!BranchOps, VP!BranchOps, VM!FinalOps, VP!FinalOps
<1> QED
  BY <1>1, <1>2 DEF VM!Results, VP!Results

(* vm_trace *)
LEMMA SameTrace == (Trace!Start <=> TP!Start) /\ (Trace!Step <=> TP!Step)
<1>1. Trace!Start <=> TP!Start
  BY DEF Trace!Start, TP!Start, Trace!Cleared, TP!Cleared, Trace!Addresses, TP!Addresses,
         Trace!Zeroed, TP!Zeroed, Trace!Address, TP!Address
<1>2. Trace!Dispatch <=> TP!Dispatch
  BY DEF Trace!Dispatch, TP!Dispatch, Trace!In, TP!In
<1>3. Trace!Compile <=> TP!Compile
  BY DEF Trace!Compile, TP!Compile, Trace!CompileOp, TP!CompileOp, Trace!CompileJump,
         TP!CompileJump, Trace!CompileFinal, TP!CompileFinal, Trace!CompileBranch,
         TP!CompileBranch, Trace!CompileTail, TP!CompileTail, Trace!CompileUnknown,
         TP!CompileUnknown, Trace!Read, TP!Read, Trace!HasRoom, TP!HasRoom, Trace!Write,
         TP!Write, Trace!Cell, TP!Cell, Trace!RunRow, TP!RunRow, Trace!In, TP!In, Trace!row,
         TP!row, Trace!At, TP!At, Trace!Op, TP!Op, Trace!Known, TP!Known, Trace!PushOps,
         TP!PushOps, Trace!TopOps, TP!TopOps, Trace!BinaryOps, TP!BinaryOps, Trace!PopOps,
         TP!PopOps, Trace!DataOps, TP!DataOps, Trace!BranchOps, TP!BranchOps,
         Trace!FinalOps, TP!FinalOps
<1>4. Trace!Handle <=> TP!Handle
  BY DEF Trace!Handle, TP!Handle, Trace!RunOp, TP!RunOp, Trace!RunDivideByZero,
         TP!RunDivideByZero, Trace!RunPrejump, TP!RunPrejump, Trace!RunBranch, TP!RunBranch,
         Trace!RunTail, TP!RunTail, Trace!RunFinal, TP!RunFinal, Trace!RunUndefined,
         TP!RunUndefined, Trace!Calls, TP!Calls, Trace!In, TP!In, Trace!row, TP!row,
         Trace!Operation, TP!Operation, Trace!Operands, TP!Operands, Trace!Effect,
         TP!Effect, Trace!Stored, TP!Stored, Trace!StackAfter, TP!StackAfter, Trace!Pushed,
         TP!Pushed, Trace!Replaced, TP!Replaced, Trace!Binary, TP!Binary, Trace!Bool,
         TP!Bool, Trace!Top, TP!Top, Trace!Below, TP!Below, Trace!Drop, TP!Drop,
         Trace!Popped, TP!Popped, Trace!Fits, TP!Fits, Trace!Needs, TP!Needs,
         Trace!DepthAfter, TP!DepthAfter, Trace!DividesByZero, TP!DividesByZero,
         Trace!Taken, TP!Taken, Trace!PushOps, TP!PushOps, Trace!TopOps, TP!TopOps,
         Trace!BinaryOps, TP!BinaryOps, Trace!PopOps, TP!PopOps, Trace!DataOps, TP!DataOps,
         Trace!BranchOps, TP!BranchOps, Trace!FinalOps, TP!FinalOps
<1> QED
  BY <1>1, <1>2, <1>3, <1>4 DEF Trace!Step, TP!Step

(* vm_rcache *)
LEMMA SameRcache == (Rcache!Start <=> RP!Start) /\ (Rcache!Run <=> RP!Run)
<1>1. Rcache!Start <=> RP!Start
  BY DEF Rcache!Start, RP!Start, Rcache!VM!Engines, RP!VM!Engines, Rcache!Zeroed, RP!Zeroed,
         Rcache!Address, RP!Address
<1>2. Rcache!Run <=> RP!Run
  BY DEF Rcache!Run, RP!Run, Rcache!Execute, RP!Execute, Rcache!DivideByZero,
         RP!DivideByZero, Rcache!Jump, RP!Jump, Rcache!JumpIf, RP!JumpIf, Rcache!Stop,
         RP!Stop, Rcache!Undefined, RP!Undefined, Rcache!Fetched, RP!Fetched,
         Rcache!VM!Handler, RP!VM!Handler, Rcache!VM!Known, RP!VM!Known, Rcache!Current,
         RP!Current, Rcache!At, RP!At, Rcache!Op, RP!Op, Rcache!Room, RP!Room, Rcache!Pops,
         RP!Pops, Rcache!OutOfMemory, RP!OutOfMemory, Rcache!PushOp, RP!PushOp,
         Rcache!TopOp, RP!TopOp, Rcache!BinaryOp, RP!BinaryOp, Rcache!PopOp, RP!PopOp,
         Rcache!StoreOp, RP!StoreOp, Rcache!array, RP!array, Rcache!Stored, RP!Stored,
         Rcache!Pushed, RP!Pushed, Rcache!Replaced, RP!Replaced, Rcache!Binary, RP!Binary,
         Rcache!Bool, RP!Bool, Rcache!Top, RP!Top, Rcache!Below, RP!Below, Rcache!Drop,
         RP!Drop, Rcache!Popped, RP!Popped, Rcache!Needs, RP!Needs, Rcache!DividesByZero,
         RP!DividesByZero, Rcache!Taken, RP!Taken, Rcache!Address, RP!Address,
         Rcache!PushOps, RP!PushOps, Rcache!TopOps, RP!TopOps, Rcache!BinaryOps,
         RP!BinaryOps, Rcache!PopOps, RP!PopOps, Rcache!DataOps, RP!DataOps,
         Rcache!BranchOps, RP!BranchOps, Rcache!FinalOps, RP!FinalOps
<1> QED
  BY <1>1, <1>2

(* The handlers of vm_rcache_trace *)
LEMMA SameHandle == RcacheTrace!Handle <=> RTP!Handle
<1>1. /\ RcacheTrace!data = RTP!data /\ RcacheTrace!Cell = RTP!Cell
      /\ RcacheTrace!TopValue = RTP!TopValue
      /\ RcacheTrace!Trace!Operation = RTP!Trace!Operation
      /\ \A ops : RcacheTrace!Trace!Calls(ops) <=> RTP!Trace!Calls(ops)
      /\ \A d : RcacheTrace!Leaves(d) <=> RTP!Leaves(d)
  BY DEF RcacheTrace!data, RTP!data, RcacheTrace!Cell, RTP!Cell, RcacheTrace!TopValue,
         RTP!TopValue, RcacheTrace!Trace!Operation, RTP!Trace!Operation,
         RcacheTrace!Trace!Calls, RTP!Trace!Calls, RcacheTrace!Trace!In, RTP!Trace!In,
         RcacheTrace!Trace!row, RTP!Trace!row, RcacheTrace!Leaves, RTP!Leaves
<1>2. /\ \A i, n : RcacheTrace!Trace!Fits(i, n) <=> RTP!Trace!Fits(i, n)
      /\ RcacheTrace!DataOps = RTP!DataOps /\ RcacheTrace!BranchOps = RTP!BranchOps
      /\ RcacheTrace!FinalOps = RTP!FinalOps
  BY DEF RcacheTrace!Trace!Fits, RTP!Trace!Fits, RcacheTrace!Trace!Needs, RTP!Trace!Needs,
         RcacheTrace!Trace!DepthAfter, RTP!Trace!DepthAfter, RcacheTrace!Trace!PushOps,
         RTP!Trace!PushOps, RcacheTrace!Trace!TopOps, RTP!Trace!TopOps,
         RcacheTrace!Trace!BinaryOps, RTP!Trace!BinaryOps, RcacheTrace!Trace!PopOps,
         RTP!Trace!PopOps, RcacheTrace!Trace!BranchOps, RTP!Trace!BranchOps,
         RcacheTrace!PushOps, RTP!PushOps, RcacheTrace!TopOps, RTP!TopOps,
         RcacheTrace!BinaryOps, RTP!BinaryOps, RcacheTrace!PopOps, RTP!PopOps,
         RcacheTrace!DataOps, RTP!DataOps, RcacheTrace!BranchOps, RTP!BranchOps,
         RcacheTrace!FinalOps, RTP!FinalOps
<1>3. RcacheTrace!Trace!Operands <=> RTP!Trace!Operands
  BY <1>1, <1>2 DEF RcacheTrace!Trace!Operands, RTP!Trace!Operands
<1>4. \A i, d : /\ RcacheTrace!Effect(i, d) = RTP!Effect(i, d)
               /\ RcacheTrace!Popped(d) = RTP!Popped(d)
  <2>1. \A op, below, top : RcacheTrace!Binary(op, below, top) = RTP!Binary(op, below, top)
    BY DEF RcacheTrace!Binary, RTP!Binary, RcacheTrace!Bool, RTP!Bool
  <2>2. \A stack, n : /\ RcacheTrace!Top(stack) = RTP!Top(stack)
                      /\ RcacheTrace!Below(stack) = RTP!Below(stack)
                      /\ RcacheTrace!Drop(stack, n) = RTP!Drop(stack, n)
    BY DEF RcacheTrace!Top, RTP!Top, RcacheTrace!Below, RTP!Below, RcacheTrace!Drop, RTP!Drop
  <2>3. /\ RcacheTrace!PushOps = RTP!PushOps /\ RcacheTrace!TopOps = RTP!TopOps
        /\ RcacheTrace!BinaryOps = RTP!BinaryOps
    BY DEF RcacheTrace!PushOps, RTP!PushOps, RcacheTrace!TopOps, RTP!TopOps,
           RcacheTrace!BinaryOps, RTP!BinaryOps
  <2>4. \A i, memory, top :
          /\ RcacheTrace!Pushed(i, memory, top) = RTP!Pushed(i, memory, top)
          /\ RcacheTrace!Replaced(i, memory, top) = RTP!Replaced(i, memory, top)
    BY <2>1 DEF RcacheTrace!Pushed, RTP!Pushed, RcacheTrace!Replaced, RTP!Replaced
  <2>5. \A i, stack, memory :
          RcacheTrace!StackAfter(i, stack, memory) = RTP!StackAfter(i, stack, memory)
    BY <2>1, <2>2, <2>3, <2>4 DEF RcacheTrace!StackAfter, RTP!StackAfter
  <2>6. \A i, d, top, below : RcacheTrace!Stored(i, d, top, below) = RTP!Stored(i, d, top, below)
    BY DEF RcacheTrace!Stored, RTP!Stored
  <2> QED
    BY <2>2, <2>5, <2>6 DEF RcacheTrace!Effect, RTP!Effect, RcacheTrace!Popped, RTP!Popped
<1>5. /\ RcacheTrace!DividesByZero(RcacheTrace!Trace!Operation, RcacheTrace!TopValue) <=>
           RTP!DividesByZero(RTP!Trace!Operation, RTP!TopValue)
      /\ RcacheTrace!Taken(RcacheTrace!Trace!Operation, RcacheTrace!TopValue) =
           RTP!Taken(RTP!Trace!Operation, RTP!TopValue)
  BY <1>1 DEF RcacheTrace!DividesByZero, RTP!DividesByZero, RcacheTrace!Taken, RTP!Taken
<1>6. RcacheTrace!RunOp <=> RTP!RunOp
  BY <1>1, <1>2, <1>3, <1>4, <1>5 DEF RcacheTrace!RunOp, RTP!RunOp
<1>7. RcacheTrace!RunDivideByZero <=> RTP!RunDivideByZero
  BY <1>1, <1>3, <1>4, <1>5 DEF RcacheTrace!RunDivideByZero, RTP!RunDivideByZero
<1>8. RcacheTrace!RunBranch <=> RTP!RunBranch
  BY <1>1, <1>2, <1>3, <1>4, <1>5 DEF RcacheTrace!RunBranch, RTP!RunBranch,
         RcacheTrace!EndTrace, RTP!EndTrace
<1>9. /\ RcacheTrace!RunPrejump <=> RTP!RunPrejump
      /\ RcacheTrace!RunTail <=> RTP!RunTail
      /\ RcacheTrace!RunFinal <=> RTP!RunFinal
      /\ RcacheTrace!RunUndefined <=> RTP!RunUndefined
  BY <1>1, <1>2, <1>3 DEF RcacheTrace!RunPrejump, RTP!RunPrejump, RcacheTrace!RunTail,
         RTP!RunTail, RcacheTrace!RunFinal, RTP!RunFinal, RcacheTrace!RunUndefined,
         RTP!RunUndefined, RcacheTrace!EndTrace, RTP!EndTrace, RcacheTrace!stacks,
         RTP!stacks
<1> QED
  BY <1>6, <1>7, <1>8, <1>9 DEF RcacheTrace!Handle, RTP!Handle

(* vm_rcache_trace *)
LEMMA SameRcacheTrace ==
  (RcacheTrace!Start <=> RTP!Start) /\ (RcacheTrace!Step <=> RTP!Step)
<1>1. RcacheTrace!Start <=> RTP!Start
  BY DEF RcacheTrace!Start, RTP!Start, RcacheTrace!Trace!Cleared, RTP!Trace!Cleared,
         RcacheTrace!Trace!Addresses, RTP!Trace!Addresses, RcacheTrace!EmptyArray,
         RTP!EmptyArray, RcacheTrace!NoRegs, RTP!NoRegs, RcacheTrace!Zeroed, RTP!Zeroed,
         RcacheTrace!Address, RTP!Address
<1>2. RcacheTrace!Dispatch <=> RTP!Dispatch
  BY DEF RcacheTrace!Dispatch, RTP!Dispatch, RcacheTrace!Trace!In, RTP!Trace!In
<1>3. RcacheTrace!Compile <=> RTP!Compile
  BY DEF RcacheTrace!Compile, RTP!Compile, RcacheTrace!stacks, RTP!stacks, RcacheTrace!data,
         RTP!data, RcacheTrace!Trace!Compile, RTP!Trace!Compile,
         RcacheTrace!Trace!CompileOp, RTP!Trace!CompileOp, RcacheTrace!Trace!CompileJump,
         RTP!Trace!CompileJump, RcacheTrace!Trace!CompileFinal, RTP!Trace!CompileFinal,
         RcacheTrace!Trace!CompileBranch, RTP!Trace!CompileBranch,
         RcacheTrace!Trace!CompileTail, RTP!Trace!CompileTail,
         RcacheTrace!Trace!CompileUnknown, RTP!Trace!CompileUnknown, RcacheTrace!Trace!Read,
         RTP!Trace!Read, RcacheTrace!Trace!HasRoom, RTP!Trace!HasRoom,
         RcacheTrace!Trace!Write, RTP!Trace!Write, RcacheTrace!Trace!Cell, RTP!Trace!Cell,
         RcacheTrace!Trace!RunRow, RTP!Trace!RunRow, RcacheTrace!Trace!In, RTP!Trace!In,
         RcacheTrace!Trace!row, RTP!Trace!row, RcacheTrace!Trace!At, RTP!Trace!At,
         RcacheTrace!Trace!Op, RTP!Trace!Op, RcacheTrace!Trace!Known, RTP!Trace!Known,
         RcacheTrace!Trace!PushOps, RTP!Trace!PushOps, RcacheTrace!Trace!TopOps,
         RTP!Trace!TopOps, RcacheTrace!Trace!BinaryOps, RTP!Trace!BinaryOps,
         RcacheTrace!Trace!PopOps, RTP!Trace!PopOps, RcacheTrace!Trace!DataOps,
         RTP!Trace!DataOps, RcacheTrace!Trace!BranchOps, RTP!Trace!BranchOps,
         RcacheTrace!Trace!FinalOps, RTP!Trace!FinalOps
<1> QED
  BY <1>1, <1>2, <1>3, SameHandle DEF RcacheTrace!Step, RTP!Step

-----------------------------------------------------------------------------
(* What is known while an interpreter runs, and when it has returned. *)

(* The program ends with e, with this result and this value printed last. *)
Ended(e, result, printed) ==
  \E f \in Path(bytecode) : f.status = e /\ f.data.result = result /\ f.data.printed = printed

RunsVM == VP!TypeOK /\ VP!OnPath

RunsTrace == TP!Inv /\ TP!OnPath

RunsRcache == RP!Registers /\ (status # "UNDEFINED" => RP!here \in RP!Path(bytecode))

RunsRcacheTrace == RTP!Inv /\ RTP!OnPath

(* A call of an interpreter of vm, and the steps of its run. *)
LEMMA CallVM ==
  /\ VM!Start => RunsVM'
  /\ RunsVM /\ VM!Run => RunsVM'
  /\ RunsVM /\ AllKnown(bytecode) /\ status \in VM!Results => Ended(status, data.result, data.printed)
<1>1. VM!Start => RunsVM'
  <2> SUFFICES ASSUME VM!Start PROVE RunsVM'
    OBVIOUS
  <2>1. VP!Start
    BY SameVM
  <2>2. VP!TypeOK' /\ VP!here' \in VP!Path(bytecode')
    BY <2>1, SamePrograms, ISAAssumption, VP!TypeStart, VP!PathStart
  <2> QED
    BY <2>2 DEF RunsVM, VP!OnPath
<1>2. RunsVM /\ VM!Run => RunsVM'
  <2> SUFFICES ASSUME RunsVM, VM!Run PROVE RunsVM'
    OBVIOUS
  <2>1. [VP!Next]_(VP!vars)
    BY SameVM DEF VP!Next
  <2> QED
    BY <2>1, SamePrograms, ISAAssumption, VP!TypeStep, VP!PathStep DEF RunsVM
<1>3. ASSUME RunsVM, AllKnown(bytecode), status \in VM!Results
      PROVE  Ended(status, data.result, data.printed)
  <2>1. VP!here \in Path(bytecode)
    BY <1>3, SamePathVM DEF RunsVM, VP!OnPath, VM!Results
  <2> QED
    BY <2>1 DEF Ended, VP!here, VP!Moment
<1> QED
  BY <1>1, <1>2, <1>3

(* A call of the interpreter of vm_trace, and the steps of its run. *)
LEMMA CallTrace ==
  /\ Trace!Start => RunsTrace'
  /\ RunsTrace /\ Trace!Step => RunsTrace'
  /\ RunsTrace /\ AllKnown(bytecode) /\ status \in VM!Results =>
       Ended(status, trace_data.result, trace_data.printed)
<1>1. Trace!Start => RunsTrace'
  <2> SUFFICES ASSUME Trace!Start PROVE RunsTrace'
    OBVIOUS
  <2>1. TP!Start
    BY SameTrace
  <2>2. TP!Inv' /\ TP!here' \in TP!Path(bytecode')
    BY <2>1, SamePrograms, ISAAssumption, TP!InvStart, TP!PathStart
  <2> QED
    BY <2>2 DEF RunsTrace, TP!OnPath
<1>2. RunsTrace /\ Trace!Step => RunsTrace'
  <2> SUFFICES ASSUME RunsTrace, Trace!Step PROVE RunsTrace'
    OBVIOUS
  <2>1. [TP!Next]_(TP!vars)
    BY SameTrace DEF TP!Next
  <2> QED
    BY <2>1, SamePrograms, ISAAssumption, TP!InvStep, TP!PathStep DEF RunsTrace
<1>3. ASSUME RunsTrace, AllKnown(bytecode), status \in VM!Results
      PROVE  Ended(status, trace_data.result, trace_data.printed)
  <2>1. TP!here \in Path(bytecode)
    BY <1>3, SamePathTrace DEF RunsTrace, TP!OnPath, VM!Results
  <2> QED
    BY <2>1 DEF Ended, TP!here, TP!Moment
<1> QED
  BY <1>1, <1>2, <1>3

(* A call of an interpreter of vm_rcache.  Its run does not leave what C      *)
(* defines for want of operands: the program has been run to its end by vm.   *)
LEMMA CallRcache ==
  /\ Rcache!Start => RunsRcache'
  /\ RunsRcache /\ AllKnown(bytecode) /\ Rcache!Run
     /\ (\E f \in Path(bytecode) : f.status \in VM!Results) => RunsRcache'
  /\ RunsRcache /\ status \in VM!Results =>
       Ended(status, rcache_data.result, rcache_data.printed)
<1>1. Rcache!Start => RunsRcache'
  <2> SUFFICES ASSUME Rcache!Start PROVE RunsRcache'
    OBVIOUS
  <2>1. RP!Start
    BY SameRcache
  <2>2. RP!Registers' /\ RP!here' \in RP!Path(bytecode')
    BY <2>1, SamePrograms, ISAAssumption, RP!RegistersStart, RP!PathStart
  <2> QED
    BY <2>2 DEF RunsRcache
<1>2. ASSUME RunsRcache, AllKnown(bytecode), Rcache!Run,
             NEW f \in Path(bytecode), f.status \in VM!Results
      PROVE  RunsRcache'
  <2>1. RP!Run /\ RP!Registers
    BY <1>2, SameRcache DEF RunsRcache
  <2>2. RP!Registers'
    BY <2>1, SamePrograms, ISAAssumption, RP!RegistersStep DEF RP!Next
  <2>3. status = "running" /\ bytecode' = bytecode
    BY <2>1 DEF RP!Run, RP!Execute, RP!DivideByZero, RP!Jump, RP!JumpIf, RP!Stop, RP!Undefined,
                RP!Fetched
  <2>4. RP!here \in RP!Path(bytecode) /\ f \in RP!Path(bytecode) /\ RP!AllKnown(bytecode)
    BY <1>2, <2>3, SamePathRcache DEF RunsRcache
  <2>5. f.status \notin {"running", "UNDEFINED"}
    BY <1>2 DEF VM!Results
  <2>6. RP!Fitting
    BY <2>1, <2>4, <2>5, SamePrograms, ISAAssumption, RP!PathFitting
  <2>7. status' # "UNDEFINED" => RP!here' \in RP!Path(bytecode')
    BY <2>1, <2>4, <2>6, SamePrograms, ISAAssumption, RP!PathRun
  <2> QED
    BY <2>2, <2>7 DEF RunsRcache
<1>3. ASSUME RunsRcache, status \in VM!Results
      PROVE  Ended(status, rcache_data.result, rcache_data.printed)
  <2>1. RP!here \in Path(bytecode)
    BY <1>3, SamePathRcache DEF RunsRcache, VM!Results
  <2>2. /\ RP!here.status = status
        /\ RP!here.data = RP!Seen(rcache_data, acc)
    BY DEF RP!here, RP!Moment
  <2>3. /\ RP!here.data.result = rcache_data.result
        /\ RP!here.data.printed = rcache_data.printed
    BY <1>3, <2>2 DEF RunsRcache, RP!Registers, RP!Data, RP!Seen
  <2> QED
    BY <2>1, <2>2, <2>3 DEF Ended
<1> QED
  BY <1>1, <1>2, <1>3

(* A call of the interpreter of vm_rcache_trace, and the steps of its run. *)
LEMMA CallRcacheTrace ==
  /\ RcacheTrace!Start => RunsRcacheTrace'
  /\ RunsRcacheTrace /\ RcacheTrace!Step => RunsRcacheTrace'
  /\ RunsRcacheTrace /\ AllKnown(bytecode) /\ status \in VM!Results =>
       Ended(status, regs.result, regs.printed)
<1>0. RTP!RowsAssumption
  BY SamePrograms DEF RTP!RowsAssumption
<1>1. RcacheTrace!Start => RunsRcacheTrace'
  <2> SUFFICES ASSUME RcacheTrace!Start PROVE RunsRcacheTrace'
    OBVIOUS
  <2>1. RTP!Start
    BY SameRcacheTrace
  <2>2. RTP!Inv' /\ RTP!here' \in RTP!Path(bytecode')
    BY <1>0, <2>1, ISAAssumption, RTP!InvStart, RTP!PathStart
  <2> QED
    BY <2>2 DEF RunsRcacheTrace, RTP!OnPath
<1>2. RunsRcacheTrace /\ RcacheTrace!Step => RunsRcacheTrace'
  <2> SUFFICES ASSUME RunsRcacheTrace, RcacheTrace!Step PROVE RunsRcacheTrace'
    OBVIOUS
  <2>1. [RTP!Next]_(RTP!vars)
    BY SameRcacheTrace DEF RTP!Next
  <2> QED
    BY <1>0, <2>1, ISAAssumption, RTP!InvStep, RTP!PathStep DEF RunsRcacheTrace
<1>3. ASSUME RunsRcacheTrace, AllKnown(bytecode), status \in VM!Results
      PROVE  Ended(status, regs.result, regs.printed)
  <2>1. RTP!here \in Path(bytecode)
    BY <1>3, SamePathRcacheTrace DEF RunsRcacheTrace, RTP!OnPath, VM!Results
  <2> QED
    BY <2>1 DEF Ended, RTP!here, RTP!Moment, RTP!data
<1> QED
  BY <1>1, <1>2, <1>3

-----------------------------------------------------------------------------
(* Whose turn it is. *)

(* An interpreter has its iterations, and no more. *)
LEMMA Turns ==
  ASSUME NEW n \in Nat \ {0}, NEW l \in Nat, l < n * 8
  PROVE  /\ l \div n \in 0 .. 7
         /\ n * (l \div n) <= l /\ l < n * (l \div n) + n
<1> DEFINE q == l \div n
<1>1. q \in Nat
  OBVIOUS
<1>2. n * q <= l
  OBVIOUS
<1>3. l < n * q + n
  OBVIOUS
<1> HIDE DEF q
<1>4. q < 8
  BY <1>1, <1>2
<1> QED
  BY <1>1, <1>2, <1>3, <1>4 DEF q

(* Which structure is called, by the number of reports. *)
LEMMA CalledCases ==
  ASSUME num_iterations \in Nat, Len(reports) \in Nat, CallsLeft
  PROVE  /\ num_iterations > 0
         /\ Called \in {Interpreters[i] : i \in DOMAIN Interpreters}
         /\ \/ Called.structure = "vm" /\ Len(reports) < 3 * num_iterations
            \/ /\ Called.structure = "vm_trace"
               /\ 3 * num_iterations <= Len(reports) /\ Len(reports) < 4 * num_iterations
            \/ /\ Called.structure = "vm_rcache"
               /\ 4 * num_iterations <= Len(reports) /\ Len(reports) < 7 * num_iterations
            \/ /\ Called.structure = "vm_rcache_trace"
               /\ 7 * num_iterations <= Len(reports)
<1> DEFINE n == num_iterations
           l == Len(reports)
           q == l \div n
<1>1. Len(Interpreters) = 8 /\ DOMAIN Interpreters = 1 .. 8
  BY DEF Interpreters
<1>2. n \in Nat \ {0} /\ l \in Nat /\ l < n * 8
  BY <1>1 DEF CallsLeft
<1>3. q \in 0 .. 7 /\ n * q <= l /\ l < n * q + n
  BY <1>2, Turns
<1>4. /\ Interpreters[1].structure = "vm" /\ Interpreters[2].structure = "vm"
      /\ Interpreters[3].structure = "vm" /\ Interpreters[4].structure = "vm_trace"
      /\ Interpreters[5].structure = "vm_rcache" /\ Interpreters[6].structure = "vm_rcache"
      /\ Interpreters[7].structure = "vm_rcache" /\ Interpreters[8].structure = "vm_rcache_trace"
  BY DEF Interpreters, Interpreter
<1>5. Called = Interpreters[q + 1]
  BY DEF Called
<1> HIDE DEF n, l, q
<1>6. q + 1 \in 1 .. 8
  BY <1>3
<1>7. \/ q \in {0, 1, 2} /\ l < 3 * n
      \/ q = 3 /\ 3 * n <= l /\ l < 4 * n
      \/ q \in {4, 5, 6} /\ 4 * n <= l /\ l < 7 * n
      \/ q = 7 /\ 7 * n <= l
  BY <1>2, <1>3
<1> QED
  BY <1>1, <1>2, <1>4, <1>5, <1>6, <1>7 DEF n, l

-----------------------------------------------------------------------------
(* The invariant: what has been reported is how the program ends. *)

Told(code) ==
  {r \in [engine : {Interpreters[i] : i \in DOMAIN Interpreters}, error : VM!Results,
          value : Word, own : Word, printed : Word] :
     /\ r.value = r.own
     /\ \E f \in Path(code) :
          f.status = r.error /\ f.data.result = r.own /\ f.data.printed = r.printed}

(* The structure with the data d has the result of a run to the end. *)
Ran(d) == \E f \in Path(bytecode) : f.status \in VM!Results /\ f.data.result = d.result

(* What get_result is asked for: the results of vm and vm_rcache. *)
Asked ==
  /\ reports # <<>> /\ ~(command = "called" /\ Called.structure = "vm") => Ran(data)
  /\ /\ Len(reports) > 4 * num_iterations
     /\ ~(command = "called" /\ Called.structure = "vm_rcache")
     => Ran(rcache_data)

Runs ==
  /\ Called.structure = "vm" => RunsVM
  /\ Called.structure = "vm_trace" => RunsTrace
  /\ Called.structure = "vm_rcache" => RunsRcache
  /\ Called.structure = "vm_rcache_trace" => RunsRcacheTrace

LastTold ==
  res = IF reports[Len(reports)].error = "SUCCESS" THEN "EXIT_SUCCESS" ELSE "EXIT_FAILURE"

ExecInv ==
  /\ file \in Files /\ num_iterations \in Nat
  /\ command \in {"asm", "run", "called", "exited"}
  /\ reports \in Seq(Told(bytecode))
  /\ command = "asm" => reports = <<>>
  /\ command \in {"run", "called"} => AllKnown(bytecode)
  /\ reports # <<>> => bytecode \in Programs /\ LastTold
  /\ command = "called" => CallsLeft /\ bytecode \in Programs /\ Runs
  /\ Asked
  /\ command = "exited" => ~CallsLeft \/ (reports = <<>> /\ res = "EXIT_FAILURE")

(* Before a file is assembled nothing is reported. *)
LEMMA ExecInit == Init => ExecInv
<1> SUFFICES ASSUME Init PROVE ExecInv
  OBVIOUS
<1>1. file \in Files /\ num_iterations \in Nat /\ command = "asm" /\ reports = <<>>
  BY ExecAssumption DEF Init
<1>2. reports \in Seq(Told(bytecode)) /\ Len(reports) = 0
  BY <1>1
<1>3. Asked
  BY <1>1, <1>2 DEF Asked
<1> QED
  BY <1>1, <1>2, <1>3 DEF ExecInv

(* The assembler of AsmTexts is this one. *)
LEMMA SameTables ==
  /\ ATP!Opcodes = Opcodes
  /\ \A op : ATP!Takes(op) = Takes(op)
<1>1. ATP!Opcodes = ATP!V!Opcodes /\ \A op : ATP!Takes(op) = ATP!V!Takes(op)
  BY Zenon DEF ATP!Opcodes, ATP!Takes
<1>2. ATP!V!Opcodes = Opcodes
  BY DEF ATP!V!Opcodes, Opcodes
<1>3. \A op : ATP!V!Takes(op) = Takes(op)
  BY DEF ATP!V!Takes, Takes, ATP!V!BranchOps, BranchOps
<1> QED
  BY <1>1, <1>2, <1>3, Zenon

(* It reads the same lines. *)
LEMMA SameLines ==
  /\ \A f : ATP!Lines(f) = File!Lines(f)
  /\ ATP!Words = File!Words
<1>1. \A word, as : ATP!Readable(word, as) <=> File!Readable(word, as)
  BY DEF ATP!Readable, File!Readable
<1>2. \A word : ATP!Read(word) = File!Read(word)
  BY DEF ATP!Read, File!Read, ATP!Number, File!Number
<1>3. \A words, takes : ATP!OperandsReadable(words, takes) <=> File!OperandsReadable(words, takes)
  BY <1>1 DEF ATP!OperandsReadable, File!OperandsReadable
<1>4. /\ ATP!Ignored = File!Ignored /\ ATP!Exit = File!Exit
      /\ \A n : ATP!Label(n) = File!Label(n)
  BY DEF ATP!Ignored, File!Ignored, ATP!Exit, File!Exit, ATP!Label, File!Label, ATP!Line,
         File!Line, ATP!LabelName, File!LabelName
<1>5. \A words : ATP!ParseLine(words) = File!ParseLine(words)
  BY SameTables, <1>2, <1>3, <1>4
     DEF ATP!ParseLine, File!ParseLine, ATP!Line, File!Line
<1>6. \A f : ATP!Lines(f) = File!Lines(f)
  BY <1>4, <1>5 DEF ATP!Lines, File!Lines
<1>7. ATP!Words = File!Words
  BY SameTables DEF ATP!Words, File!Words, ATP!Mnemonics, File!Mnemonics, ATP!Blank, File!Blank
<1> QED
  BY <1>6, <1>7

(* It gives labels the same places. *)
LEMMA SameLabels ==
  /\ \A lines : ATP!Assembles(lines) <=> File!Assembles(lines)
  /\ \A lines, word : ATP!Resolve(lines, word) = File!Resolve(lines, word)
  /\ \A lines : File!NumbersLand(lines) => ATP!NumbersLand(lines)
<1>1. \A n : ATP!Label(n) = File!Label(n)
  BY DEF ATP!Label, File!Label, ATP!Line, File!Line, ATP!LabelName, File!LabelName
<1>2. ATP!Exit = File!Exit
  BY DEF ATP!Exit, File!Exit, ATP!Line, File!Line
<1>3. \A line : ATP!Width(line) = File!Width(line)
  BY SameTables DEF ATP!Width, File!Width
<1>4. \A lines, i : ATP!OffsetOf(lines, i) = File!OffsetOf(lines, i)
  BY <1>3 DEF ATP!OffsetOf, File!OffsetOf
<1>5. \A lines, n : ATP!Defines(lines, n) = File!Defines(lines, n)
  BY <1>1 DEF ATP!Defines, File!Defines
<1>6. \A lines, n : ATP!FirstDefinition(lines, n) = File!FirstDefinition(lines, n)
  BY <1>5 DEF ATP!FirstDefinition, File!FirstDefinition
<1>7. \A lines, n : ATP!TargetOf(lines, n) = File!TargetOf(lines, n)
  BY <1>4, <1>6, SMT DEF ATP!TargetOf, File!TargetOf
<1>8. \A lines : ATP!Assembles(lines) <=> File!Assembles(lines)
  BY <1>2, <1>5 DEF ATP!Assembles, File!Assembles, ATP!LabelsOf, File!LabelsOf
<1>9. \A lines, word : ATP!Resolve(lines, word) = File!Resolve(lines, word)
  BY <1>7 DEF ATP!Resolve, File!Resolve
<1>10. \A lines : File!NumbersLand(lines) => ATP!NumbersLand(lines)
  BY <1>4, SameTables, Zenon DEF ATP!NumbersLand, File!NumbersLand
<1> QED
  BY <1>8, <1>9, <1>10

(* It writes the same bytes, and its disassembler reads the same in them. *)
LEMMA SameBytes ==
  /\ \A lines : ATP!Assemble(lines) = File!Assemble(lines)
  /\ \A bytes : ATP!Decoded(bytes) = File!Decoded(bytes)
  /\ \A listing, offset : ATP!NumberOf(listing, offset) = File!NumberOf(listing, offset)
<1>1. \A op : ATP!OpcodeOf(op) = File!OpcodeOf(op)
  BY SameTables DEF ATP!OpcodeOf, File!OpcodeOf
<1>2. \A ss : ATP!FlattenSeq(ss) = File!FlattenSeq(ss)
  BY DEF ATP!FlattenSeq, File!FlattenSeq
<1>3. \A n : ATP!Bytes(n) = File!Bytes(n)
  BY Zenon DEF ATP!Bytes, File!Bytes
<1>4. \A lines, line :
        [i \in DOMAIN line.operands |-> ATP!Bytes(ATP!Resolve(lines, line.operands[i]))]
          = [i \in DOMAIN line.operands |-> File!Bytes(File!Resolve(lines, line.operands[i]))]
  BY SameLabels, <1>3
<1>5. \A lines, line : ATP!Emit(lines, line) = File!Emit(lines, line)
  <2> TAKE lines, line
  <2>1. ATP!OpcodeOf(line.op) = File!OpcodeOf(line.op)
    BY <1>1
  <2> DEFINE mine == [i \in DOMAIN line.operands |-> ATP!Bytes(ATP!Resolve(lines, line.operands[i]))]
             its == [i \in DOMAIN line.operands |-> File!Bytes(File!Resolve(lines, line.operands[i]))]
  <2>2. /\ ATP!Emit(lines, line) =
             IF line.op = "LABEL" THEN <<>>
             ELSE <<ATP!OpcodeOf(line.op)>> \o ATP!FlattenSeq(mine)
        /\ File!Emit(lines, line) =
             IF line.op = "LABEL" THEN <<>>
             ELSE <<File!OpcodeOf(line.op)>> \o File!FlattenSeq(its)
    BY Zenon DEF ATP!Emit, File!Emit
  <2>3. mine = its
    BY <1>4
  <2> HIDE DEF mine, its
  <2>4. ATP!FlattenSeq(mine) = File!FlattenSeq(its)
    BY <1>2, <2>3
  <2> QED
    BY <2>1, <2>2, <2>4
<1>6. \A lines : [i \in DOMAIN lines |-> ATP!Emit(lines, lines[i])]
                   = [i \in DOMAIN lines |-> File!Emit(lines, lines[i])]
  BY <1>5
<1>7. \A lines : ATP!Assemble(lines) = File!Assemble(lines)
  BY <1>2, <1>6, Zenon DEF ATP!Assemble, File!Assemble
<1>8. \A bytes, offset : ATP!Decode(bytes, offset) = File!Decode(bytes, offset)
  BY SameTables
     DEF ATP!Decode, File!Decode, ATP!Byte, File!Byte, ATP!ReadWord, File!ReadWord
<1>9. \A listing : ATP!NextOffset(listing) = File!NextOffset(listing)
  BY DEF ATP!NextOffset, File!NextOffset, ATP!Last, File!Last
<1>10. \A bytes : ATP!Decoded(bytes) = File!Decoded(bytes)
  BY <1>8, <1>9 DEF ATP!Decoded, File!Decoded
<1>11. \A listing, offset : ATP!NumberOf(listing, offset) = File!NumberOf(listing, offset)
  BY <1>9 DEF ATP!NumberOf, File!NumberOf, ATP!Boundaries, File!Boundaries,
              ATP!Cardinality, File!Cardinality
<1> QED
  BY <1>7, <1>10, <1>11

(* What is assembled has only opcodes that the interpreters know. *)
LEMMA AssembledKnown ==
  ASSUME file \in Seq(Seq(File!Words)), File!Assembles(File!Lines(file))
  PROVE  AllKnown(Load(Assemble(file)))
<1> DEFINE x == File!Decoded(Assemble(file))
<1>1. ATP!Table
  <2>1. "vm asm" \in {"matcher asm", "vm asm"}
    BY Zenon
  <2> QED
    BY <2>1, ATP!Tables, Zenon
<1>2. x \in Seq(ATP!Instructions)
  <2>1. file \in Seq(Seq(ATP!Words))
    BY SameLines, Zenon
  <2>2. ATP!Assembles(ATP!Lines(file)) /\ x = ATP!Decoded(ATP!Assemble(ATP!Lines(file)))
    BY SameLines, SameLabels, SameBytes DEF Assemble
  <2> HIDE DEF x
  <2> QED
    BY <1>1, <2>1, <2>2, ATP!ProgramListing, Zenon
<1>3. \A op \in ATP!Mnemonics : op # "UNKNOWN"
  <2>1. ATP!V!Opcodes = ATP!Opcodes
    BY Zenon DEF ATP!Opcodes
  <2> QED
    BY <2>1, ATP!PigletNames, Zenon
<1>4. Load(Assemble(file)) =
        [i \in DOMAIN x |->
           IF x[i].args = <<>> THEN Op(x[i].op)
           ELSE OpArg(x[i].op, IF Takes(x[i].op) = <<"address">>
                                 THEN File!NumberOf(x, x[i].args[1]) ELSE x[i].args[1])]
  BY DEF Load
<1> HIDE DEF x
<1>5. \A i \in 1 .. Len(x) : x[i].op # "UNKNOWN"
  BY <1>2, <1>3 DEF ATP!Instructions
<1>6. DOMAIN x = 1 .. Len(x) /\ Len(x) \in Nat
  BY <1>2
<1> DEFINE code == Load(Assemble(file))
<1>7. Len(code) = Len(x)
  BY <1>4, <1>6
<1>8. ASSUME NEW i \in 1 .. Len(x) PROVE Known(code[i])
  <2>1. code[i] = IF x[i].args = <<>> THEN Op(x[i].op)
           ELSE OpArg(x[i].op, IF Takes(x[i].op) = <<"address">>
                                 THEN File!NumberOf(x, x[i].args[1]) ELSE x[i].args[1])
    BY <1>4, <1>6
  <2>2. code[i].op = x[i].op /\ code[i].high = FALSE
    BY <2>1 DEF Op, OpArg
  <2> QED
    BY <1>5, <2>2 DEF Known
<1> HIDE DEF code
<1> QED
  BY <1>7, <1>8 DEF AllKnown, code

(* The interpreters are defined for what is assembled from the files, with the *)
(* memory that they have: this is what the files are assumed to be for.        *)
LEMMA AssembledRuns ==
  ASSUME Address = ATP!V!Address, file \in Files, File!Assembles(File!Lines(file))
  PROVE  Load(Assemble(file)) \in Programs
<1> DEFINE bytes == Assemble(file)
           x == File!Decoded(bytes)
           code == Load(bytes)
<1>1. ATP!Table
  <2>1. "vm asm" \in {"matcher asm", "vm asm"}
    BY Zenon
  <2> QED
    BY <2>1, ATP!Tables, Zenon
<1>2. ATP!Lined = File!Lines(file) /\ ATP!Assemble(ATP!Lined) = bytes
  BY SameLines, SameBytes, Zenon DEF ATP!Lined, Assemble
<1>3. /\ file \in Seq(Seq(ATP!Words)) /\ ATP!Assembles(ATP!Lined)
      /\ ATP!Addressable /\ ATP!NumbersLand(ATP!Lined)
  <2>1. file \in Seq(Seq(File!Words)) /\ File!NumbersLand(File!Lines(file))
    BY ExecAssumption
  <2>2. Len(bytes) < 65536
    BY ExecAssumption
  <2>3. ATP!Addressable
    BY <1>2, <2>2 DEF ATP!Addressable
  <2> QED
    BY <1>2, <2>1, <2>3, SameLines, SameLabels, Zenon
<1>4. /\ x = ATP!Decoded(bytes) /\ x \in Seq(ATP!Instructions) /\ ATP!Spaced(x)
  <2>1. x = ATP!Decoded(bytes)
    BY SameBytes, Zenon
  <2> HIDE DEF x, bytes
  <2> QED
    BY <1>1, <1>2, <1>3, <2>1, ATP!ProgramListing, Zenon DEF ATP!Lined
<1>5. ATP!Lands(x)
  <2> HIDE DEF x, bytes
  <2> QED
    BY <1>1, <1>2, <1>3, <1>4, ATP!BranchesLandInside, Zenon
<1>6. ATP!V!Opcodes = ATP!Opcodes /\ \A op : ATP!V!Takes(op) = ATP!Takes(op)
  BY Zenon DEF ATP!Opcodes, ATP!Takes
<1>7. ATP!V!WellFormed(ATP!V!Load(bytes))
  <2> HIDE DEF x, bytes
  <2> QED
    BY <1>4, <1>5, <1>6, ATP!PigletLoads, Zenon
<1>8. ATP!V!Load(bytes) = code
  <2>1. /\ \A b : ATP!V!File!Decoded(b) = File!Decoded(b)
        /\ \A l, n : ATP!V!File!NumberOf(l, n) = File!NumberOf(l, n)
    BY <1>6, ATP!PigletDecodes, SameBytes, Zenon
  <2>2. \A op : ATP!V!Takes(op) = Takes(op)
    BY <1>6, SameTables, Zenon
  <2> HIDE DEF bytes
  <2> QED
    BY <2>1, <2>2 DEF ATP!V!Load, Load, ATP!V!Op, Op, ATP!V!OpArg, OpArg
<1>9. ATP!V!WellFormed(code) => WellFormed(code)
  <2>1. ATP!V!Instruction = Instruction
    BY DEF ATP!V!Instruction, Instruction, ATP!V!Ops, Ops,
           ATP!V!DataOps, DataOps, ATP!V!PushOps, PushOps, ATP!V!TopOps, TopOps,
           ATP!V!BinaryOps, BinaryOps, ATP!V!PopOps, PopOps, ATP!V!BranchOps, BranchOps,
           ATP!V!FinalOps, FinalOps
  <2>2. ATP!V!Addresses(code) = Addresses(code) /\ ATP!V!BranchOps = BranchOps
    BY DEF ATP!V!Addresses, Addresses, ATP!V!BranchOps, BranchOps
  <2> HIDE DEF code
  <2> QED
    BY <2>1, <2>2, Zenon DEF ATP!V!WellFormed, WellFormed
<1> HIDE DEF code, bytes
<1>10. WellFormed(code)
  BY <1>7, <1>8, <1>9, Zenon
<1> QED
  BY <1>10 DEF Programs, WellFormed, code, bytes

(* The assembler's output is what the interpreters are given. *)
LEMMA ExecAsm == ExecInv /\ AsmCommand => ExecInv'
<1> SUFFICES ASSUME ExecInv, AsmCommand PROVE ExecInv'
  OBVIOUS
<1>1. /\ command = "asm" /\ command' = "run" /\ reports' = reports /\ reports = <<>>
      /\ num_iterations' = num_iterations /\ num_iterations \in Nat
      /\ file' = file /\ file \in Files
      /\ bytecode' = Load(Assemble(file))
  BY DEF ExecInv, AsmCommand
<1>2. AllKnown(bytecode')
  <2>1. file \in Seq(Seq(File!Words)) /\ File!Assembles(File!Lines(file))
    BY <1>1, ExecAssumption DEF AsmCommand
  <2> QED
    BY <1>1, <2>1, AssembledKnown
<1>3. reports' \in Seq(Told(bytecode')) /\ Len(reports') = 0
  BY <1>1
<1>4. Asked'
  BY <1>1, <1>3 DEF Asked
<1> QED
  BY <1>1, <1>2, <1>3, <1>4 DEF ExecInv

(* A file that is not assembled is not run. *)
LEMMA ExecAsmFails == ExecInv /\ AsmFails => ExecInv'
<1> SUFFICES ASSUME ExecInv, AsmFails PROVE ExecInv'
  OBVIOUS
<1>1. /\ command' = "exited" /\ res' = "EXIT_FAILURE" /\ reports' = reports /\ reports = <<>>
      /\ UNCHANGED <<file, num_iterations, bytecode>>
  BY DEF ExecInv, AsmFails
<1>2. Len(reports') = 0 /\ reports' \in Seq(Told(bytecode'))
  BY <1>1
<1>3. Asked'
  BY <1>1, <1>2 DEF Asked, ExecInv
<1> QED
  BY <1>1, <1>2, <1>3 DEF ExecInv

(* While an interpreter runs the reports stay. *)
LEMMA StillCalled ==
  ASSUME ExecInv, command \in {"run", "called"}, CallsLeft, command' = "called",
         UNCHANGED <<file, num_iterations, reports, res, bytecode>>,
         bytecode' \in Programs, Runs', Asked'
  PROVE  ExecInv'
<1>1. CallsLeft'
  BY DEF CallsLeft
<1>2. reports' \in Seq(Told(bytecode'))
  BY DEF ExecInv
<1>3. AllKnown(bytecode') /\ num_iterations' \in Nat /\ file' \in Files
  BY DEF ExecInv
<1>4. reports' # <<>> => LastTold'
  BY DEF ExecInv, LastTold
<1> QED
  BY <1>1, <1>2, <1>3, <1>4 DEF ExecInv

(* The number of reports says what has been asked. *)
LEMMA ReportsLen ==
  ASSUME ExecInv
  PROVE  num_iterations \in Nat /\ Len(reports) \in Nat /\ (Len(reports) > 0 => reports # <<>>)
  BY DEF ExecInv

(* The interpreters of vm come first: nobody has asked vm_rcache. *)
LEMMA ExecVM == ExecInv /\ InterpretVM => ExecInv'
<1> SUFFICES ASSUME ExecInv, InterpretVM PROVE ExecInv'
  OBVIOUS
<1>1. /\ command \in {"run", "called"} /\ CallsLeft /\ Called.structure = "vm"
      /\ command' = "called" /\ UNCHANGED <<file, num_iterations, reports, res, bytecode>>
      /\ \/ command = "run" /\ VM!Start
         \/ command = "called" /\ VM!Run
  BY DEF InterpretVM, Running, Advance
<1>2. Called' = Called
  BY <1>1 DEF Called
<1>3. Asked'
  BY <1>1, <1>2, ReportsLen, CalledCases DEF Asked
<1>4. bytecode' \in Programs /\ RunsVM'
  <2>1. CASE command = "run" /\ VM!Start
    BY <2>1, CallVM DEF VM!Start
  <2>2. CASE command = "called" /\ VM!Run
    <3>1. RunsVM /\ bytecode \in Programs
      BY <1>1, <2>2 DEF ExecInv, Runs
    <3> QED
      BY <1>1, <2>2, <3>1, CallVM
  <2> QED
    BY <1>1, <2>1, <2>2
<1>5. Runs'
  BY <1>1, <1>2, <1>4 DEF Runs
<1> QED
  BY <1>1, <1>4, <1>5, <1>3, StillCalled

(* The interpreter of vm_trace leaves vm alone. *)
LEMMA ExecTrace == ExecInv /\ InterpretTrace => ExecInv'
<1> SUFFICES ASSUME ExecInv, InterpretTrace PROVE ExecInv'
  OBVIOUS
<1>1. /\ command \in {"run", "called"} /\ CallsLeft /\ Called.structure = "vm_trace"
      /\ command' = "called" /\ UNCHANGED <<file, num_iterations, reports, res, bytecode>>
      /\ \/ command = "run" /\ Trace!Start
         \/ command = "called" /\ Trace!Step
  BY DEF InterpretTrace, Running, Advance
<1>2. Called' = Called
  BY <1>1 DEF Called
<1>3. Asked'
  <2>1. Len(reports) \in Nat /\ Len(reports) < 4 * num_iterations
    BY <1>1, ReportsLen, CalledCases
  <2>2. reports # <<>> => Ran(data)
    BY <1>1 DEF ExecInv, Asked
  <2>3. data' = data
    BY DEF InterpretTrace
  <2> QED
    BY <1>1, <1>2, <2>1, <2>2, <2>3, ReportsLen DEF Asked, Ran
<1>4. bytecode' \in Programs /\ RunsTrace'
  <2>1. CASE command = "run" /\ Trace!Start
    BY <2>1, CallTrace DEF Trace!Start
  <2>2. CASE command = "called" /\ Trace!Step
    <3>1. RunsTrace /\ bytecode \in Programs
      BY <1>1, <2>2 DEF ExecInv, Runs
    <3> QED
      BY <1>1, <2>2, <3>1, CallTrace
  <2> QED
    BY <1>1, <2>1, <2>2
<1>5. Runs'
  BY <1>1, <1>2, <1>4 DEF Runs
<1> QED
  BY <1>1, <1>4, <1>5, <1>3, StillCalled

(* Before the interpreters of vm_rcache run, those of vm have ended. *)
LEMMA ExecRcache == ExecInv /\ InterpretRcache => ExecInv'
<1> SUFFICES ASSUME ExecInv, InterpretRcache PROVE ExecInv'
  OBVIOUS
<1>1. /\ command \in {"run", "called"} /\ CallsLeft /\ Called.structure = "vm_rcache"
      /\ command' = "called" /\ UNCHANGED <<file, num_iterations, reports, res, bytecode>>
      /\ \/ command = "run" /\ Rcache!Start
         \/ command = "called" /\ Rcache!Run
  BY DEF InterpretRcache, Running, Advance
<1>2. Called' = Called
  BY <1>1 DEF Called
<1>3. Asked' /\ \E f \in Path(bytecode) : f.status \in VM!Results
  <2>1. num_iterations > 0 /\ 4 * num_iterations <= Len(reports)
    BY <1>1, ReportsLen, CalledCases
  <2>2. reports # <<>>
    BY <2>1, ReportsLen
  <2>3. Ran(data)
    BY <1>1, <2>2 DEF ExecInv, Asked
  <2>4. data' = data
    BY DEF InterpretRcache
  <2> QED
    BY <1>1, <1>2, <2>3, <2>4 DEF Asked, Ran
<1>4. bytecode' \in Programs /\ RunsRcache'
  <2>1. CASE command = "run" /\ Rcache!Start
    BY <2>1, CallRcache DEF Rcache!Start
  <2>2. CASE command = "called" /\ Rcache!Run
    <3>1. RunsRcache /\ bytecode \in Programs
      BY <1>1, <2>2 DEF ExecInv, Runs
    <3> QED
      BY <1>1, <2>2, <3>1, CallRcache, <1>3 DEF ExecInv
  <2> QED
    BY <1>1, <2>1, <2>2
<1>5. Runs'
  BY <1>1, <1>2, <1>4 DEF Runs
<1> QED
  BY <1>1, <1>4, <1>5, <1>3, StillCalled

(* The interpreter of vm_rcache_trace leaves vm and vm_rcache alone. *)
LEMMA ExecRcacheTrace == ExecInv /\ InterpretRcacheTrace => ExecInv'
<1> SUFFICES ASSUME ExecInv, InterpretRcacheTrace PROVE ExecInv'
  OBVIOUS
<1>1. /\ command \in {"run", "called"} /\ CallsLeft /\ Called.structure = "vm_rcache_trace"
      /\ command' = "called" /\ UNCHANGED <<file, num_iterations, reports, res, bytecode>>
      /\ \/ command = "run" /\ RcacheTrace!Start
         \/ command = "called" /\ RcacheTrace!Step
  BY DEF InterpretRcacheTrace, Running, Advance
<1>2. Called' = Called
  BY <1>1 DEF Called
<1>3. Asked'
  <2>1. data' = data /\ rcache_data' = rcache_data
    BY DEF InterpretRcacheTrace, rcache
  <2>2. reports # <<>> => Ran(data)
    BY <1>1 DEF ExecInv, Asked
  <2>3. Len(reports) > 4 * num_iterations => Ran(rcache_data)
    BY <1>1 DEF ExecInv, Asked
  <2> QED
    BY <1>1, <1>2, <2>1, <2>2, <2>3 DEF Asked, Ran
<1>4. bytecode' \in Programs /\ RunsRcacheTrace'
  <2>1. CASE command = "run" /\ RcacheTrace!Start
    BY <2>1, CallRcacheTrace DEF RcacheTrace!Start
  <2>2. CASE command = "called" /\ RcacheTrace!Step
    <3>1. RunsRcacheTrace /\ bytecode \in Programs
      BY <1>1, <2>2 DEF ExecInv, Runs
    <3> QED
      BY <1>1, <2>2, <3>1, CallRcacheTrace
  <2> QED
    BY <1>1, <2>1, <2>2
<1>5. Runs'
  BY <1>1, <1>2, <1>4 DEF Runs
<1> QED
  BY <1>1, <1>4, <1>5, <1>3, StillCalled

-----------------------------------------------------------------------------
(* What the run_* functions say *)

(* An end of the program that is called, and what was there when it came. *)
LEMMA EndSeen ==
  ASSUME ExecInv, Report
  PROVE  /\ bytecode \in Programs /\ bytecode \in Seq(Instruction)
         /\ num_iterations \in Nat /\ Len(reports) \in Nat /\ CallsLeft
         /\ Ended(status, Own.result, Own.printed)
<1>1. command = "called" /\ status \in VM!Results
  BY DEF Report
<1>2. /\ bytecode \in Programs /\ CallsLeft /\ Runs /\ AllKnown(bytecode)
      /\ num_iterations \in Nat /\ Len(reports) \in Nat
  BY <1>1, ReportsLen DEF ExecInv
<1> SUFFICES Ended(status, Own.result, Own.printed)
  BY <1>2 DEF Programs
<1>3. CASE Called.structure = "vm"
  <2>1. RunsVM
    BY <1>2, <1>3 DEF Runs
  <2>2. Ended(status, data.result, data.printed)
    BY <1>1, <1>2, <2>1, CallVM
  <2>3. Own = data
    BY <1>3 DEF Own
  <2> QED
    BY <2>2, <2>3
<1>4. CASE Called.structure = "vm_trace"
  <2>1. RunsTrace
    BY <1>2, <1>4 DEF Runs
  <2>2. Ended(status, trace_data.result, trace_data.printed)
    BY <1>1, <1>2, <2>1, CallTrace
  <2>3. Own = trace_data
    BY <1>4 DEF Own
  <2> QED
    BY <2>2, <2>3
<1>5. CASE Called.structure = "vm_rcache"
  <2>1. RunsRcache
    BY <1>2, <1>5 DEF Runs
  <2>2. Ended(status, rcache_data.result, rcache_data.printed)
    BY <1>1, <1>2, <2>1, CallRcache
  <2>3. Own = rcache_data
    BY <1>5 DEF Own
  <2> QED
    BY <2>2, <2>3
<1>6. CASE Called.structure = "vm_rcache_trace"
  <2>1. RunsRcacheTrace
    BY <1>2, <1>6 DEF Runs
  <2>2. Ended(status, regs.result, regs.printed)
    BY <1>1, <1>2, <2>1, CallRcacheTrace
  <2>3. Own = regs
    BY <1>6 DEF Own
  <2> QED
    BY <2>2, <2>3
<1> QED
  BY <1>2, <1>3, <1>4, <1>5, <1>6, CalledCases

(* Every end of a program has its result. *)
LEMMA SameResult ==
  ASSUME bytecode \in Seq(Instruction), NEW f \in Path(bytecode), f.status \in VM!Results,
         NEW d, Ran(d)
  PROVE  f.data.result = d.result
<1>1. PICK g \in Path(bytecode) : g.status \in VM!Results /\ g.data.result = d.result
  BY DEF Ran
<1>2. f.status # "running" /\ g.status # "running"
  BY <1>1 DEF VM!Results
<1> QED
  BY <1>1, <1>2, OneEnd

(* The structure that is asked has the result of the one that ran. *)
LEMMA AskedOwn ==
  ASSUME ExecInv, Report, NEW f \in Path(bytecode),
         f.status = status, f.data.result = Own.result
  PROVE  get_result = Own.result
<1>1. /\ command = "called" /\ status \in VM!Results
      /\ bytecode \in Seq(Instruction) /\ num_iterations \in Nat /\ Len(reports) \in Nat
      /\ CallsLeft
  BY EndSeen DEF Report
<1>2. CASE Called.structure = "vm"
  BY <1>2 DEF get_result, Own
<1>3. CASE Called.structure = "vm_rcache"
  BY <1>3 DEF get_result, Own
<1>4. CASE /\ Called.structure = "vm_trace"
           /\ 3 * num_iterations <= Len(reports) /\ Len(reports) < 4 * num_iterations
  <2>1. num_iterations > 0 /\ reports # <<>>
    BY <1>1, <1>4, ReportsLen, CalledCases
  <2>2. Ran(data)
    BY <2>1, <1>4 DEF ExecInv, Asked
  <2>3. f.data.result = data.result
    BY <1>1, <2>2, SameResult
  <2> QED
    BY <2>3, <1>4 DEF get_result
<1>5. CASE Called.structure = "vm_rcache_trace" /\ 7 * num_iterations <= Len(reports)
  <2>1. num_iterations > 0
    BY <1>1, CalledCases
  <2>2. Len(reports) > 4 * num_iterations
    BY <1>1, <1>5, <2>1
  <2>3. Ran(rcache_data)
    BY <2>2, <1>5 DEF ExecInv, Asked
  <2>4. f.data.result = rcache_data.result
    BY <1>1, <2>3, SameResult
  <2> QED
    BY <2>4, <1>5 DEF get_result
<1> QED
  BY <1>1, <1>2, <1>3, <1>4, <1>5, CalledCases

(* A run_* function says how the program ends, whichever structure it asks. *)
LEMMA ExecReport == ExecInv /\ Report => ExecInv'
<1> SUFFICES ASSUME ExecInv, Report PROVE ExecInv'
  OBVIOUS
<1> DEFINE r == [engine |-> Called, error |-> status, value |-> get_result,
                 own |-> Own.result, printed |-> Own.printed]
<1>1. /\ command = "called" /\ command' = "run" /\ status \in VM!Results
      /\ reports' = Append(reports, r)
      /\ res' = IF status = "SUCCESS" THEN "EXIT_SUCCESS" ELSE "EXIT_FAILURE"
      /\ UNCHANGED <<file, num_iterations, bytecode, data, rcache_data>>
  BY DEF Report, rcache
<1>2. /\ bytecode \in Programs /\ bytecode \in Seq(Instruction)
      /\ num_iterations \in Nat /\ Len(reports) \in Nat /\ CallsLeft
  BY EndSeen
<1>3. PICK f \in Path(bytecode) :
        f.status = status /\ f.data.result = Own.result /\ f.data.printed = Own.printed
  BY EndSeen DEF Ended
<1>4. get_result = Own.result
  BY <1>3, AskedOwn
<1>5. Own.result \in Word /\ Own.printed \in Word
  <2>1. f \in Moments
    BY <1>2, PathContinued
  <2> QED
    BY <1>3, <2>1 DEF Moments, Data
<1>6. r \in Told(bytecode)
  <2>1. Called \in {Interpreters[i] : i \in DOMAIN Interpreters}
    BY <1>2, CalledCases
  <2> QED
    BY <1>1, <1>3, <1>4, <1>5, <2>1 DEF Told
<1> HIDE DEF r
<1>7. /\ reports' \in Seq(Told(bytecode')) /\ reports' # <<>>
      /\ Len(reports') = Len(reports) + 1 /\ reports'[Len(reports')] = r
  BY <1>1, <1>6 DEF ExecInv
<1>8. LastTold'
  <2>1. r.error = status
    BY DEF r
  <2> QED
    BY <1>1, <1>7, <2>1 DEF LastTold
<1>9. Asked'
  <2>1. Ran(data)
    <3>1. CASE Called.structure = "vm"
      BY <1>1, <1>3, <3>1 DEF Ran, Own
    <3>2. CASE Called.structure # "vm"
      <4>1. reports # <<>>
        BY <1>2, <3>2, CalledCases, ReportsLen
      <4> QED
        BY <3>2, <4>1 DEF ExecInv, Asked
    <3> QED
      BY <3>1, <3>2
  <2>2. Len(reports') > 4 * num_iterations => Ran(rcache_data)
    <3> SUFFICES ASSUME Len(reports') > 4 * num_iterations PROVE Ran(rcache_data)
      OBVIOUS
    <3>1. CASE Called.structure = "vm_rcache"
      BY <1>1, <1>3, <3>1 DEF Ran, Own
    <3>2. CASE Called.structure # "vm_rcache"
      <4>1. Len(reports) > 4 * num_iterations
        BY <1>2, <1>7, <3>2, CalledCases
      <4> QED
        BY <3>2, <4>1 DEF ExecInv, Asked
    <3> QED
      BY <3>1, <3>2
  <2> QED
    BY <1>1, <2>1, <2>2 DEF Asked, Ran
<1>10. AllKnown(bytecode') /\ file' \in Files /\ num_iterations' \in Nat
  BY <1>1 DEF ExecInv
<1> QED
  BY <1>1, <1>2, <1>7, <1>8, <1>9, <1>10 DEF ExecInv

(* main returns when every interpreter has had its iterations. *)
LEMMA ExecReturn == ExecInv /\ ReturnRes => ExecInv'
<1> SUFFICES ASSUME ExecInv, ReturnRes PROVE ExecInv'
  OBVIOUS
<1>1. /\ command = "run" /\ command' = "exited" /\ ~CallsLeft
      /\ UNCHANGED <<file, num_iterations, reports, res, bytecode, data, rcache_data>>
  BY DEF ReturnRes, rcache
<1>2. ~CallsLeft'
  BY <1>1 DEF CallsLeft
<1>3. Asked'
  <2>1. reports # <<>> => Ran(data)
    BY <1>1 DEF ExecInv, Asked
  <2>2. Len(reports) > 4 * num_iterations => Ran(rcache_data)
    BY <1>1 DEF ExecInv, Asked
  <2> QED
    BY <1>1, <2>1, <2>2 DEF Asked, Ran
<1>4. reports' # <<>> => LastTold'
  BY <1>1 DEF ExecInv, LastTold
<1> QED
  BY <1>1, <1>2, <1>3, <1>4 DEF ExecInv

(* Nothing happens by itself. *)
LEMMA ExecStutter == ExecInv /\ UNCHANGED vars => ExecInv'
<1> SUFFICES ASSUME ExecInv, UNCHANGED vars PROVE ExecInv'
  OBVIOUS
<1>1. /\ UNCHANGED <<file, num_iterations, command, reports, res, bytecode, status>>
      /\ UNCHANGED <<engine, ip, pc, trace_cache, mode, head, at, k>>
      /\ UNCHANGED <<data, trace_data, rcache_data, acc, array, saved_top, stack_top, regs>>
  BY DEF vars, commands, plain, rows, rcache, rcache_trace
<1>2. Called' = Called /\ (CallsLeft' <=> CallsLeft)
  BY <1>1 DEF Called, CallsLeft
<1>3. Asked'
  <2>1. (Ran(data)' <=> Ran(data)) /\ (Ran(rcache_data)' <=> Ran(rcache_data))
    BY <1>1 DEF Ran
  <2> QED
    BY <1>1, <1>2, <2>1 DEF ExecInv, Asked
<1>4. RunsVM => RunsVM'
  <2>1. UNCHANGED VP!vars
    BY <1>1 DEF VP!vars
  <2> QED
    BY <2>1, SamePrograms, ISAAssumption, VP!TypeStep, VP!PathStep DEF RunsVM
<1>5. RunsTrace => RunsTrace'
  <2>1. UNCHANGED TP!vars
    BY <1>1 DEF TP!vars
  <2> QED
    BY <2>1, SamePrograms, ISAAssumption, TP!InvStep, TP!PathStep DEF RunsTrace
<1>6. RunsRcache => RunsRcache'
  <2>1. UNCHANGED RP!vars
    BY <1>1 DEF RP!vars
  <2>2. RP!Registers => RP!Registers'
    BY <2>1, SamePrograms, ISAAssumption, RP!RegistersStep
  <2>3. RP!here' = RP!here
    BY <1>1 DEF RP!here, RP!Seen
  <2> QED
    BY <1>1, <2>2, <2>3 DEF RunsRcache
<1>7. RunsRcacheTrace => RunsRcacheTrace'
  <2>1. UNCHANGED RTP!vars
    BY <1>1 DEF RTP!vars, RTP!cache, RTP!stacks
  <2>2. RTP!RowsAssumption
    BY SamePrograms DEF RTP!RowsAssumption
  <2> QED
    BY <2>1, <2>2, ISAAssumption, RTP!InvStep, RTP!PathStep DEF RunsRcacheTrace
<1>8. Runs => Runs'
  BY <1>2, <1>4, <1>5, <1>6, <1>7 DEF Runs
<1>9. LastTold => LastTold'
  BY <1>1 DEF LastTold
<1> QED
  BY <1>1, <1>2, <1>3, <1>8, <1>9 DEF ExecInv

(* Whatever the commands do next, the reports stay true. *)
LEMMA ExecStep == ExecInv /\ [Next]_vars => ExecInv'
  BY ExecAsm, ExecAsmFails, ExecVM, ExecTrace, ExecRcache, ExecRcacheTrace, ExecReport,
     ExecReturn, ExecStutter DEF Next, RunCommand

-----------------------------------------------------------------------------
(* What the commands promise *)

(* What has been said of a program is what is true of its end. *)
LEMMA InvAgree == ExecInv => EnginesAgree /\ ReportsOwn /\ ExitStatusTells
<1> SUFFICES ASSUME ExecInv PROVE EnginesAgree /\ ReportsOwn /\ ExitStatusTells
  OBVIOUS
<1>1. \A i \in DOMAIN reports : reports[i] \in Told(bytecode)
  BY DEF ExecInv
<1>2. ASSUME NEW i \in DOMAIN reports, NEW j \in DOMAIN reports
      PROVE  /\ reports[i].error = reports[j].error
             /\ reports[i].printed = reports[j].printed
             /\ reports[i].value = reports[j].value
             /\ reports[i].value = reports[i].own
  <2>1. bytecode \in Seq(Instruction)
    BY DEF ExecInv, Programs
  <2>2. reports[i] \in Told(bytecode) /\ reports[j] \in Told(bytecode)
    BY <1>1
  <2>3. PICK f \in Path(bytecode) :
          /\ f.status = reports[i].error /\ f.data.result = reports[i].own
          /\ f.data.printed = reports[i].printed
    BY <2>2 DEF Told
  <2>4. PICK g \in Path(bytecode) :
          /\ g.status = reports[j].error /\ g.data.result = reports[j].own
          /\ g.data.printed = reports[j].printed
    BY <2>2 DEF Told
  <2>5. f.status # "running" /\ g.status # "running"
    BY <2>2, <2>3, <2>4 DEF Told, VM!Results
  <2>6. f = g
    BY <2>1, <2>5, OneEnd
  <2> QED
    BY <2>2, <2>3, <2>4, <2>6 DEF Told
<1>3. EnginesAgree
  BY <1>2 DEF EnginesAgree
<1>4. ReportsOwn
  BY <1>2 DEF ReportsOwn
<1>5. ExitStatusTells
  <2> SUFFICES ASSUME command = "exited", num_iterations > 0
               PROVE  res = "EXIT_SUCCESS" <=>
                        /\ reports # <<>>
                        /\ \A i \in DOMAIN reports : reports[i].error = "SUCCESS"
    BY DEF ExitStatusTells
  <2>1. CASE reports = <<>>
    <3>1. CallsLeft
      <4>1. Len(Interpreters) = 8 /\ Len(reports) = 0 /\ num_iterations \in Nat
        BY <2>1 DEF Interpreters, ExecInv
      <4> QED
        BY <4>1 DEF CallsLeft
    <3> QED
      BY <2>1, <3>1 DEF ExecInv
  <2>2. CASE reports # <<>>
    <3>1. LastTold
      BY <2>2 DEF ExecInv
    <3>2. Len(reports) \in DOMAIN reports
      BY <2>2 DEF ExecInv
    <3> QED
      BY <2>2, <3>1, <3>2, <1>2 DEF LastTold
  <2> QED
    BY <2>1, <2>2
<1> QED
  BY <1>3, <1>4, <1>5

(* ExecInv holds throughout the commands. *)
LEMMA ExecAlways == Spec => []ExecInv
  BY ExecInit, ExecStep, PTL DEF Spec

(* With the memory of pigletvm-exec.c, what the commands pass to the           *)
(* interpreters is a program that these are defined for.                       *)
THEOREM CommandsRunPrograms ==
  ASSUME MemorySize = 65536
  PROVE  Spec => [](command \in {"run", "called"} => bytecode \in Programs)
<1> DEFINE Given == command \in {"run", "called"} => bytecode \in Programs
<1>1. Address = ATP!V!Address
  BY DEF Address, ATP!V!Address
<1>2. Init => Given
  BY DEF Init
<1>3. ExecInv /\ Given /\ [Next]_vars => Given'
  <2> SUFFICES ASSUME ExecInv, Given, [Next]_vars PROVE Given'
    OBVIOUS
  <2>1. CASE AsmCommand
    <3>1. /\ file \in Files /\ File!Assembles(File!Lines(file))
          /\ bytecode' = Load(Assemble(file))
      BY <2>1 DEF AsmCommand, ExecInv
    <3>2. Programs' = Programs
      BY DEF Programs
    <3> QED
      BY <1>1, <3>1, <3>2, AssembledRuns
  <2>2. CASE AsmFails \/ ReturnRes
    BY <2>2 DEF AsmFails, ReturnRes
  <2>3. CASE InterpretVM \/ InterpretTrace \/ InterpretRcache \/ InterpretRcacheTrace
    BY <2>3 DEF InterpretVM, InterpretTrace, InterpretRcache, InterpretRcacheTrace, Advance, Running
  <2>4. CASE Report
    BY <2>4 DEF Report
  <2>5. CASE UNCHANGED vars
    BY <2>5 DEF vars, commands
  <2> QED
    BY <2>1, <2>2, <2>3, <2>4, <2>5 DEF Next, RunCommand
<1> QED
  BY <1>2, <1>3, ExecAlways, PTL DEF Spec

(* For files whose numeric addresses are offsets of instructions, the commands *)
(* run_* of pigletvm-exec.c show the same error, output and value for all of   *)
(* the eight interpreters, in each of their iterations.                        *)
THEOREM SayTheSame == Spec => []EnginesAgree
  BY ExecAlways, InvAgree, PTL

(* The value shown is the one of the interpreter that ran, although run_* asks *)
(* vm for the result of vm_trace, and vm_rcache for that of vm_rcache_trace.  *)
THEOREM SayTheirOwn == Spec => []ReportsOwn
  BY ExecAlways, InvAgree, PTL

(* main's res, overwritten by each run, tells of all of them.                *)
THEOREM StatusOfAll == Spec => []ExitStatusTells
  BY ExecAlways, InvAgree, PTL

=============================================================================
