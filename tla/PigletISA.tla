------------------------------ MODULE PigletISA ------------------------------
(***************************************************************************)
(* The instruction set of PigletVM (pigletvm.h): what one instruction does  *)
(* to the stack, the memory, the result register and the printed output.    *)
(*                                                                          *)
(* Code is a sequence of decoded instructions and an address is the number  *)
(* of instructions before it; the byte layout belongs to the assembler.     *)
(* A stack is the sequence of its live cells.  Words are uint64_t and       *)
(* immediates, like memory addresses, uint16_t.                             *)
(***************************************************************************)
EXTENDS Naturals, Sequences

CONSTANTS
  WordMod,     \* 2^64
  MemorySize,  \* MEMORY_SIZE = 2^16, also the modulus of an address
  StackMax     \* STACK_MAX

ASSUME ISAAssumption ==
  /\ WordMod \in Nat /\ MemorySize \in Nat \ {0} /\ StackMax \in Nat
  /\ 1 < WordMod /\ MemorySize <= WordMod

Word == 0 .. WordMod - 1
Address == 0 .. MemorySize - 1

(* What an instruction does with the stack. *)
PushOps == {"PUSHI", "LOADI", "DUP"}
TopOps == {"LOADADDI", "LOAD", "ADDI", "GREATER_OR_EQUALI"}
BinaryOps == {"ADD", "SUB", "DIV", "MUL", "EQUAL", "LESS", "LESS_OR_EQUAL",
              "GREATER", "GREATER_OR_EQUAL"}
PopOps == {"STOREI", "DISCARD", "POP_RES", "PRINT"}
DataOps == PushOps \cup TopOps \cup BinaryOps \cup PopOps \cup {"STORE"}

BranchOps == {"JUMP_IF_TRUE", "JUMP_IF_FALSE"}
FinalOps == {"DONE", "ABORT"}

(* UNKNOWN stands for the opcodes 26 to 31. *)
Ops == DataOps \cup BranchOps \cup FinalOps \cup {"JUMP", "UNKNOWN"}

(* high: one of the bits above the five the switch without range check reads. *)
Instruction == [op : Ops, arg : Address, high : BOOLEAN]

Op(op) == [op |-> op, arg |-> 0, high |-> FALSE]
OpArg(op, arg) == [op |-> op, arg |-> arg, high |-> FALSE]

(* Behind the code lies a zero byte, OP_ABORT. *)
At(code, ip) == IF ip < Len(code) THEN code[ip + 1] ELSE Op("ABORT")

Addresses(code) == 0 .. Len(code)

WellFormed(code) ==
  /\ code \in Seq(Instruction)
  /\ \A i \in 1 .. Len(code) :
       code[i].op \in {"JUMP"} \cup BranchOps => code[i].arg \in Addresses(code)

-----------------------------------------------------------------------------
Data == [stack : Seq(Word), memory : [Address -> Word], result : Word, printed : Word]

(* vm_reset; "printed" is the last value printed, 0 before any. *)
Zeroed == [stack |-> <<>>, memory |-> [a \in Address |-> 0], result |-> 0, printed |-> 0]

Top(stack) == stack[Len(stack)]
Below(stack) == stack[Len(stack) - 1]
Drop(stack, n) == SubSeq(stack, 1, Len(stack) - n)

Bool(b) == IF b THEN 1 ELSE 0

(* Subtraction in the integers, not modulo 2^64. *)
Binary_Signed(op, left, right) ==
  CASE op \in {"ADD", "ADDI", "LOADADDI"} -> (left + right) % WordMod
    [] op = "SUB" -> 0 - right + left
    [] OTHER -> IF right = 0 THEN 0 ELSE 1

(* Two operands; DIV by zero is not executed. *)
Binary(op, left, right) ==
  CASE op \in {"ADD", "ADDI", "LOADADDI"} -> (left + right) % WordMod
    [] op = "SUB" -> (left + WordMod - right) % WordMod
    [] op = "MUL" -> (left * right) % WordMod
    [] op = "DIV" -> IF right = 0 THEN 0 ELSE left \div right
    [] op = "EQUAL" -> Bool(left = right)
    [] op = "LESS" -> Bool(left < right)
    [] op = "LESS_OR_EQUAL" -> Bool(left <= right)
    [] op = "GREATER" -> Bool(left > right)
    [] OTHER -> Bool(left >= right)

(* The value that PUSHI, LOADI and DUP push, and the one that LOAD, LOADADDI, *)
(* ADDI and GREATER_OR_EQUALI put in place of the top.                        *)
Pushed(i, memory, top) ==
  CASE i.op = "PUSHI" -> i.arg
    [] i.op = "LOADI" -> memory[i.arg]
    [] OTHER          -> top

Replaced(i, memory, top) ==
  CASE i.op = "LOAD"     -> memory[top % MemorySize]
    [] i.op = "LOADADDI" -> Binary(i.op, top, memory[i.arg])
    [] OTHER             -> Binary(i.op, top, i.arg)

StackAfter(i, stack, memory) ==
  CASE i.op \in PushOps   -> Append(stack, Pushed(i, memory, Top(stack)))
    [] i.op \in TopOps    -> Append(Drop(stack, 1), Replaced(i, memory, Top(stack)))
    [] i.op \in BinaryOps -> Append(Drop(stack, 2), Binary(i.op, Below(stack), Top(stack)))
    [] i.op = "STORE"     -> Drop(stack, 2)
    [] OTHER              -> Drop(stack, 1)

(* Where the popped values go. *)
Stored(i, d, top, below) ==
  [stack   |-> d.stack,
   memory  |-> CASE i.op = "STOREI" -> [d.memory EXCEPT ![i.arg] = top]
                 [] i.op = "STORE"  -> [d.memory EXCEPT ![below % MemorySize] = top]
                 [] OTHER           -> d.memory,
   result  |-> IF i.op = "POP_RES" THEN top ELSE d.result,
   printed |-> IF i.op = "PRINT" THEN top ELSE d.printed]

(* An instruction of DataOps on the data. *)
Effect(i, d) ==
  [Stored(i, d, Top(d.stack), Below(d.stack)) EXCEPT !.stack = StackAfter(i, @, d.memory)]

Popped(d) == [d EXCEPT !.stack = Drop(@, 1)]

(* DIV pops its divisor before it looks at it. *)
DividesByZero(i, top) == i.op = "DIV" /\ top = 0

Taken(i, top) == IF i.op = "JUMP_IF_TRUE" THEN top # 0 ELSE top = 0

(* How many operands an instruction takes from the stack, and what depth it leaves. *)
Needs(i) ==
  CASE i.op \in BinaryOps \cup {"STORE"}                -> 2
    [] i.op \in TopOps \cup PopOps \cup BranchOps \cup {"DUP"} -> 1
    [] OTHER                                            -> 0

DepthAfter(i, depth) ==
  CASE i.op \in PushOps                           -> depth + 1
    [] i.op \in BinaryOps \cup PopOps \cup BranchOps -> depth - 1
    [] i.op = "STORE"                             -> depth - 2
    [] OTHER                                      -> depth

(* The operands are there and there is room for what is pushed. *)
Fits(i, depth) == Needs(i) <= depth /\ DepthAfter(i, depth) <= StackMax

-----------------------------------------------------------------------------
(* Programs that keep to the stack.  The VM checks neither end of its stack   *)
(* array, so this is what it relies on.                                       *)
NextAddresses(i, ip) ==
  CASE i.op \in FinalOps  -> {}
    [] i.op = "JUMP"      -> {i.arg}
    [] i.op \in BranchOps -> {ip + 1, i.arg}
    [] OTHER              -> {ip + 1}

(* The <<address, depth>> pairs control can reach from the pair p. *)
Flow(code, p) ==
  LET i == At(code, p[1])
  IN  IF Fits(i, p[2])
        THEN {<<a, DepthAfter(i, p[2])>> : a \in NextAddresses(i, p[1])}
        ELSE {}

Reached(code) ==
  LET spread[n \in Nat, pairs \in SUBSET (Nat \X Nat)] ==
        IF n = 0 THEN pairs
        ELSE spread[n - 1, pairs \cup UNION {Flow(code, p) : p \in pairs}]
  IN  spread[(Len(code) + 1) * (StackMax + 1), {<<0, 0>>}]

Jumps(code) == {a \in Addresses(code) : At(code, a).op = "JUMP"}

(* A set of JUMPs that one does not leave by following them from an address. *)
Closed(code, from, S) ==
  /\ from \in Jumps(code) => from \in S
  /\ \A a \in S : At(code, a).arg \in Jumps(code) => At(code, a).arg \in S

(* The JUMPs that are followed from an address: the smallest such set. *)
JumpsFrom(code, from) ==
  {a \in Jumps(code) : \A S \in SUBSET Jumps(code) : Closed(code, from, S) => a \in S}

(* The first instruction other than a JUMP on the way from an address; the    *)
(* address behind the program's end for a way of JUMPs only, which never ends. *)
Settle(code, from) ==
  LET landings == {At(code, a).arg : a \in JumpsFrom(code, from)} \ Jumps(code)
  IN  IF At(code, from).op # "JUMP" THEN from
      ELSE IF landings = {} THEN Len(code) + 1 ELSE CHOOSE a \in landings : TRUE

Known(i) == i.op # "UNKNOWN" /\ ~i.high

Disciplined(code) ==
  LET pairs == Reached(code)
  IN  /\ <<0, 0>> \in pairs
      /\ \A p \in pairs : /\ Known(At(code, p[1]))
                          /\ Fits(At(code, p[1]), p[2])
                          /\ Flow(code, p) \subseteq pairs

=============================================================================
