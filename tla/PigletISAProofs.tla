--------------------------- MODULE PigletISAProofs --------------------------
(***************************************************************************)
(* Facts about the instruction set: what an instruction leaves behind, and  *)
(* where jumps lead, for every word, memory and stack size.                 *)
(***************************************************************************)
EXTENDS PigletISA, TLAPS

-----------------------------------------------------------------------------
(* Facts about words and instructions. *)

(* Arithmetic modulo 2^64 stays in uint64_t. *)
LEMMA Modulo ==
  ASSUME NEW m \in Nat \ {0}, NEW x \in Nat
  PROVE  x % m \in 0 .. m - 1
  OBVIOUS

(* A quotient is no larger than the dividend. *)
LEMMA Quotient ==
  ASSUME NEW x \in Nat, NEW y \in Nat \ {0}
  PROVE  x \div y \in 0 .. x
  OBVIOUS

(* A product before it is truncated. *)
LEMMA ProductNat ==
  ASSUME NEW x \in Nat, NEW y \in Nat
  PROVE  x * y \in Nat
  OBVIOUS

(* The result of an operation is a uint64_t. *)
LEMMA BinaryInWord ==
  ASSUME NEW op, NEW l \in Word, NEW r \in Word
  PROVE  Binary(op, l, r) \in Word
<1> USE ISAAssumption
<1>1. l \in Nat /\ r \in Nat /\ WordMod \in Nat \ {0} /\ l + WordMod - r \in Nat
  BY DEF Word
<1>2. /\ (l + r) % WordMod \in Word
      /\ (l + WordMod - r) % WordMod \in Word
  BY <1>1, Modulo DEF Word
<1>3. (l * r) % WordMod \in Word
  BY <1>1, Modulo, ProductNat DEF Word
<1>4. r # 0 => l \div r \in Word
  <2>1. r # 0 => l \div r \in 0 .. l
    BY <1>1, Quotient
  <2> QED
    BY <2>1, <1>1 DEF Word
<1>5. /\ 0 \in Word
      /\ \A b : Bool(b) \in Word
  BY DEF Word, Bool
<1> QED
  BY <1>2, <1>3, <1>4, <1>5 DEF Binary

(* The uint16_t that LOAD and STORE make of an address indexes the memory. *)
LEMMA Truncated ==
  ASSUME NEW w \in Word
  PROVE  w % MemorySize \in Address
<1>1. w \in Nat
  BY ISAAssumption DEF Word
<1> QED
  BY <1>1, Modulo, ISAAssumption DEF Address

(* Nothing but an ABORT lies behind the code. *)
LEMMA AtInside ==
  ASSUME NEW code \in Seq(Instruction), NEW a \in Addresses(code)
  PROVE  /\ At(code, a) \in Instruction
         /\ At(code, a).op # "ABORT" \/ At(code, a).high => a + 1 \in Addresses(code)
<1>1. CASE a < Len(code)
  <2>1. a + 1 \in 1 .. Len(code) /\ At(code, a) = code[a + 1]
    BY <1>1 DEF At, Addresses
  <2> QED
    BY <2>1 DEF Addresses
<1>2. CASE a = Len(code)
  <2>1. At(code, a) = [op |-> "ABORT", arg |-> 0, high |-> FALSE]
    BY <1>2 DEF At, Op
  <2>2. 0 \in Address
    BY ISAAssumption DEF Address
  <2> QED
    BY <2>1, <2>2 DEF Instruction, Ops, FinalOps
<1> QED
  BY <1>1, <1>2 DEF Addresses

(* A branch leads into the code. *)
LEMMA TargetInside ==
  ASSUME NEW code, WellFormed(code), NEW a \in Addresses(code),
         At(code, a).op \in {"JUMP"} \cup BranchOps
  PROVE  At(code, a).arg \in Addresses(code)
<1>1. a < Len(code) /\ a + 1 \in 1 .. Len(code)
  BY DEF At, Op, BranchOps, Addresses, WellFormed
<1> QED
  BY <1>1 DEF At, WellFormed

-----------------------------------------------------------------------------
(* What an instruction leaves on the stack. *)

(* POP, once or several times. *)
LEMMA Dropped ==
  ASSUME NEW s \in Seq(Word), NEW n \in 0 .. Len(s)
  PROVE  Drop(s, n) \in Seq(Word) /\ Len(Drop(s, n)) = Len(s) - n
  BY DEF Drop

(* PEEK reads a word. *)
LEMMA TopsInWord ==
  ASSUME NEW s \in Seq(Word)
  PROVE  /\ Len(s) >= 1 => Top(s) \in Word
         /\ Len(s) >= 2 => Below(s) \in Word
  BY DEF Top, Below

(* The value an instruction pushes. *)
LEMMA PushedInWord ==
  ASSUME NEW i \in Instruction, i.op \in PushOps, NEW memory \in [Address -> Word],
         NEW top, i.op = "DUP" => top \in Word
  PROVE  Pushed(i, memory, top) \in Word
<1>1. i.arg \in Address /\ Address \subseteq Word
  BY ISAAssumption DEF Instruction, Address, Word
<1>2. memory[i.arg] \in Word
  BY <1>1
<1> QED
  BY <1>1, <1>2 DEF Pushed, PushOps

(* The value an instruction puts in place of the top. *)
LEMMA ReplacedInWord ==
  ASSUME NEW i \in Instruction, NEW memory \in [Address -> Word], NEW top \in Word
  PROVE  Replaced(i, memory, top) \in Word
<1>1. i.arg \in Address /\ Address \subseteq Word
  BY ISAAssumption DEF Instruction, Address, Word
<1>2. top % MemorySize \in Address
  BY Truncated
<1>3. memory[i.arg] \in Word /\ memory[top % MemorySize] \in Word
  BY <1>1, <1>2
<1>4. Binary(i.op, top, memory[i.arg]) \in Word /\ Binary(i.op, top, i.arg) \in Word
  BY <1>1, <1>3, BinaryInWord
<1> QED
  BY <1>3, <1>4 DEF Replaced

(* The stack after an instruction holds words, as many as DepthAfter says. *)
LEMMA StackAfterDepth ==
  ASSUME NEW i \in Instruction, i.op \in DataOps, NEW d \in Data, Fits(i, Len(d.stack))
  PROVE  /\ StackAfter(i, d.stack, d.memory) \in Seq(Word)
         /\ Len(StackAfter(i, d.stack, d.memory)) = DepthAfter(i, Len(d.stack))
<1> DEFINE s == d.stack
<1>1. s \in Seq(Word) /\ d.memory \in [Address -> Word] /\ Len(s) \in Nat /\ i.arg \in Address
  BY DEF Data, Instruction
<1>3. CASE i.op \in PushOps
  <2>1. Pushed(i, d.memory, Top(s)) \in Word
    <3>1. i.op = "DUP" => Len(s) >= 1
      BY <1>1 DEF Fits, Needs, BinaryOps, TopOps, PopOps, BranchOps
    <3>2. i.op = "DUP" => Top(s) \in Word
      BY <3>1, <1>1, TopsInWord
    <3> QED
      BY <3>2, <1>1, <1>3, PushedInWord
  <2>2. StackAfter(i, s, d.memory) = Append(s, Pushed(i, d.memory, Top(s)))
    BY <1>3 DEF StackAfter, PushOps, TopOps, BinaryOps
  <2>3. DepthAfter(i, Len(s)) = Len(s) + 1
    BY <1>3 DEF DepthAfter, PushOps, BinaryOps, PopOps, BranchOps
  <2> HIDE DEF s
  <2> QED
    BY <2>1, <2>2, <2>3, <1>1 DEF s
<1>4. CASE i.op \in TopOps
  <2>1. Len(s) >= 1
    BY <1>4, <1>1 DEF Fits, Needs, BinaryOps, TopOps, PopOps, BranchOps
  <2>2. Top(s) \in Word
    BY <2>1, <1>1, TopsInWord
  <2>3. Replaced(i, d.memory, Top(s)) \in Word
    BY <2>2, <1>1, ReplacedInWord
  <2>4. StackAfter(i, s, d.memory) = Append(Drop(s, 1), Replaced(i, d.memory, Top(s)))
    BY <1>4 DEF StackAfter, TopOps, PushOps, BinaryOps
  <2>5. DepthAfter(i, Len(s)) = Len(s)
    BY <1>4 DEF DepthAfter, TopOps, PushOps, BinaryOps, PopOps, BranchOps
  <2>6. Drop(s, 1) \in Seq(Word) /\ Len(Drop(s, 1)) = Len(s) - 1
    BY <2>1, <1>1, Dropped
  <2> QED
    BY <2>3, <2>4, <2>5, <2>6, <1>1
<1>5. CASE i.op \in BinaryOps
  <2>1. Len(s) >= 2
    BY <1>5, <1>1 DEF Fits, Needs, BinaryOps, TopOps, PopOps, BranchOps
  <2>2. Binary(i.op, Below(s), Top(s)) \in Word
    BY <2>1, <1>1, TopsInWord, BinaryInWord
  <2>3. StackAfter(i, s, d.memory) = Append(Drop(s, 2), Binary(i.op, Below(s), Top(s)))
    BY <1>5 DEF StackAfter, TopOps, PushOps, BinaryOps
  <2>4. DepthAfter(i, Len(s)) = Len(s) - 1
    BY <1>5 DEF DepthAfter, PushOps, BinaryOps
  <2>5. 2 \in 0 .. Len(s) /\ s \in Seq(Word)
    BY <2>1, <1>1
  <2>6. Drop(s, 2) \in Seq(Word) /\ Len(Drop(s, 2)) = Len(s) - 2
    BY ONLY <2>5, Dropped
  <2> QED
    BY <2>2, <2>3, <2>4, <2>6, <1>1
<1>6. CASE i.op = "STORE"
  <2>1. Len(s) >= 2
    BY <1>6, <1>1 DEF Fits, Needs, BinaryOps, TopOps, PopOps, BranchOps
  <2>2. StackAfter(i, s, d.memory) = Drop(s, 2) /\ DepthAfter(i, Len(s)) = Len(s) - 2
    BY <1>6 DEF StackAfter, DepthAfter, TopOps, PushOps, BinaryOps, PopOps, BranchOps
  <2> QED
    BY <2>1, <2>2, <1>1, Dropped
<1>7. CASE i.op \in PopOps
  <2>1. Len(s) >= 1
    BY <1>7, <1>1 DEF Fits, Needs, BinaryOps, TopOps, PopOps, BranchOps
  <2>2. StackAfter(i, s, d.memory) = Drop(s, 1) /\ DepthAfter(i, Len(s)) = Len(s) - 1
    BY <1>7 DEF StackAfter, DepthAfter, TopOps, PushOps, BinaryOps, PopOps, BranchOps
  <2> QED
    BY <2>1, <2>2, <1>1, Dropped
<1> QED
  BY <1>3, <1>4, <1>5, <1>6, <1>7 DEF DataOps

(* An instruction leaves words in the memory and the registers. *)
LEMMA StoredInData ==
  ASSUME NEW i \in Instruction, NEW d \in Data, NEW top, NEW below,
         i.op \in PopOps \cup {"STORE"} => top \in Word,
         i.op = "STORE" => below \in Word
  PROVE  /\ Stored(i, d, top, below) \in Data
         /\ Stored(i, d, top, below).stack = d.stack
<1> DEFINE m == CASE i.op = "STOREI" -> [d.memory EXCEPT ![i.arg] = top]
                  [] i.op = "STORE"  -> [d.memory EXCEPT ![below % MemorySize] = top]
                  [] OTHER           -> d.memory
           r == IF i.op = "POP_RES" THEN top ELSE d.result
           p == IF i.op = "PRINT" THEN top ELSE d.printed
<1>1. d = [stack |-> d.stack, memory |-> d.memory, result |-> d.result, printed |-> d.printed]
      /\ d.stack \in Seq(Word) /\ d.memory \in [Address -> Word]
      /\ d.result \in Word /\ d.printed \in Word
  BY DEF Data
<1>2. m \in [Address -> Word]
  <2>1. CASE i.op = "STOREI"
    BY <2>1, <1>1 DEF PopOps
  <2>2. CASE i.op = "STORE"
    <3>1. below % MemorySize \in Address
      BY <2>2, Truncated
    <3> QED
      BY <3>1, <2>2, <1>1
  <2> QED
    BY <2>1, <2>2, <1>1
<1>3. r \in Word /\ p \in Word
  BY <1>1 DEF PopOps
<1>4. Stored(i, d, top, below) = [stack |-> d.stack, memory |-> m, result |-> r, printed |-> p]
  BY <1>1 DEF Stored
<1> QED
  BY <1>1, <1>2, <1>3, <1>4 DEF Data

(* Stack, memory and registers after an instruction that has its operands. *)
LEMMA EffectInData ==
  ASSUME NEW i \in Instruction, i.op \in DataOps, NEW d \in Data, Fits(i, Len(d.stack))
  PROVE  /\ Effect(i, d) \in Data
         /\ Len(Effect(i, d).stack) = DepthAfter(i, Len(d.stack))
<1> DEFINE e == Stored(i, d, Top(d.stack), Below(d.stack))
           s == StackAfter(i, d.stack, d.memory)
<1>1. d.stack \in Seq(Word) /\ Len(d.stack) \in Nat
  BY DEF Data
<1>2. i.op \in PopOps \cup {"STORE"} => Top(d.stack) \in Word
  BY <1>1, TopsInWord DEF Fits, Needs, BinaryOps, TopOps, PopOps, BranchOps
<1>3. i.op = "STORE" => Below(d.stack) \in Word
  BY <1>1, TopsInWord DEF Fits, Needs, BinaryOps, TopOps, PopOps, BranchOps
<1>4. e \in Data /\ e.stack = d.stack
  BY <1>2, <1>3, StoredInData
<1>5. s \in Seq(Word) /\ Len(s) = DepthAfter(i, Len(d.stack))
  BY StackAfterDepth
<1>6. Effect(i, d) = [e EXCEPT !.stack = s]
  BY <1>4 DEF Effect
<1> HIDE DEF e, s
<1> QED
  BY <1>4, <1>5, <1>6 DEF Data

(* A POP whose value is only looked at. *)
LEMMA PoppedInData ==
  ASSUME NEW d \in Data, Len(d.stack) >= 1
  PROVE  Popped(d) \in Data /\ Len(Popped(d).stack) = Len(d.stack) - 1
<1>1. d.stack \in Seq(Word)
  BY DEF Data
<1>2. Drop(d.stack, 1) \in Seq(Word) /\ Len(Drop(d.stack, 1)) = Len(d.stack) - 1
  BY <1>1, Dropped
<1> QED
  BY <1>2 DEF Popped, Data

(* vm_reset leaves an empty stack and zeroes. *)
LEMMA ZeroedInData == Zeroed \in Data /\ Zeroed.stack = <<>>
<1>1. 0 \in Word
  BY ISAAssumption DEF Word
<1> QED
  BY <1>1 DEF Zeroed, Data

-----------------------------------------------------------------------------
(* Where jumps lead. *)

(* An instruction other than a JUMP is where control is. *)
LEMMA SettleHere ==
  ASSUME NEW code, NEW a, At(code, a).op # "JUMP"
  PROVE  Settle(code, a) = a
  BY DEF Settle

(* The target of a JUMP is followed to where the JUMP itself is. *)
LEMMA SettleJump ==
  ASSUME NEW code, WellFormed(code), NEW a \in Addresses(code), At(code, a).op = "JUMP"
  PROVE  Settle(code, a) = Settle(code, At(code, a).arg)
<1> DEFINE t == At(code, a).arg
           J == Jumps(code)
           landings(from) == {At(code, b).arg : b \in JumpsFrom(code, from)} \ J
<1>1. t \in Addresses(code) /\ a \in J
  BY TargetInside DEF Jumps
<1>2. a \in JumpsFrom(code, a)
  BY <1>1 DEF JumpsFrom, Closed
<1>3. CASE t \notin J
  <2>1. JumpsFrom(code, a) = {a}
    <3>1. Closed(code, a, {a})
      BY <1>3 DEF Closed
    <3>2. {a} \in SUBSET J
      BY <1>1
    <3> QED
      BY <1>2, <3>1, <3>2 DEF JumpsFrom
  <2>2. landings(a) = {t}
    BY <2>1, <1>3
  <2>3. At(code, t).op # "JUMP"
    BY <1>1, <1>3 DEF Jumps
  <2>4. Settle(code, a) = CHOOSE b \in {t} : TRUE
    BY <2>2 DEF Settle
  <2> QED
    BY <2>3, <2>4, SettleHere
<1>4. CASE t \in J
  <2>1. JumpsFrom(code, t) \subseteq JumpsFrom(code, a)
    <3>1. \A S : Closed(code, a, S) => Closed(code, t, S)
      BY <1>1, <1>4 DEF Closed
    <3> QED
      BY <3>1 DEF JumpsFrom
  <2>2. JumpsFrom(code, a) \subseteq {a} \cup JumpsFrom(code, t)
    <3>1. SUFFICES ASSUME NEW x \in JumpsFrom(code, a), x # a,
                          NEW S \in SUBSET J, Closed(code, t, S)
                   PROVE  x \in S
      BY DEF JumpsFrom
    <3>2. t \in S
      BY <3>1, <1>4 DEF Closed
    <3>3. Closed(code, a, S \cup {a})
      BY <3>1, <3>2 DEF Closed
    <3>4. S \cup {a} \in SUBSET J
      BY <1>1
    <3> QED
      BY <3>1, <3>3, <3>4 DEF JumpsFrom
  <2>3. landings(a) = landings(t)
    BY <2>1, <2>2, <1>4
  <2>4. At(code, t).op = "JUMP"
    BY <1>4 DEF Jumps
  <2> QED
    BY <2>3, <2>4 DEF Settle
<1> QED
  BY <1>3, <1>4

-----------------------------------------------------------------------------
(* The one way a program can go.  A moment of a run is the next instruction   *)
(* other than a JUMP, the data, and how the run stands.                       *)
Moment(ip, data, status) == [ip |-> ip, data |-> data, status |-> status]

Ends == {"SUCCESS", "ERROR_DIVISION_BY_ZERO", "ERROR_END_OF_STREAM", "UNDEFINED"}

Moments == [ip : Nat, data : Data, status : {"running"} \cup Ends]

Begin(code) == Moment(Settle(code, 0), Zeroed, "running")

(* What the instruction whose turn it is makes of a moment. *)
After(code, m) ==
  LET i == At(code, m.ip)
      top == Top(m.data.stack)
  IN  IF i.op \in FinalOps
        THEN Moment(m.ip, m.data, IF i.op = "DONE" THEN "SUCCESS" ELSE "ERROR_END_OF_STREAM")
      ELSE IF i.op \notin DataOps \cup BranchOps \/ ~Fits(i, Len(m.data.stack))
        THEN Moment(m.ip, m.data, "UNDEFINED")
      ELSE IF DividesByZero(i, top)
        THEN Moment(m.ip, Popped(m.data), "ERROR_DIVISION_BY_ZERO")
      ELSE IF i.op \in BranchOps
        THEN Moment(Settle(code, IF Taken(i, top) THEN i.arg ELSE m.ip + 1), Popped(m.data), "running")
      ELSE Moment(Settle(code, m.ip + 1), Effect(i, m.data), "running")

(* A set of moments that a run does not leave. *)
Continued(code, S) == \A m \in S : m.status = "running" => After(code, m) \in S

(* The moments that come after m, and m itself: the smallest such set. *)
From(code, m) ==
  {t \in Moments : \A S \in SUBSET Moments : m \in S /\ Continued(code, S) => t \in S}

Path(code) == From(code, Begin(code))

(* What the assembler emits. *)
AllKnown(code) == \A i \in 1 .. Len(code) : Known(code[i])

(* The classes of instructions do not overlap. *)
LEMMA DataOpsApart ==
  /\ \A op \in DataOps : op \notin BranchOps \cup FinalOps
  /\ \A op \in BranchOps : op \notin FinalOps /\ op # "DIV"
  BY DEF DataOps, PushOps, TopOps, BinaryOps, PopOps, BranchOps, FinalOps

(* The next moment, by the kind of the instruction. *)
LEMMA AfterCases ==
  ASSUME NEW code, NEW m, NEW i, i = At(code, m.ip)
  PROVE  /\ i.op \in DataOps /\ Fits(i, Len(m.data.stack)) /\ ~DividesByZero(i, Top(m.data.stack)) =>
              After(code, m) = Moment(Settle(code, m.ip + 1), Effect(i, m.data), "running")
         /\ i.op = "DIV" /\ Fits(i, Len(m.data.stack)) /\ DividesByZero(i, Top(m.data.stack)) =>
              After(code, m) = Moment(m.ip, Popped(m.data), "ERROR_DIVISION_BY_ZERO")
         /\ i.op \in BranchOps /\ Fits(i, Len(m.data.stack)) =>
              After(code, m) =
                Moment(Settle(code, IF Taken(i, Top(m.data.stack)) THEN i.arg ELSE m.ip + 1),
                       Popped(m.data), "running")
         /\ i.op \in FinalOps =>
              After(code, m) =
                Moment(m.ip, m.data, IF i.op = "DONE" THEN "SUCCESS" ELSE "ERROR_END_OF_STREAM")
         /\ i.op \in DataOps \cup BranchOps /\ ~Fits(i, Len(m.data.stack)) =>
              After(code, m) = Moment(m.ip, m.data, "UNDEFINED")
<1>1. "DIV" \in DataOps
  BY DEF DataOps, BinaryOps
<1>2. DividesByZero(i, Top(m.data.stack)) => i.op = "DIV"
  BY DEF DividesByZero
<1> QED
  BY <1>1, <1>2, DataOpsApart DEF After

(* An immediate is a number. *)
LEMMA ArgNat ==
  ASSUME NEW i \in Instruction
  PROVE  i.arg \in Nat
<1>1. Address \subseteq Nat /\ i.arg \in Address
  BY ISAAssumption DEF Address, Instruction
<1> QED
  BY <1>1

(* An address behind the code, too, is a number. *)
LEMMA SettleNat ==
  ASSUME NEW code \in Seq(Instruction), NEW a \in Nat
  PROVE  Settle(code, a) \in Nat /\ At(code, a) \in Instruction
<1>1. At(code, a) \in Instruction
  <2>1. CASE a \in Addresses(code)
    BY <2>1, AtInside
  <2>2. CASE a \notin Addresses(code)
    <3>1. At(code, a) = Op("ABORT")
      BY <2>2 DEF At, Addresses
    <3>2. 0 \in Address
      BY ISAAssumption DEF Address
    <3> QED
      BY <3>1, <3>2 DEF Op, Instruction, Ops, FinalOps
  <2> QED
    BY <2>1, <2>2
<1>2. \A b \in JumpsFrom(code, a) : At(code, b).arg \in Nat
  <2>1. ASSUME NEW b \in Addresses(code) PROVE At(code, b).arg \in Nat
    BY AtInside, ArgNat
  <2> QED
    BY <2>1 DEF JumpsFrom, Jumps
<1> DEFINE landings == {At(code, b).arg : b \in JumpsFrom(code, a)} \ Jumps(code)
<1>3. landings # {} => (CHOOSE b \in landings : TRUE) \in Nat
  <2>1. landings \subseteq Nat
    BY <1>2
  <2> HIDE DEF landings
  <2> QED
    BY <2>1
<1>4. Settle(code, a) = IF At(code, a).op # "JUMP" THEN a
                        ELSE IF landings = {} THEN Len(code) + 1 ELSE CHOOSE b \in landings : TRUE
  BY DEF Settle
<1> HIDE DEF landings
<1> QED
  BY <1>1, <1>3, <1>4

(* A run consists of moments. *)
LEMMA AfterMoment ==
  ASSUME NEW code \in Seq(Instruction), NEW m \in Moments
  PROVE  After(code, m) \in Moments /\ Begin(code) \in Moments
<1> DEFINE i == At(code, m.ip)
           d == m.data
           target == IF Taken(i, Top(d.stack)) THEN i.arg ELSE m.ip + 1
<1>1. m.ip \in Nat /\ d \in Data
  BY DEF Moments
<1>2. i \in Instruction /\ i.arg \in Nat
  BY <1>1, SettleNat, ArgNat
<1>3. Settle(code, m.ip + 1) \in Nat /\ Settle(code, target) \in Nat
  <2>1. m.ip + 1 \in Nat /\ target \in Nat
    BY <1>1, <1>2
  <2> HIDE DEF i, target
  <2> QED
    BY <2>1, SettleNat
<1>4. ASSUME NEW a \in Nat, NEW e \in Data, NEW status \in {"running"} \cup Ends
      PROVE  Moment(a, e, status) \in Moments
  BY DEF Moment, Moments
<1>5. Begin(code) \in Moments
  BY <1>4, SettleNat, ZeroedInData DEF Begin
<1>6. After(code, m) =
        IF i.op \in FinalOps
          THEN Moment(m.ip, d, IF i.op = "DONE" THEN "SUCCESS" ELSE "ERROR_END_OF_STREAM")
        ELSE IF i.op \notin DataOps \cup BranchOps \/ ~Fits(i, Len(d.stack))
          THEN Moment(m.ip, d, "UNDEFINED")
        ELSE IF DividesByZero(i, Top(d.stack))
          THEN Moment(m.ip, Popped(d), "ERROR_DIVISION_BY_ZERO")
        ELSE IF i.op \in BranchOps THEN Moment(Settle(code, target), Popped(d), "running")
        ELSE Moment(Settle(code, m.ip + 1), Effect(i, d), "running")
  BY DEF After
<1>7. Fits(i, Len(d.stack)) =>
        /\ i.op \in BranchOps \cup {"DIV"} => Popped(d) \in Data
        /\ i.op \in DataOps => Effect(i, d) \in Data
  <2>1. Fits(i, Len(d.stack)) /\ i.op \in BranchOps \cup {"DIV"} => Len(d.stack) >= 1
    <3>1. i.op \in BranchOps \cup {"DIV"} => Needs(i) \in {1, 2}
      BY DEF Needs, BinaryOps, BranchOps
    <3> QED
      BY <3>1, <1>1 DEF Fits, Data
  <2> QED
    BY <2>1, <1>1, <1>2, PoppedInData, EffectInData
<1>8. DividesByZero(i, Top(d.stack)) => i.op = "DIV"
  BY DEF DividesByZero
<1>9. {"SUCCESS", "ERROR_END_OF_STREAM", "UNDEFINED", "ERROR_DIVISION_BY_ZERO", "running"} \subseteq
        {"running"} \cup Ends
  BY DEF Ends
<1> HIDE DEF i, d, target
<1>10. After(code, m) \in Moments
  <2>1. CASE i.op \in FinalOps
    BY <2>1, <1>1, <1>4, <1>6, <1>9
  <2>2. CASE i.op \notin FinalOps /\ (i.op \notin DataOps \cup BranchOps \/ ~Fits(i, Len(d.stack)))
    BY <2>2, <1>1, <1>4, <1>6, <1>9
  <2>3. CASE /\ i.op \notin FinalOps /\ i.op \in DataOps \cup BranchOps /\ Fits(i, Len(d.stack))
             /\ DividesByZero(i, Top(d.stack))
    BY <2>3, <1>1, <1>4, <1>6, <1>7, <1>8, <1>9
  <2>4. CASE /\ i.op \notin FinalOps /\ i.op \in DataOps \cup BranchOps /\ Fits(i, Len(d.stack))
             /\ ~DividesByZero(i, Top(d.stack))
    BY <2>4, <1>3, <1>4, <1>6, <1>7, <1>9
  <2> QED
    BY <2>1, <2>2, <2>3, <2>4
<1> QED
  BY <1>5, <1>10

(* What comes after a moment is closed. *)
LEMMA FromContinued ==
  ASSUME NEW code \in Seq(Instruction), NEW m \in Moments
  PROVE  /\ m \in From(code, m) /\ Continued(code, From(code, m))
         /\ From(code, m) \in SUBSET Moments
  BY AfterMoment DEF From, Continued

(* The way of a program begins at its first instruction and goes on. *)
LEMMA PathContinued ==
  ASSUME NEW code \in Seq(Instruction)
  PROVE  /\ Begin(code) \in Path(code) /\ Path(code) \in SUBSET Moments
         /\ \A m \in Path(code) : m.status = "running" => After(code, m) \in Path(code)
<1>1. Begin(code) \in Moments
  BY SettleNat, ZeroedInData DEF Begin, Moment, Moments
<1> QED
  BY <1>1, FromContinued DEF Path, Continued

(* A run cannot end in two ways. *)
LEMMA OneEnd ==
  ASSUME NEW code \in Seq(Instruction), NEW f \in Path(code), NEW g \in Path(code),
         f.status # "running", g.status # "running"
  PROVE  f = g
<1> DEFINE S == {m \in Path(code) : f \in From(code, m)}
<1>2. /\ Begin(code) \in Path(code) /\ Continued(code, Path(code))
      /\ Path(code) \in SUBSET Moments
  BY PathContinued DEF Continued
<1>3. Continued(code, S)
  <2> SUFFICES ASSUME NEW m \in S, m.status = "running" PROVE After(code, m) \in S
    BY DEF Continued
  <2>1. m \in Path(code) /\ f \in From(code, m) /\ After(code, m) \in Path(code)
    BY <1>2 DEF Continued
  <2> DEFINE n == After(code, m)
  <2>2. n \in Moments /\ m \in Moments
    BY <1>2, <2>1
  <2>3. /\ n \in From(code, n) /\ Continued(code, From(code, n))
        /\ From(code, n) \in SUBSET Moments
    BY <2>2, FromContinued
  <2>4. {m} \cup From(code, n) \in SUBSET Moments /\ Continued(code, {m} \cup From(code, n))
    BY <2>2, <2>3 DEF Continued
  <2>5. f \in {m} \cup From(code, n)
    BY <2>1, <2>4 DEF From
  <2> QED
    BY <2>1, <2>5
<1>4. g \in S
  <2>1. S \in SUBSET Moments /\ Begin(code) \in S
    BY <1>2 DEF Path
  <2> HIDE DEF S
  <2> QED
    BY <1>3, <2>1 DEF Path, From
<1>5. f \in From(code, g)
  BY <1>4
<1>6. {g} \in SUBSET Moments /\ Continued(code, {g})
  BY <1>2 DEF Continued
<1> QED
  BY <1>5, <1>6 DEF From

(* Behind known instructions there is nothing unknown. *)
LEMMA KnownAt ==
  ASSUME NEW code \in Seq(Instruction), AllKnown(code), NEW a \in Nat
  PROVE  Known(At(code, a))
<1>1. CASE a < Len(code)
  <2>1. a + 1 \in 1 .. Len(code) /\ At(code, a) = code[a + 1]
    BY <1>1 DEF At
  <2> QED
    BY <2>1 DEF AllKnown
<1>2. CASE ~(a < Len(code))
  BY <1>2 DEF At, Op, Known
<1> QED
  BY <1>1, <1>2

(* On the way of a program that ends as C defines, operands are never missing. *)
LEMMA PathFits ==
  ASSUME NEW code \in Seq(Instruction), NEW f \in Path(code),
         f.status \notin {"running", "UNDEFINED"},
         NEW m \in Path(code), m.status = "running",
         At(code, m.ip).op \in DataOps \cup BranchOps
  PROVE  Fits(At(code, m.ip), Len(m.data.stack))
<1> DEFINE u == Moment(m.ip, m.data, "UNDEFINED")
<1>1. SUFFICES ASSUME ~Fits(At(code, m.ip), Len(m.data.stack)) PROVE FALSE
  OBVIOUS
<1>2. After(code, m) = u
  BY <1>1, AfterCases
<1>3. u \in Path(code)
  BY <1>2, PathContinued
<1>4. u.status = "UNDEFINED"
  BY DEF Moment
<1> HIDE DEF u
<1> QED
  BY <1>3, <1>4, OneEnd

=============================================================================
