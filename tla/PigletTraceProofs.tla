-------------------------- MODULE PigletTraceProofs --------------------------
(***************************************************************************)
(* What vm_interpret_trace of pigletvm.c promises for every program, word   *)
(* size, memory size, stack size and length of a trace.                     *)
(***************************************************************************)
EXTENDS PigletTrace, PigletISAProofs

-----------------------------------------------------------------------------
(* The invariant: what the rows of the cache hold.                            *)

(* A cell that stands for an instruction of the program. *)
Compiled(code, c, ops) ==
  /\ c.handler \in ops
  /\ c.src \in Addresses(code)
  /\ At(code, c.src) = [op |-> c.handler, arg |-> c.arg, high |-> FALSE]

IsFinal(code, c) ==
  /\ c.handler \in FinalOps
  /\ c.src \in Addresses(code)
  /\ At(code, c.src).op = c.handler

IsTail(code, c) == c.handler = "TAIL" /\ c.src \in Addresses(code) /\ c.arg = c.src

IsPrejump(code, c) ==
  c.handler = "PREJUMP" /\ c.src + 1 \in Addresses(code) /\ c.arg = c.src + 1

(* Where control is before the i-th cell of the row of the address h. *)
Before(h, r, i) == IF i = 1 THEN h ELSE r[i - 1].src + 1

(* The first n cells are the straight-line code that starts at h. *)
Straight(code, h, r, n) ==
  \A i \in 1 .. n : /\ Compiled(code, r[i], DataOps)
                    /\ Settle(code, Before(h, r, i)) = Settle(code, r[i].src)

(* What closes a row behind its first n cells. *)
Closes(code, r, n) ==
  \/ Len(r) = n + 1 /\ (IsFinal(code, r[n + 1]) \/ IsTail(code, r[n + 1]))
  \/ /\ Len(r) = n + 2
     /\ IsPrejump(code, r[n + 1])
     /\ Compiled(code, r[n + 2], BranchOps)
     /\ r[n + 2].src = r[n + 1].src

Whole(code, h, r) ==
  \E n \in 0 .. MaxTraceLen - 2 :
    /\ Straight(code, h, r, n)
    /\ Settle(code, Before(h, r, n + 1)) = Settle(code, r[n + 1].src)
    /\ Closes(code, r, n)

(* A row that is written: the code from h to the address a. *)
Open(code, h, r, a) ==
  /\ Len(r) <= MaxTraceLen - 2
  /\ Straight(code, h, r, Len(r))
  /\ Settle(code, Before(h, r, Len(r) + 1)) = Settle(code, a)

Cells == [handler : Handlers, arg : Nat, src : Nat]

CacheInv ==
  /\ trace_cache \in [Addresses(bytecode) -> Seq(Cells)]
  /\ \A a \in Addresses(bytecode) :
       \/ trace_cache[a] = <<>>
       \/ mode = "compile" /\ head = a
       \/ Whole(bytecode, a, trace_cache[a])
  /\ mode = "compile" => Open(bytecode, head, row, at)
  /\ mode = "run" => row # <<>> /\ (row[k].handler \in BranchOps => pc = row[k].src + 1)

-----------------------------------------------------------------------------
(* Rows *)

(* The handlers a row is made of are told apart by their kind. *)
LEMMA Kinds ==
  ASSUME NEW h, h \in DataOps
  PROVE  h \notin FinalOps \cup BranchOps \cup {"TAIL", "PREJUMP", "JUMP", "ABORT"}
  BY DEF DataOps, PushOps, TopOps, BinaryOps, PopOps, FinalOps, BranchOps

(* trace_compile_handler writes its cells behind those it has written. *)
LEMMA Extended ==
  ASSUME NEW r \in Seq(Cells), NEW c \in Cells, NEW d \in Cells
  PROVE  /\ r \o <<c>> \in Seq(Cells) /\ Len(r \o <<c>>) = Len(r) + 1
         /\ (r \o <<c>>)[Len(r) + 1] = c
         /\ \A i \in 1 .. Len(r) : (r \o <<c>>)[i] = r[i]
         /\ r \o <<c, d>> \in Seq(Cells) /\ Len(r \o <<c, d>>) = Len(r) + 2
         /\ (r \o <<c, d>>)[Len(r) + 1] = c /\ (r \o <<c, d>>)[Len(r) + 2] = d
         /\ \A i \in 1 .. Len(r) : (r \o <<c, d>>)[i] = r[i]
  OBVIOUS

(* What is straight stays so when a row grows. *)
LEMMA Kept ==
  ASSUME NEW code, NEW h, NEW r \in Seq(Cells), NEW q \in Seq(Cells),
         Straight(code, h, r, Len(r)), \A i \in 1 .. Len(r) : q[i] = r[i]
  PROVE  Straight(code, h, q, Len(r)) /\ Before(h, q, Len(r) + 1) = Before(h, r, Len(r) + 1)
<1>1. \A i \in 1 .. Len(r) + 1 : Before(h, q, i) = Before(h, r, i)
  <2> SUFFICES ASSUME NEW i \in 1 .. Len(r) + 1 PROVE Before(h, q, i) = Before(h, r, i)
    OBVIOUS
  <2>1. i # 1 => i - 1 \in 1 .. Len(r)
    OBVIOUS
  <2> QED
    BY <2>1 DEF Before
<1> QED
  BY <1>1 DEF Straight

(* One more instruction in a row that is written. *)
LEMMA OpenExtended ==
  ASSUME NEW code, NEW h, NEW r \in Seq(Cells), NEW a, Open(code, h, r, a),
         Len(r) < MaxTraceLen - 2, NEW c \in Cells, Compiled(code, c, DataOps), c.src = a
  PROVE  Open(code, h, r \o <<c>>, a + 1)
<1> DEFINE q == r \o <<c>>
<1>1. /\ q \in Seq(Cells) /\ Len(q) = Len(r) + 1 /\ q[Len(r) + 1] = c
      /\ \A i \in 1 .. Len(r) : q[i] = r[i]
  BY Extended
<1> HIDE DEF q
<1>2. Straight(code, h, q, Len(r)) /\ Before(h, q, Len(r) + 1) = Before(h, r, Len(r) + 1)
  BY <1>1, Kept DEF Open
<1>3. Settle(code, Before(h, q, Len(r) + 1)) = Settle(code, c.src)
  BY <1>2 DEF Open
<1>4. Straight(code, h, q, Len(q))
  BY <1>1, <1>2, <1>3 DEF Straight
<1>5. Before(h, q, Len(q) + 1) = a + 1
  BY <1>1 DEF Before
<1>6. Len(q) <= MaxTraceLen - 2
  BY <1>1, TraceAssumption
<1> QED
  BY <1>4, <1>5, <1>6 DEF Open, q

(* A row closed by one cell, or by a prejump and its branch. *)
LEMMA WholeClosed ==
  ASSUME NEW code, NEW h, NEW r \in Seq(Cells), NEW a, Open(code, h, r, a),
         NEW c \in Cells, NEW d \in Cells, c.src = a
  PROVE  /\ IsFinal(code, c) \/ IsTail(code, c) => Whole(code, h, r \o <<c>>)
         /\ IsPrejump(code, c) /\ Compiled(code, d, BranchOps) /\ d.src = a =>
              Whole(code, h, r \o <<c, d>>)
<1>0. Len(r) \in 0 .. MaxTraceLen - 2
  BY TraceAssumption DEF Open
<1>1. ASSUME IsFinal(code, c) \/ IsTail(code, c) PROVE Whole(code, h, r \o <<c>>)
  <2> DEFINE q == r \o <<c>>
  <2>1. /\ q \in Seq(Cells) /\ Len(q) = Len(r) + 1 /\ q[Len(r) + 1] = c
        /\ \A i \in 1 .. Len(r) : q[i] = r[i]
    BY Extended
  <2> HIDE DEF q
  <2>2. /\ Straight(code, h, q, Len(r))
        /\ Settle(code, Before(h, q, Len(r) + 1)) = Settle(code, q[Len(r) + 1].src)
    BY <2>1, Kept DEF Open
  <2>3. Closes(code, q, Len(r))
    BY <1>1, <2>1 DEF Closes
  <2> QED
    BY <1>0, <2>2, <2>3 DEF Whole, q
<1>2. ASSUME IsPrejump(code, c), Compiled(code, d, BranchOps), d.src = a
      PROVE  Whole(code, h, r \o <<c, d>>)
  <2> DEFINE q == r \o <<c, d>>
  <2>1. /\ q \in Seq(Cells) /\ Len(q) = Len(r) + 2 /\ q[Len(r) + 1] = c /\ q[Len(r) + 2] = d
        /\ \A i \in 1 .. Len(r) : q[i] = r[i]
    BY Extended
  <2> HIDE DEF q
  <2>2. /\ Straight(code, h, q, Len(r))
        /\ Settle(code, Before(h, q, Len(r) + 1)) = Settle(code, q[Len(r) + 1].src)
    BY <2>1, Kept DEF Open
  <2>3. Closes(code, q, Len(r))
    BY <1>2, <2>1 DEF Closes
  <2> QED
    BY <1>0, <2>2, <2>3 DEF Whole, q
<1> QED
  BY <1>1, <1>2

(* What the handlers of a finished row find in it, cell by cell. *)
LEMMA WholeCells ==
  ASSUME NEW code, NEW h, NEW r \in Seq(Cells), Whole(code, h, r), NEW j \in 1 .. Len(r)
  PROVE  /\ Len(r) <= MaxTraceLen /\ Len(r) >= 1
         /\ Settle(code, h) = Settle(code, r[1].src)
         /\ r[j].handler \in DataOps =>
              /\ j + 1 \in 1 .. Len(r)
              /\ Compiled(code, r[j], DataOps)
              /\ r[j + 1].handler \notin BranchOps
              /\ Settle(code, r[j].src + 1) = Settle(code, r[j + 1].src)
         /\ r[j].handler \in FinalOps => IsFinal(code, r[j])
         /\ r[j].handler = "TAIL" => IsTail(code, r[j])
         /\ r[j].handler = "PREJUMP" =>
              /\ j + 1 \in 1 .. Len(r)
              /\ IsPrejump(code, r[j])
              /\ r[j + 1].src = r[j].src
         /\ r[j].handler \in BranchOps =>
              /\ Compiled(code, r[j], BranchOps)
              /\ j > 1 /\ r[j - 1].handler = "PREJUMP"
         /\ r[j].handler \in FinalOps \cup BranchOps \cup {"TAIL"} <=> j = Len(r)
<1>1. PICK n \in 0 .. MaxTraceLen - 2 :
        /\ Straight(code, h, r, n)
        /\ Settle(code, Before(h, r, n + 1)) = Settle(code, r[n + 1].src)
        /\ Closes(code, r, n)
  BY DEF Whole
<1>2. /\ n \in Nat /\ Len(r) \in {n + 1, n + 2}
      /\ Len(r) <= MaxTraceLen /\ Len(r) >= 1
  BY <1>1, TraceAssumption DEF Closes
<1>3. \A i \in 1 .. n : /\ r[i].handler \in DataOps /\ Compiled(code, r[i], DataOps)
                        /\ Settle(code, Before(h, r, i)) = Settle(code, r[i].src)
  BY <1>1 DEF Straight, Compiled
<1>4. \A i \in 1 .. n + 1 : Settle(code, Before(h, r, i)) = Settle(code, r[i].src)
  BY <1>1, <1>2, <1>3
<1>5. Settle(code, h) = Settle(code, r[1].src)
  BY <1>2, <1>4 DEF Before
<1>6. r[n + 1].handler \in FinalOps \cup {"TAIL", "PREJUMP"}
  BY <1>1 DEF Closes, IsFinal, IsTail, IsPrejump
<1>7. Len(r) = n + 2 => r[n + 2].handler \in BranchOps
  BY <1>1, <1>2 DEF Closes, Compiled
<1>8. CASE j \in 1 .. n
  <2>1. j + 1 \in 1 .. n + 1 /\ j + 1 \in 1 .. Len(r) /\ j # Len(r) /\ Before(h, r, j + 1) = r[j].src + 1
    BY <1>8, <1>2 DEF Before
  <2>2. Settle(code, r[j].src + 1) = Settle(code, r[j + 1].src)
    BY <2>1, <1>4
  <2>3. r[j + 1].handler \notin BranchOps
    <3>1. j + 1 \in 1 .. n \/ j + 1 = n + 1
      BY <2>1, <1>2
    <3>2. r[j + 1].handler \in DataOps \cup FinalOps \cup {"TAIL", "PREJUMP"}
      BY <3>1, <1>3, <1>6
    <3> QED
      BY <3>2, Kinds DEF FinalOps, BranchOps
  <2>4. Compiled(code, r[j], DataOps) /\ r[j].handler \in DataOps
    BY <1>8, <1>3
  <2>5. r[j].handler \notin FinalOps \cup BranchOps \cup {"TAIL", "PREJUMP"}
    BY <2>4, Kinds
  <2> QED
    BY <2>1, <2>2, <2>3, <2>4, <2>5, <1>2, <1>5
<1>9. CASE j = n + 1
  <2>1. r[j].handler \notin DataOps \cup BranchOps
    BY <1>9, <1>6, Kinds DEF FinalOps, BranchOps
  <2>2. CASE Len(r) = n + 1
    <3>1. IsFinal(code, r[j]) \/ IsTail(code, r[j])
      BY <1>1, <1>2, <1>9, <2>2 DEF Closes
    <3>2. /\ r[j].handler \in FinalOps => IsFinal(code, r[j])
          /\ r[j].handler = "TAIL" => IsTail(code, r[j])
          /\ r[j].handler \in FinalOps \cup {"TAIL"} /\ r[j].handler # "PREJUMP"
      BY <3>1 DEF IsFinal, IsTail, FinalOps
    <3>3. j = Len(r) /\ Len(r) <= MaxTraceLen /\ Len(r) >= 1
      BY <2>2, <1>2, <1>9
    <3> QED
      BY <3>2, <3>3, <2>1, <1>5
  <2>3. CASE Len(r) = n + 2
    <3>1. IsPrejump(code, r[j]) /\ r[j + 1].src = r[j].src /\ j + 1 \in 1 .. Len(r) /\ j # Len(r)
      BY <1>1, <1>2, <1>9, <2>3 DEF Closes
    <3>2. r[j].handler = "PREJUMP" /\ r[j].handler \notin FinalOps \cup {"TAIL"}
      BY <3>1 DEF IsPrejump, FinalOps
    <3>3. Len(r) <= MaxTraceLen /\ Len(r) >= 1
      BY <2>3, <1>2
    <3> QED
      BY <3>1, <3>2, <3>3, <2>1, <1>5
  <2> QED
    BY <2>2, <2>3, <1>2
<1>10. CASE j = n + 2
  <2>1. Len(r) = n + 2 /\ j = Len(r) /\ j > 1 /\ j - 1 = n + 1
    BY <1>10, <1>2
  <2>2. /\ IsPrejump(code, r[j - 1])
        /\ Compiled(code, r[j], BranchOps)
    BY <1>1, <1>10, <1>2, <2>1 DEF Closes
  <2>3. r[j].handler \in BranchOps /\ r[j].handler \notin DataOps \cup FinalOps \cup {"TAIL", "PREJUMP"}
    BY <2>2, Kinds DEF Compiled, BranchOps, FinalOps
  <2> QED
    BY <2>1, <2>2, <2>3, <1>2, <1>5 DEF IsPrejump
<1>11. j \in 1 .. n \/ j = n + 1 \/ j = n + 2
  BY <1>2
<1> QED
  BY <1>8, <1>9, <1>10, <1>11

-----------------------------------------------------------------------------
(* The invariant is inductive. *)

Inv == TypeOK /\ CacheInv

(* The program that runs, and the instruction read while a row is written. *)
LEMMA CodeInside ==
  ASSUME TypeOK
  PROVE  /\ WellFormed(bytecode) /\ bytecode \in Seq(Instruction)
         /\ Read \in Instruction /\ at \in Addresses(bytecode)
<1>1. WellFormed(<<>>)
  BY DEF WellFormed
<1>2. WellFormed(bytecode)
  BY <1>1, TraceAssumption DEF TypeOK
<1> QED
  BY <1>2, AtInside DEF TypeOK, WellFormed, Read

(* A cell that stands for an instruction of the program acts as that instruction. *)
LEMMA CellInstruction ==
  ASSUME TypeOK, NEW ops, Compiled(bytecode, row[k], ops)
  PROVE  /\ Operation = At(bytecode, row[k].src) /\ Operation \in Instruction
         /\ Operation.op \in ops /\ Operation.op = row[k].handler /\ Operation.arg = row[k].arg
  BY CodeInside, AtInside DEF Compiled, Operation

(* The row that runs is a finished one. *)
LEMMA RowRuns ==
  ASSUME Inv, mode = "run"
  PROVE  row \in Seq(Cells) /\ Whole(bytecode, head, row) /\ k \in 1 .. Len(row)
<1>1. head \in Addresses(bytecode) /\ row \in Seq(Cells)
  BY DEF Inv, TypeOK, CacheInv, row
<1> QED
  BY <1>1 DEF Inv, TypeOK, CacheInv, row

(* The handler that is called has the instruction it was compiled from. *)
LEMMA CalledInstruction ==
  ASSUME Inv, mode = "run", row[k].handler \in DataOps \cup BranchOps
  PROVE  Operation \in Instruction /\ Operation.op = row[k].handler
<1>1. TypeOK /\ row \in Seq(Cells) /\ Whole(bytecode, head, row) /\ k \in 1 .. Len(row)
  BY RowRuns DEF Inv
<1>2. PICK ops : Compiled(bytecode, row[k], ops)
  BY <1>1, WholeCells
<1> QED
  BY <1>1, <1>2, CellInstruction

(* Before the first run there are no rows. *)
LEMMA InvInit == Init => Inv
<1> SUFFICES ASSUME Init PROVE Inv
  OBVIOUS
<1>1. bytecode = <<>> /\ 0 \in Addresses(<<>>)
  BY DEF Init, Addresses
<1>2. trace_cache = [a \in Addresses(<<>>) |-> <<>>] /\ mode = "dispatch"
  BY DEF Init, Cleared
<1>3. CacheInv
  BY <1>1, <1>2 DEF CacheInv
<1>4. TypeOK
  BY <1>1, <1>2, ZeroedInData, ISAAssumption DEF Init, TypeOK
<1> QED
  BY <1>3, <1>4 DEF Inv

(* A new run starts without rows. *)
LEMMA InvStart == Start => Inv'
<1> SUFFICES ASSUME Start PROVE Inv'
  OBVIOUS
<1>1. bytecode' \in Programs /\ bytecode' \in Seq(Instruction) /\ 0 \in Addresses(bytecode')
  BY TraceAssumption DEF Start, WellFormed, Addresses
<1>2. trace_cache' = [a \in Addresses(bytecode') |-> <<>>] /\ mode' = "dispatch"
  BY DEF Start, Cleared
<1>3. CacheInv'
  BY <1>1, <1>2 DEF CacheInv
<1>4. TypeOK'
  BY <1>1, <1>2, ZeroedInData, ISAAssumption DEF Start, TypeOK
<1> QED
  BY <1>3, <1>4 DEF Inv

(* A row is taken from the cache, or begun. *)
LEMMA InvDispatch == Inv /\ Dispatch => Inv'
<1> SUFFICES ASSUME Inv, Dispatch PROVE Inv'
  OBVIOUS
<1>1. /\ head' = pc /\ pc \in Addresses(bytecode) /\ mode = "dispatch"
      /\ UNCHANGED <<bytecode, pc, data, status, trace_cache>>
  BY DEF Dispatch, In, Inv, TypeOK
<1>2. \A a \in Addresses(bytecode) : trace_cache[a] = <<>> \/ Whole(bytecode, a, trace_cache[a])
  BY <1>1 DEF Inv, CacheInv
<1>3. CASE trace_cache[pc] = <<>>
  <2>1. mode' = "compile" /\ at' = pc /\ k' = k /\ row' = <<>>
    BY <1>1, <1>3 DEF Dispatch, row
  <2>2. Open(bytecode, pc, <<>>, pc)
    BY TraceAssumption DEF Open, Straight, Before
  <2>3. TypeOK'
    BY <1>1, <2>1 DEF Inv, TypeOK
  <2>4. CacheInv'
    BY <1>1, <1>2, <2>1, <2>2 DEF Inv, CacheInv
  <2> QED
    BY <2>3, <2>4 DEF Inv
<1>4. CASE trace_cache[pc] # <<>>
  <2>1. mode' = "run" /\ k' = 1 /\ at' = at /\ row' = trace_cache[pc]
    BY <1>1, <1>4 DEF Dispatch, row
  <2>2. row' \in Seq(Cells) /\ Whole(bytecode, pc, row')
    BY <1>1, <1>2, <1>4, <2>1 DEF Inv, CacheInv
  <2>3. 1 \in 1 .. Len(row')
    BY <1>4, <2>1, <2>2
  <2>4. row'[1].handler \notin BranchOps
    BY <2>2, <2>3, WholeCells
  <2>5. TypeOK'
    BY <1>1, <2>1, <2>3 DEF Inv, TypeOK
  <2>6. CacheInv'
    BY <1>1, <1>2, <1>4, <2>1, <2>4 DEF Inv, CacheInv
  <2> QED
    BY <2>5, <2>6 DEF Inv
<1> QED
  BY <1>3, <1>4

(* What the row of the address that is written looks like in the next state. *)
LEMMA Written ==
  ASSUME Inv, NEW cells, Write(cells), row \o cells \in Seq(Cells), head' = head,
         bytecode' = bytecode
  PROVE  /\ row' = row \o cells
         /\ trace_cache' \in [Addresses(bytecode) -> Seq(Cells)]
         /\ \A a \in Addresses(bytecode) : a # head => trace_cache'[a] = trace_cache[a]
<1>1. head \in Addresses(bytecode) /\ trace_cache \in [Addresses(bytecode) -> Seq(Cells)]
  BY DEF Inv, TypeOK, CacheInv
<1>2. trace_cache' = [trace_cache EXCEPT ![head] = row \o cells]
  BY DEF Write, row
<1> QED
  BY <1>1, <1>2 DEF row

(* A cell made from the instruction that is read. *)
LEMMA ReadCell ==
  ASSUME TypeOK, NEW handler \in Handlers, NEW arg \in Nat
  PROVE  Cell(handler, arg, at) \in Cells
<1>1. at \in Nat
  BY CodeInside DEF Addresses
<1> QED
  BY <1>1 DEF Cell, Cells

(* A finished row is run from its first cell. *)
LEMMA InvRunRow ==
  ASSUME Inv, In("compile"), NEW cells, Write(cells), RunRow,
         row \o cells \in Seq(Cells), Whole(bytecode, head, row \o cells)
  PROVE  Inv'
<1>1. /\ head' = head /\ bytecode' = bytecode /\ pc' = pc /\ data' = data /\ status' = status
      /\ at' = at /\ mode' = "run" /\ k' = 1
  BY DEF RunRow
<1>2. /\ row' = row \o cells
      /\ trace_cache' \in [Addresses(bytecode) -> Seq(Cells)]
      /\ \A a \in Addresses(bytecode) : a # head => trace_cache'[a] = trace_cache[a]
  BY <1>1, Written
<1>3. Len(row') >= 1 /\ 1 \in 1 .. Len(row') /\ row' # <<>>
  <2>1. PICK n \in 0 .. MaxTraceLen - 2 : Closes(bytecode, row', n)
    BY <1>2 DEF Whole
  <2> QED
    BY <1>2, <2>1 DEF Closes
<1>4. row'[1].handler \notin BranchOps
  <2>1. row' \in Seq(Cells) /\ Whole(bytecode, head, row')
    BY <1>2
  <2> QED
    BY <2>1, <1>3, WholeCells
<1>5. TypeOK'
  BY <1>1, <1>2, <1>3 DEF Inv, TypeOK
<1>6. \A a \in Addresses(bytecode) : trace_cache'[a] = <<>> \/ Whole(bytecode, a, trace_cache'[a])
  <2>1. trace_cache'[head] = row'
    BY <1>1 DEF row
  <2> QED
    BY <1>2, <2>1 DEF Inv, CacheInv, In
<1>7. CacheInv'
  BY <1>1, <1>2, <1>3, <1>4, <1>6 DEF CacheInv
<1> QED
  BY <1>5, <1>7 DEF Inv

(* Writing a row keeps the invariant. *)
LEMMA InvCompile == Inv /\ Compile => Inv'
<1> SUFFICES ASSUME Inv, Compile PROVE Inv'
  OBVIOUS
<1>1. /\ TypeOK /\ mode = "compile" /\ at \in Addresses(bytecode)
      /\ row \in Seq(Cells) /\ Open(bytecode, head, row, at)
      /\ WellFormed(bytecode) /\ Read \in Instruction /\ Read.arg \in Nat
  <2>1. TypeOK /\ mode = "compile"
    BY DEF Inv, Compile, CompileOp, CompileJump, CompileFinal, CompileBranch, CompileTail,
           CompileUnknown, In
  <2>2. row \in Seq(Cells) /\ Open(bytecode, head, row, at)
    BY <2>1 DEF Inv, CacheInv, TypeOK, row
  <2>3. WellFormed(bytecode) /\ Read \in Instruction /\ at \in Addresses(bytecode)
    BY <2>1, CodeInside
  <2>4. Read.arg \in Nat
    BY <2>3, ISAAssumption DEF Instruction, Address
  <2> QED
    BY <2>1, <2>2, <2>3, <2>4
<1>2. Known(Read) => Read = [op |-> Read.op, arg |-> Read.arg, high |-> FALSE]
  BY <1>1 DEF Known, Instruction
<1>3. CASE CompileOp
  <2> DEFINE c == Cell(Read.op, Read.arg, at)
  <2>1. /\ Known(Read) /\ Read.op \in DataOps /\ Len(row) < MaxTraceLen - 2 /\ Write(<<c>>)
        /\ at' = at + 1 /\ UNCHANGED <<bytecode, pc, data, status, mode, head, k>>
    BY <1>3 DEF CompileOp, HasRoom
  <2>2. c \in Cells
    BY <1>1, <2>1, ReadCell DEF Handlers, Ops
  <2>3. Compiled(bytecode, c, DataOps) /\ c.src = at
    BY <1>1, <1>2, <2>1 DEF Compiled, Cell, Read
  <2>4. row \o <<c>> \in Seq(Cells)
    BY <1>1, <2>2, Extended
  <2>5. /\ row' = row \o <<c>> /\ trace_cache' \in [Addresses(bytecode) -> Seq(Cells)]
        /\ \A a \in Addresses(bytecode) : a # head => trace_cache'[a] = trace_cache[a]
    BY <2>1, <2>4, Written
  <2>6. Open(bytecode, head, row \o <<c>>, at + 1)
    BY <1>1, <2>1, <2>2, <2>3, OpenExtended
  <2>7. at + 1 \in Addresses(bytecode)
    <3>1. Read.op # "ABORT"
      BY <2>1, Kinds
    <3> QED
      BY <1>1, <3>1, CodeInside, AtInside DEF Read
  <2> HIDE DEF c
  <2>8. TypeOK'
    BY <1>1, <2>1, <2>5, <2>7 DEF TypeOK
  <2>9. CacheInv'
    BY <1>1, <2>1, <2>5, <2>6 DEF Inv, CacheInv
  <2> QED
    BY <2>8, <2>9 DEF Inv
<1>4. CASE CompileJump
  <2>1. /\ Read.op = "JUMP" /\ at' = Read.arg
        /\ UNCHANGED <<bytecode, pc, data, status, trace_cache, mode, head, k>>
    BY <1>4 DEF CompileJump
  <2>2. row' = row
    BY <2>1 DEF row
  <2>3. Read.arg \in Addresses(bytecode)
    BY <1>1, <2>1, TargetInside DEF Read
  <2>4. Settle(bytecode, at) = Settle(bytecode, Read.arg)
    BY <1>1, <2>1, SettleJump DEF Read
  <2>5. Open(bytecode, head, row, Read.arg)
    BY <1>1, <2>4 DEF Open
  <2>6. TypeOK'
    BY <1>1, <2>1, <2>2, <2>3 DEF TypeOK
  <2>7. CacheInv'
    BY <1>1, <2>1, <2>2, <2>5 DEF Inv, CacheInv
  <2> QED
    BY <2>6, <2>7 DEF Inv
<1>5. CASE CompileFinal
  <2> DEFINE c == Cell(Read.op, 0, at)
  <2>1. Read.op \in FinalOps /\ Write(<<c>>) /\ RunRow /\ In("compile")
    BY <1>5 DEF CompileFinal
  <2>2. c \in Cells
    BY <1>1, <2>1, ReadCell DEF Handlers, Ops
  <2>3. IsFinal(bytecode, c) /\ c.src = at
    BY <1>1, <2>1 DEF IsFinal, Cell, Read
  <2>4. row \o <<c>> \in Seq(Cells) /\ Whole(bytecode, head, row \o <<c>>)
    BY <1>1, <2>2, <2>3, Extended, WholeClosed
  <2> QED
    BY <2>1, <2>4, InvRunRow
<1>6. CASE CompileBranch
  <2> DEFINE c == Cell("PREJUMP", at + 1, at)
             d == Cell(Read.op, Read.arg, at)
  <2>1. /\ Known(Read) /\ Read.op \in BranchOps /\ Write(<<c, d>>)
        /\ RunRow /\ In("compile")
    BY <1>6 DEF CompileBranch
  <2>2. at + 1 \in Addresses(bytecode) /\ at + 1 \in Nat
    <3>1. Read.op # "ABORT"
      BY <2>1 DEF BranchOps
    <3> QED
      BY <1>1, <3>1, CodeInside, AtInside DEF Read, Addresses
  <2>3. c \in Cells /\ d \in Cells
    BY <1>1, <2>1, <2>2, ReadCell DEF Handlers, Ops
  <2>4. IsPrejump(bytecode, c) /\ c.src = at
    BY <2>2 DEF IsPrejump, Cell
  <2>5. Compiled(bytecode, d, BranchOps) /\ d.src = at
    BY <1>1, <1>2, <2>1 DEF Compiled, Cell, Read
  <2> HIDE DEF c, d
  <2>6. row \o <<c, d>> \in Seq(Cells) /\ Whole(bytecode, head, row \o <<c, d>>)
    BY <1>1, <2>3, <2>4, <2>5, Extended, WholeClosed
  <2> QED
    BY <2>1, <2>6, InvRunRow
<1>7. CASE CompileTail
  <2> DEFINE c == Cell("TAIL", at, at)
  <2>1. Write(<<c>>) /\ RunRow /\ In("compile")
    BY <1>7 DEF CompileTail
  <2>2. c \in Cells
    <3>1. "TAIL" \in Handlers /\ at \in Nat
      BY <1>1 DEF Handlers, Addresses
    <3> QED
      BY <1>1, <3>1, ReadCell
  <2>3. IsTail(bytecode, c) /\ c.src = at
    BY <1>1 DEF IsTail, Cell
  <2>4. row \o <<c>> \in Seq(Cells) /\ Whole(bytecode, head, row \o <<c>>)
    BY <1>1, <2>2, <2>3, Extended, WholeClosed
  <2> QED
    BY <2>1, <2>4, InvRunRow
<1>8. CASE CompileUnknown
  <2>1. row' = row /\ UNCHANGED <<bytecode, pc, data, trace_cache, mode, head, at, k>>
    BY <1>8 DEF CompileUnknown, row
  <2>2. TypeOK'
    BY <1>1, <2>1 DEF TypeOK
  <2>3. CacheInv'
    BY <1>1, <2>1 DEF Inv, CacheInv
  <2> QED
    BY <2>2, <2>3 DEF Inv
<1> QED
  BY <1>3, <1>4, <1>5, <1>6, <1>7, <1>8 DEF Compile

(* Running a row keeps the invariant. *)
LEMMA InvHandle == Inv /\ Handle => Inv'
<1> SUFFICES ASSUME Inv, Handle PROVE Inv'
  OBVIOUS
<1>1. /\ TypeOK /\ CacheInv /\ mode = "run" /\ k \in 1 .. Len(row)
      /\ row \in Seq(Cells) /\ Whole(bytecode, head, row)
      /\ WellFormed(bytecode) /\ data \in Data
  <2>1. TypeOK /\ CacheInv /\ mode = "run"
    BY DEF Inv, Handle, RunOp, RunDivideByZero, RunPrejump, RunBranch, RunTail, RunFinal,
           RunUndefined, Calls, In
  <2> QED
    BY <2>1, RowRuns, CodeInside DEF TypeOK
<1>2. UNCHANGED <<bytecode, trace_cache, head, at>> /\ row' = row
  BY DEF Handle, RunOp, RunDivideByZero, RunPrejump, RunBranch, RunTail, RunFinal,
         RunUndefined, row
<1>3. \A a \in Addresses(bytecode) : trace_cache[a] = <<>> \/ Whole(bytecode, a, trace_cache[a])
  BY <1>1 DEF CacheInv
<1>4. Len(data.stack) \in Nat
  BY <1>1 DEF Data
<1>5. CASE RunOp
  <2>1. /\ row[k].handler \in DataOps /\ Fits(Operation, Len(data.stack))
        /\ data' = Effect(Operation, data) /\ k' = k + 1
        /\ pc' = pc /\ mode' = mode
    BY <1>5 DEF RunOp, Calls, Operands
  <2>2. /\ k + 1 \in 1 .. Len(row) /\ Compiled(bytecode, row[k], DataOps)
        /\ row[k + 1].handler \notin BranchOps
    BY <1>1, <2>1, WholeCells
  <2>3. Operation \in Instruction /\ Operation.op \in DataOps
    BY <1>1, <2>2, CellInstruction
  <2>4. data' \in Data /\ Len(data'.stack) <= StackMax
    BY <1>1, <2>1, <2>3, EffectInData DEF Fits
  <2>5. TypeOK'
    BY <1>1, <1>2, <2>1, <2>2, <2>4 DEF TypeOK
  <2>6. CacheInv'
    BY <1>1, <1>2, <2>1, <2>2 DEF CacheInv
  <2> QED
    BY <2>5, <2>6 DEF Inv
<1>6. CASE RunDivideByZero
  <2>1. /\ row[k].handler = "DIV" /\ Fits(Operation, Len(data.stack))
        /\ data' = Popped(data) /\ k' = k /\ pc' = pc /\ mode' = mode
    BY <1>6 DEF RunDivideByZero, Calls, Operands
  <2>2. Len(data.stack) >= 1
    BY <2>1, <1>4 DEF Operation, Fits, Needs, BinaryOps
  <2>3. data' \in Data /\ Len(data'.stack) <= StackMax
    BY <1>1, <1>4, <2>1, <2>2, PoppedInData, ISAAssumption DEF TypeOK
  <2>4. TypeOK'
    BY <1>1, <1>2, <2>1, <2>3 DEF TypeOK
  <2>5. CacheInv'
    BY <1>1, <1>2, <2>1 DEF CacheInv
  <2> QED
    BY <2>4, <2>5 DEF Inv
<1>7. CASE RunPrejump
  <2>1. row[k].handler = "PREJUMP" /\ pc' = row[k].arg /\ k' = k + 1 /\ data' = data /\ mode' = mode
    BY <1>7 DEF RunPrejump, Calls
  <2>2. k + 1 \in 1 .. Len(row) /\ IsPrejump(bytecode, row[k]) /\ row[k + 1].src = row[k].src
    BY <1>1, <2>1, WholeCells
  <2>3. pc' \in Addresses(bytecode) /\ pc' = row[k + 1].src + 1
    BY <2>1, <2>2 DEF IsPrejump
  <2>4. TypeOK'
    BY <1>1, <1>2, <2>1, <2>2, <2>3 DEF TypeOK
  <2>5. CacheInv'
    BY <1>1, <1>2, <2>1, <2>3 DEF CacheInv
  <2> QED
    BY <2>4, <2>5 DEF Inv
<1>8. CASE RunBranch
  <2>1. /\ row[k].handler \in BranchOps /\ Fits(Operation, Len(data.stack))
        /\ data' = Popped(data) /\ k' = k /\ pc' \in {row[k].arg, pc} /\ mode' = "dispatch"
    BY <1>8 DEF RunBranch, Calls, Operands
  <2>2. Compiled(bytecode, row[k], BranchOps)
    BY <1>1, <2>1, WholeCells
  <2>3. row[k].arg \in Addresses(bytecode)
    <3>1. At(bytecode, row[k].src).op \in BranchOps /\ At(bytecode, row[k].src).arg = row[k].arg
      BY <2>2 DEF Compiled
    <3> QED
      BY <1>1, <2>2, <3>1, TargetInside DEF Compiled
  <2>4. Len(data.stack) >= 1
    <3>1. Operation.op \in BranchOps
      BY <1>1, <2>2, CellInstruction
    <3> QED
      BY <2>1, <3>1, <1>4 DEF Fits, Needs, BinaryOps, TopOps, PopOps, BranchOps
  <2>5. data' \in Data /\ Len(data'.stack) <= StackMax
    BY <1>1, <1>4, <2>1, <2>4, PoppedInData, ISAAssumption DEF TypeOK
  <2>6. TypeOK'
    BY <1>1, <1>2, <2>1, <2>3, <2>5 DEF TypeOK
  <2>7. CacheInv'
    BY <1>1, <1>2, <1>3, <2>1 DEF CacheInv
  <2> QED
    BY <2>6, <2>7 DEF Inv
<1>9. CASE RunTail
  <2>1. row[k].handler = "TAIL" /\ pc' = row[k].arg /\ mode' = "dispatch" /\ data' = data /\ k' = k
    BY <1>9 DEF RunTail, Calls
  <2>2. row[k].arg \in Addresses(bytecode)
    BY <1>1, <2>1, WholeCells DEF IsTail
  <2>3. TypeOK'
    BY <1>1, <1>2, <2>1, <2>2 DEF TypeOK
  <2>4. CacheInv'
    BY <1>1, <1>2, <1>3, <2>1 DEF CacheInv
  <2> QED
    BY <2>3, <2>4 DEF Inv
<1>10. CASE RunFinal \/ RunUndefined
  <2>1. UNCHANGED <<pc, data, mode, k>>
    BY <1>10 DEF RunFinal, RunUndefined
  <2>2. TypeOK'
    BY <1>1, <1>2, <2>1 DEF TypeOK
  <2>3. CacheInv'
    BY <1>1, <1>2, <2>1 DEF CacheInv
  <2> QED
    BY <2>2, <2>3 DEF Inv
<1> QED
  BY <1>5, <1>6, <1>7, <1>8, <1>9, <1>10 DEF Handle

(* Every step keeps the invariant. *)
LEMMA InvStep == Inv /\ [Next]_vars => Inv'
<1> SUFFICES ASSUME Inv, [Next]_vars PROVE Inv'
  OBVIOUS
<1>1. CASE UNCHANGED vars
  BY <1>1 DEF vars, Inv, TypeOK, CacheInv, row
<1> QED
  BY <1>1, InvStart, InvDispatch, InvCompile, InvHandle DEF Next, Step

(***************************************************************************)
(* The stack keeps to its array, the pc to the program, and the cell that   *)
(* is run to its row, whatever program is traced.                           *)
(***************************************************************************)
THEOREM TypeCorrect == Spec => []TypeOK
<1>1. Inv => TypeOK
  BY DEF Inv
<1> QED
  BY <1>1, InvInit, InvStep, PTL DEF Spec

(* The rows of the invariant are closed and fit into their arrays. *)
LEMMA InvRows == Inv => RowsClosed
<1> SUFFICES ASSUME Inv, NEW a \in Addresses(bytecode)
             PROVE  LET r == trace_cache[a]
                        n == Len(r)
                        beingWritten == mode = "compile" /\ head = a
                        ends(i) == r[i].handler \in FinalOps \cup BranchOps \cup {"TAIL"}
                    IN  /\ n <= MaxTraceLen
                        /\ r # <<>> /\ ~beingWritten => ends(n)
                        /\ \A i \in 1 .. n : ends(i) => i = n
                        /\ \A i \in 1 .. n : r[i].handler \in BranchOps =>
                             i > 1 /\ r[i - 1].handler = "PREJUMP"
  BY DEF Inv, TypeOK, RowsClosed
<1> DEFINE r == trace_cache[a]
<1>1. r \in Seq(Cells)
  BY DEF Inv, CacheInv
<1>2. CASE r = <<>>
  BY <1>2, TraceAssumption
<1>3. CASE Whole(bytecode, a, r) /\ r # <<>>
  <2>1. Len(r) \in 1 .. Len(r)
    BY <1>1, <1>3
  <2> HIDE DEF r
  <2>2. Len(r) <= MaxTraceLen
    BY <1>1, <1>3, <2>1, WholeCells
  <2>3. \A i \in 1 .. Len(r) :
          /\ r[i].handler \in FinalOps \cup BranchOps \cup {"TAIL"} <=> i = Len(r)
          /\ r[i].handler \in BranchOps => i > 1 /\ r[i - 1].handler = "PREJUMP"
    BY <1>1, <1>3, WholeCells
  <2> QED
    BY <2>1, <2>2, <2>3 DEF r
<1>4. CASE mode = "compile" /\ head = a
  <2>1. Len(r) <= MaxTraceLen - 2 /\ Straight(bytecode, a, r, Len(r))
    BY <1>4 DEF Inv, CacheInv, Open, row
  <2>2. \A i \in 1 .. Len(r) : r[i].handler \in DataOps
    BY <2>1 DEF Straight, Compiled
  <2>3. \A i \in 1 .. Len(r) : r[i].handler \notin FinalOps \cup BranchOps \cup {"TAIL"}
    BY <2>2, Kinds
  <2>4. Len(r) <= MaxTraceLen
    BY <1>1, <2>1, TraceAssumption
  <2> QED
    BY <1>4, <2>3, <2>4
<1> QED
  BY <1>2, <1>3, <1>4 DEF Inv, CacheInv

(***************************************************************************)
(* The compiler of traces never writes past the end of a row, and control   *)
(* never runs off the end of one: it leaves through a final instruction, a  *)
(* branch behind its prejump, or a tail.                                    *)
(***************************************************************************)
THEOREM Rows == Spec => []RowsClosed
<1> QED
  BY InvInit, InvStep, InvRows, PTL DEF Spec

-----------------------------------------------------------------------------
(* A traced program implements the machine of PigletMachine. *)

(* The instance of the machine reads the same instruction set. *)
LEMMA SameCode ==
  /\ Machine!DataOps = DataOps /\ Machine!BranchOps = BranchOps /\ Machine!FinalOps = FinalOps
  /\ Machine!Zeroed = Zeroed
  /\ \A code : Machine!Addresses(code) = Addresses(code)
  /\ \A code, a : Machine!At(code, a) = At(code, a)
  /\ \A i : Machine!Known(i) = Known(i)
<1>1. /\ Machine!DataOps = DataOps /\ Machine!BranchOps = BranchOps /\ Machine!FinalOps = FinalOps
      /\ Machine!Zeroed = Zeroed
  BY DEF Machine!DataOps, DataOps, Machine!PushOps, PushOps, Machine!TopOps, TopOps,
         Machine!BinaryOps, BinaryOps, Machine!PopOps, PopOps, Machine!BranchOps, BranchOps,
         Machine!FinalOps, FinalOps, Machine!Zeroed, Zeroed, Machine!Address, Address
<1>2. \A code : Machine!Addresses(code) = Addresses(code)
  BY DEF Machine!Addresses, Addresses
<1>3. \A code, a : Machine!At(code, a) = At(code, a)
  BY DEF Machine!At, At, Machine!Op, Op
<1>4. \A i : Machine!Known(i) = Known(i)
  BY DEF Machine!Known, Known
<1> QED
  BY <1>1, <1>2, <1>3, <1>4

(* It follows the same jumps. *)
LEMMA SameSettle ==
  ASSUME NEW code, NEW a
  PROVE  Machine!Settle(code, a) = Settle(code, a)
<1>1. Machine!Jumps(code) = Jumps(code)
  BY SameCode DEF Machine!Jumps, Jumps
<1>2. \A from, S : Machine!Closed(code, from, S) = Closed(code, from, S)
  BY <1>1, SameCode DEF Machine!Closed, Closed
<1>3. \A from : Machine!JumpsFrom(code, from) = JumpsFrom(code, from)
  BY <1>1, <1>2 DEF Machine!JumpsFrom, JumpsFrom
<1> QED
  BY <1>1, <1>3, SameCode DEF Machine!Settle, Settle

(* Its instructions have the same operands and the same effect. *)
LEMMA SameEffect ==
  ASSUME NEW i, NEW d, NEW n, NEW top
  PROVE  /\ Machine!Effect(i, d) = Effect(i, d)
         /\ Machine!Popped(d) = Popped(d)
         /\ Machine!Fits(i, n) = Fits(i, n)
         /\ Machine!DividesByZero(i, top) = DividesByZero(i, top)
         /\ Machine!Taken(i, top) = Taken(i, top)
         /\ Machine!Top(d.stack) = Top(d.stack)
<1>1. Machine!Fits(i, n) = Fits(i, n)
  BY DEF Machine!Fits, Fits, Machine!Needs, Needs, Machine!DepthAfter, DepthAfter,
         Machine!PushOps, PushOps, Machine!TopOps, TopOps, Machine!BinaryOps, BinaryOps,
         Machine!PopOps, PopOps, Machine!BranchOps, BranchOps
<1>2. /\ Machine!Popped(d) = Popped(d)
      /\ Machine!DividesByZero(i, top) = DividesByZero(i, top)
      /\ Machine!Taken(i, top) = Taken(i, top)
      /\ Machine!Top(d.stack) = Top(d.stack)
  BY DEF Machine!Popped, Popped, Machine!Drop, Drop, Machine!DividesByZero, DividesByZero,
         Machine!Taken, Taken, Machine!Top, Top
<1>3. Machine!Effect(i, d) = Effect(i, d)
  BY DEF Machine!Effect, Effect, Machine!Stored, Stored, Machine!StackAfter, StackAfter,
         Machine!Pushed, Pushed, Machine!Replaced, Replaced, Machine!Binary, Binary,
         Machine!Bool, Bool, Machine!Top, Top, Machine!Below, Below, Machine!Drop, Drop,
         Machine!PushOps, PushOps, Machine!TopOps, TopOps, Machine!BinaryOps, BinaryOps
<1> QED
  BY <1>1, <1>2, <1>3

(* Only an instruction of the program can be unknown. *)
LEMMA UnknownInside ==
  ASSUME TypeOK, ~Known(Read)
  PROVE  \E i \in 1 .. Len(bytecode) : ~Machine!Known(bytecode[i])
<1>1. Known(Op("ABORT"))
  BY DEF Known, Op
<1>2. at < Len(bytecode) /\ Read = bytecode[at + 1]
  BY <1>1 DEF Read, At
<1>3. at + 1 \in 1 .. Len(bytecode)
  BY <1>2, CodeInside DEF Addresses
<1> QED
  BY <1>2, <1>3, SameCode

(* A cell that stands for an instruction is where the machine is. *)
LEMMA MachineHere ==
  ASSUME Inv, mode = "run", status = "running", NEW ops, "JUMP" \notin ops,
         Compiled(bytecode, row[k], ops)
  PROVE  /\ Machine!Running(ops) /\ Settle(bytecode, current) = row[k].src
         /\ Machine!Current = Operation
         /\ Machine!Operands <=> Operands
<1>1. current = row[k].src /\ TypeOK
  BY DEF current, Inv
<1>2. /\ Operation = At(bytecode, row[k].src) /\ Operation.op \in ops
      /\ row[k].src \in Addresses(bytecode)
  BY <1>1, CellInstruction DEF Compiled
<1>3. Settle(bytecode, row[k].src) = row[k].src
  BY <1>2, SettleHere
<1>4. Machine!Current = Operation
  BY <1>1, <1>2, <1>3, SameCode DEF Machine!Current
<1>5. Machine!Operands <=> Operands
  BY <1>4, SameEffect DEF Machine!Operands, Operands
<1> QED
  BY <1>1, <1>2, <1>3, <1>4, <1>5, SameCode DEF Machine!Running

(* Before the first run both are at the ABORT of an empty program. *)
LEMMA ImplementsInit == Init => Machine!Init
<1> SUFFICES ASSUME Init PROVE Machine!Init
  OBVIOUS
<1>1. At(<<>>, 0).op = "ABORT"
  BY DEF At, Op
<1>2. bytecode = <<>> /\ current = 0
  BY DEF Init, current
<1> QED
  BY <1>1, <1>2, SettleHere, SameCode DEF Init, Machine!Init

(* Looking a row up, and writing one, takes no step of the machine. *)
LEMMA ImplementsWriting ==
  Inv /\ (Dispatch \/ Compile) => [Machine!Next]_(Machine!vars)
<1> SUFFICES ASSUME Inv, Dispatch \/ Compile PROVE [Machine!Next]_(Machine!vars)
  OBVIOUS
<1>1. TypeOK /\ CacheInv /\ Inv'
  BY InvDispatch, InvCompile DEF Inv
<1>2. mode' = "run" /\ head' \in Addresses(bytecode') =>
        Settle(bytecode', head') = Settle(bytecode', row'[1].src)
  <2>1. SUFFICES ASSUME mode' = "run"
                 PROVE  Settle(bytecode', head') = Settle(bytecode', row'[1].src)
    OBVIOUS
  <2>2. row' \in Seq(Cells) /\ Whole(bytecode', head', row') /\ k' \in 1 .. Len(row')
    BY <1>1, <2>1 DEF Inv, TypeOK, CacheInv, row
  <2> QED
    BY <2>2, WholeCells
<1>3. head' \in Addresses(bytecode')
  BY <1>1 DEF Inv, TypeOK
<1>4. CASE Dispatch
  <2>1. current = pc /\ head' = pc /\ UNCHANGED <<bytecode, data, status>>
    BY <1>4 DEF Dispatch, In, current
  <2>2. current' = head' \/ (mode' = "run" /\ current' = row'[1].src)
    BY <1>4 DEF Dispatch, current
  <2>3. Settle(bytecode', current') = Settle(bytecode, current)
    BY <1>2, <1>3, <2>1, <2>2
  <2> QED
    BY <2>1, <2>3 DEF Machine!vars
<1>5. CASE Compile /\ ~CompileUnknown
  <2>1. current = head /\ head' = head /\ UNCHANGED <<bytecode, data, status>>
    BY <1>5 DEF Compile, CompileOp, CompileJump, CompileFinal, CompileBranch, CompileTail,
                RunRow, In, current
  <2>2. current' = head' \/ (mode' = "run" /\ current' = row'[1].src)
    BY <1>5 DEF Compile, CompileOp, CompileJump, CompileFinal, CompileBranch, CompileTail,
                RunRow, In, current
  <2>3. Settle(bytecode', current') = Settle(bytecode, current)
    BY <1>2, <1>3, <2>1, <2>2
  <2> QED
    BY <2>1, <2>3 DEF Machine!vars
<1>6. CASE CompileUnknown
  <2>1. status = "running" /\ ~Known(Read) /\ bytecode' = bytecode
    BY <1>6 DEF CompileUnknown, In
  <2>2. Machine!UnknownOpcode
    BY <1>1, <2>1, UnknownInside DEF Machine!UnknownOpcode
  <2> QED
    BY <2>2 DEF Machine!Next
<1> QED
  BY <1>4, <1>5, <1>6

(* Each handler of a row executes the instruction whose turn it is. *)
LEMMA ImplementsHandling == Inv /\ Handle => [Machine!Next]_(Machine!vars)
<1> SUFFICES ASSUME Inv, Handle PROVE [Machine!Next]_(Machine!vars)
  OBVIOUS
<1>1. /\ status = "running" /\ mode = "run" /\ TypeOK
      /\ row \in Seq(Cells) /\ Whole(bytecode, head, row) /\ k \in 1 .. Len(row)
  <2>1. status = "running" /\ mode = "run"
    BY DEF Handle, RunOp, RunDivideByZero, RunPrejump, RunBranch, RunTail, RunFinal,
           RunUndefined, Calls, In
  <2> QED
    BY <2>1, RowRuns DEF Inv
<1>2. bytecode' = bytecode /\ row' = row /\ current = row[k].src
  BY <1>1 DEF Handle, RunOp, RunDivideByZero, RunPrejump, RunBranch, RunTail, RunFinal,
         RunUndefined, row, current
<1>3. CASE RunOp
  <2>1. /\ row[k].handler \in DataOps /\ Operands /\ ~DividesByZero(Operation, Top(data.stack))
        /\ data' = Effect(Operation, data) /\ k' = k + 1 /\ mode' = mode /\ status' = status
    BY <1>3 DEF RunOp, Calls
  <2>2. /\ Compiled(bytecode, row[k], DataOps)
        /\ Settle(bytecode, row[k].src + 1) = Settle(bytecode, row[k + 1].src)
    BY <1>1, <2>1, WholeCells
  <2>3. "JUMP" \notin DataOps
    BY Kinds
  <2>4. /\ Machine!Running(DataOps) /\ Settle(bytecode, current) = row[k].src
        /\ Machine!Current = Operation /\ Machine!Operands
    BY <1>1, <2>1, <2>2, <2>3, MachineHere
  <2>5. current' = row[k + 1].src
    BY <1>1, <1>2, <2>1 DEF current
  <2>6. Machine!Execute
    BY <1>2, <2>1, <2>2, <2>4, <2>5, SameCode, SameSettle, SameEffect DEF Machine!Execute
  <2> QED
    BY <2>6 DEF Machine!Next
<1>4. CASE RunDivideByZero
  <2>1. /\ row[k].handler = "DIV" /\ Operands /\ DividesByZero(Operation, Top(data.stack))
        /\ data' = Popped(data) /\ k' = k /\ mode' = mode
        /\ status' = "ERROR_DIVISION_BY_ZERO"
    BY <1>4 DEF RunDivideByZero, Calls
  <2>2. Compiled(bytecode, row[k], {"DIV"})
    <3>1. row[k].handler \in DataOps
      BY <2>1 DEF DataOps, BinaryOps
    <3>2. Compiled(bytecode, row[k], DataOps)
      BY <1>1, <3>1, WholeCells
    <3> QED
      BY <2>1, <3>2 DEF Compiled
  <2>3. Machine!Running({"DIV"}) /\ Machine!Current = Operation /\ Machine!Operands
    BY <1>1, <2>1, <2>2, MachineHere
  <2>4. current' = current
    BY <1>1, <1>2, <2>1 DEF current
  <2>5. Machine!DivideByZero
    BY <1>2, <2>1, <2>3, <2>4, SameEffect DEF Machine!DivideByZero
  <2> QED
    BY <2>5 DEF Machine!Next
<1>5. CASE RunPrejump
  <2>1. row[k].handler = "PREJUMP" /\ k' = k + 1 /\ UNCHANGED <<data, status, mode>>
    BY <1>5 DEF RunPrejump, Calls
  <2>2. row[k + 1].src = row[k].src
    BY <1>1, <2>1, WholeCells
  <2>3. current' = current
    BY <1>1, <1>2, <2>1, <2>2 DEF current
  <2> QED
    BY <1>2, <2>1, <2>3 DEF Machine!vars
<1>6. CASE RunBranch
  <2>1. /\ row[k].handler \in BranchOps /\ Operands /\ data' = Popped(data)
        /\ pc' = IF Taken(Operation, Top(data.stack)) THEN row[k].arg ELSE pc
        /\ mode' = "dispatch" /\ status' = status
    BY <1>6 DEF RunBranch, Calls
  <2>2. Compiled(bytecode, row[k], BranchOps)
    BY <1>1, <2>1, WholeCells
  <2>3. "JUMP" \notin BranchOps
    BY DEF BranchOps
  <2>4. /\ Machine!Running(BranchOps) /\ Settle(bytecode, current) = row[k].src
        /\ Machine!Current = Operation /\ Machine!Operands
    BY <1>1, <2>1, <2>2, <2>3, MachineHere
  <2>5. pc = row[k].src + 1 /\ Operation.arg = row[k].arg
    BY <1>1, <2>1 DEF Inv, CacheInv, Operation
  <2>6. current' = IF Taken(Operation, Top(data.stack)) THEN Operation.arg ELSE row[k].src + 1
    BY <2>1, <2>5 DEF current
  <2>7. Machine!Branch
    BY <1>2, <2>1, <2>4, <2>6, SameCode, SameSettle, SameEffect DEF Machine!Branch
  <2> QED
    BY <2>7 DEF Machine!Next
<1>7. CASE RunTail
  <2>1. /\ row[k].handler = "TAIL" /\ pc' = row[k].arg /\ mode' = "dispatch"
        /\ UNCHANGED <<data, status>>
    BY <1>7 DEF RunTail, Calls
  <2>2. row[k].arg = row[k].src
    BY <1>1, <2>1, WholeCells DEF IsTail
  <2>3. current' = current
    BY <1>2, <2>1, <2>2 DEF current
  <2> QED
    BY <1>2, <2>1, <2>3 DEF Machine!vars
<1>8. CASE RunFinal
  <2>1. /\ row[k].handler \in FinalOps
        /\ status' = IF row[k].handler = "DONE" THEN "SUCCESS" ELSE "ERROR_END_OF_STREAM"
        /\ UNCHANGED <<data, mode, k>>
    BY <1>8 DEF RunFinal, Calls
  <2>2. IsFinal(bytecode, row[k])
    BY <1>1, <2>1, WholeCells
  <2>3. At(bytecode, current).op = row[k].handler /\ current \in Addresses(bytecode)
    BY <1>2, <2>2 DEF IsFinal
  <2>4. Settle(bytecode, current) = current
    BY <2>1, <2>3, SettleHere DEF FinalOps
  <2>5. current' = current
    BY <1>1, <1>2, <2>1 DEF current
  <2>6. Machine!Stop
    BY <1>1, <1>2, <2>1, <2>3, <2>4, <2>5, SameCode
       DEF Machine!Stop, Machine!Running, Machine!Current
  <2> QED
    BY <2>6 DEF Machine!Next
<1>9. CASE RunUndefined
  <2>1. /\ row[k].handler \in DataOps \cup BranchOps /\ ~Operands
        /\ status' = "UNDEFINED" /\ UNCHANGED <<data, mode, k>>
    BY <1>9 DEF RunUndefined, Calls
  <2>2. Compiled(bytecode, row[k], DataOps \cup BranchOps)
    BY <1>1, <2>1, WholeCells DEF Compiled
  <2>3. "JUMP" \notin DataOps \cup BranchOps
    BY Kinds DEF BranchOps
  <2>4. Machine!Running(DataOps \cup BranchOps) /\ ~Machine!Operands
    BY <1>1, <2>1, <2>2, <2>3, MachineHere
  <2>5. current' = current
    BY <1>1, <1>2, <2>1 DEF current
  <2>6. Machine!Undefined
    BY <1>2, <2>1, <2>4, <2>5, SameCode DEF Machine!Undefined
  <2> QED
    BY <2>6 DEF Machine!Next
<1> QED
  BY <1>3, <1>4, <1>5, <1>6, <1>7, <1>8, <1>9 DEF Handle

(* Each step is a step of the machine or none. *)
LEMMA ImplementsStep == Inv /\ [Next]_vars => [Machine!Next]_(Machine!vars)
<1> SUFFICES ASSUME Inv, [Next]_vars PROVE [Machine!Next]_(Machine!vars)
  OBVIOUS
<1>1. CASE Start
  <2>1. current' = 0
    BY <1>1 DEF Start, current
  <2> QED
    BY <1>1, <2>1, SameCode, SameSettle DEF Start, Machine!Start, Machine!Next
<1>2. CASE UNCHANGED vars
  BY <1>2 DEF vars, Machine!vars, current, row
<1> QED
  BY <1>1, <1>2, ImplementsWriting, ImplementsHandling DEF Next, Step

(***************************************************************************)
(* A program compiled into traces behaves as the one that is interpreted:   *)
(* each handler called has the effect of the instruction whose turn it is,  *)
(* whichever rows were written before and however long a trace may be.      *)
(***************************************************************************)
THEOREM Implementation == Spec => ImplementsPigletMachine
<1> QED
  BY InvInit, InvStep, ImplementsInit, ImplementsStep, PTL
     DEF Spec, ImplementsPigletMachine, Machine!Spec

-----------------------------------------------------------------------------
(* A run of known instructions goes the one way the program can go.           *)
here == Moment(Settle(bytecode, current), data, status)

(* Every step belongs to a run. *)
LEMMA StepRuns == Step => bytecode' = bytecode /\ status = "running"
  BY DEF Step, Dispatch, Compile, CompileOp, CompileJump, CompileFinal, CompileBranch, CompileTail,
         CompileUnknown, RunRow, Handle, RunOp, RunDivideByZero, RunPrejump, RunBranch, RunTail,
         RunFinal, RunUndefined, Calls, In

(* A step of the interpreter changes nothing, or is the next step on the way. *)
LEMMA Follows ==
  ASSUME Inv, AllKnown(bytecode), Step
  PROVE  bytecode' = bytecode /\ status = "running" /\ here' \in {here, After(bytecode, here)}
<1> DEFINE i == At(bytecode, here.ip)
<1>1. bytecode' = bytecode /\ status = "running"
  BY StepRuns
<1> SUFFICES here' \in {here, After(bytecode, here)}
  BY <1>1
<1>2. Machine!Next \/ UNCHANGED Machine!vars
  BY ImplementsStep DEF Next
<1>3. /\ here.ip = Settle(bytecode, current) /\ here.data = data /\ here.status = status
      /\ here' = Moment(Settle(bytecode, current)', data', status')
      /\ Machine!Current = i /\ Top(data.stack) = Machine!Top(data.stack)
      /\ Machine!Operands <=> Fits(i, Len(data.stack))
  BY SameCode, SameEffect DEF here, Moment, Machine!Current, Machine!Operands
<1>4. ~Machine!UnknownOpcode /\ ~Machine!Start
  BY <1>1, SameCode DEF AllKnown, Machine!UnknownOpcode, Machine!Start
<1>5. CASE UNCHANGED Machine!vars
  BY <1>5 DEF Machine!vars, here
<1> HIDE DEF i
<1>6. CASE Machine!Execute
  <2>1. /\ i.op \in DataOps /\ Fits(i, Len(data.stack)) /\ ~DividesByZero(i, Top(data.stack))
        /\ here' = Moment(Settle(bytecode, here.ip + 1), Effect(i, data), "running")
    BY <1>1, <1>3, <1>6, SameCode, SameEffect, SameSettle DEF Machine!Execute, Machine!Running
  <2> QED
    BY <2>1, <1>3, AfterCases DEF i
<1>7. CASE Machine!DivideByZero
  <2>1. /\ i.op = "DIV" /\ Fits(i, Len(data.stack)) /\ DividesByZero(i, Top(data.stack))
        /\ here' = Moment(here.ip, Popped(data), "ERROR_DIVISION_BY_ZERO")
    BY <1>3, <1>7, SameEffect DEF Machine!DivideByZero, Machine!Running
  <2> QED
    BY <2>1, <1>3, AfterCases DEF i
<1>8. CASE Machine!Branch
  <2>1. /\ i.op \in BranchOps /\ Fits(i, Len(data.stack))
        /\ here' = Moment(Settle(bytecode, IF Taken(i, Top(data.stack)) THEN i.arg ELSE here.ip + 1),
                          Popped(data), "running")
    BY <1>1, <1>3, <1>8, SameCode, SameEffect, SameSettle DEF Machine!Branch, Machine!Running
  <2> QED
    BY <2>1, <1>3, AfterCases DEF i
<1>9. CASE Machine!Stop
  BY <1>3, <1>9, SameCode, AfterCases DEF Machine!Stop, Machine!Running, i
<1>10. CASE Machine!Undefined
  <2>1. /\ i.op \in DataOps \cup BranchOps /\ ~Fits(i, Len(data.stack))
        /\ here' = Moment(here.ip, data, "UNDEFINED")
    BY <1>3, <1>10, SameCode DEF Machine!Undefined, Machine!Running
  <2> QED
    BY <2>1, <1>3, AfterCases DEF i
<1> QED
  BY <1>1, <1>2, <1>4, <1>5, <1>6, <1>7, <1>8, <1>9, <1>10 DEF Machine!Next

(* A run of a program stays on that way, from its start on. *)
OnPath == status # "off" /\ AllKnown(bytecode) => here \in Path(bytecode)

(* A call begins where the way begins, whatever was run before. *)
LEMMA PathStart == Start => bytecode' \in Seq(Instruction) /\ here' \in Path(bytecode')
<1> SUFFICES ASSUME Start PROVE bytecode' \in Seq(Instruction) /\ here' \in Path(bytecode')
  OBVIOUS
<1>1. bytecode' \in Seq(Instruction)
  BY TraceAssumption DEF Start, WellFormed
<1>2. here' = Begin(bytecode')
  BY DEF Start, here, Begin, current
<1> QED
  BY <1>1, <1>2, PathContinued

(* A step stays on the way. *)
LEMMA PathStep == Inv /\ OnPath /\ [Next]_vars => OnPath'
<1> SUFFICES ASSUME Inv, OnPath, [Next]_vars, status' # "off", AllKnown(bytecode')
             PROVE  here' \in Path(bytecode')
  BY DEF OnPath
<1>1. CASE Start
  BY <1>1, PathStart
<1>2. CASE Step
  <2>1. bytecode' = bytecode /\ status = "running"
    BY <1>2, StepRuns
  <2>2. here \in Path(bytecode) /\ here.status = "running" /\ bytecode \in Seq(Instruction)
    BY <2>1, CodeInside DEF OnPath, here, Moment, Inv
  <2>3. here' \in {here, After(bytecode, here)}
    BY <1>2, <2>1, Follows
  <2> QED
    BY <2>1, <2>2, <2>3, PathContinued
<1>3. CASE UNCHANGED vars
  BY <1>3 DEF vars, here, OnPath, current, row
<1> QED
  BY <1>1, <1>2, <1>3 DEF Next

(***************************************************************************)
(* Nor do the rows settle what is computed: a traced run of known           *)
(* instructions follows the way of the interpreted one, and so ends as it   *)
(* does, wherever the rows were cut and whatever was run before.            *)
(***************************************************************************)
THEOREM OneWay == Spec => []OnPath
<1>1. Init => OnPath
  BY DEF Init, OnPath
<1> QED
  BY <1>1, InvInit, InvStep, PathStep, PTL DEF Spec

=============================================================================
