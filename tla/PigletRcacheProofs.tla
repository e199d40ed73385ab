------------------------- MODULE PigletRcacheProofs -------------------------
(***************************************************************************)
(* The interpreters of pigletvm-rcache.c without traces, for every program, *)
(* word, memory and stack size: the register "acc" is invisible.            *)
(***************************************************************************)
EXTENDS PigletRcache, PigletISAProofs

-----------------------------------------------------------------------------
(* What the array s and the register a stand for.                             *)

SeenStack(s, a) == IF s = <<>> THEN <<>> ELSE Append(Tail(s), a)

(* A sequence is determined by its length and its elements. *)
LEMMA SameSequence ==
  ASSUME NEW s \in Seq(Word), NEW t \in Seq(Word), Len(s) = Len(t),
         \A i \in 1 .. Len(s) : s[i] = t[i]
  PROVE  s = t
  OBVIOUS

(* The stack seen is as high as the array. *)
LEMMA SeenType ==
  ASSUME NEW s \in Seq(Word), NEW a \in Word
  PROVE  /\ SeenStack(s, a) \in Seq(Word)
         /\ Len(SeenStack(s, a)) = Len(s)
         /\ \A i \in 1 .. Len(s) : SeenStack(s, a)[i] = IF i = Len(s) THEN a ELSE s[i + 1]
<1>1. CASE s = <<>>
  BY <1>1 DEF SeenStack
<1>2. CASE s # <<>>
  <2>1. /\ Tail(s) \in Seq(Word) /\ Len(Tail(s)) = Len(s) - 1
        /\ \A i \in 1 .. Len(s) - 1 : Tail(s)[i] = s[i + 1]
    BY <1>2
  <2>2. SeenStack(s, a) = Append(Tail(s), a)
    BY <1>2 DEF SeenStack
  <2>3. /\ Append(Tail(s), a) \in Seq(Word) /\ Len(Append(Tail(s), a)) = Len(s)
        /\ Append(Tail(s), a)[Len(s)] = a
        /\ \A i \in 1 .. Len(s) - 1 : Append(Tail(s), a)[i] = Tail(s)[i]
    BY <2>1
  <2>4. ASSUME NEW i \in 1 .. Len(s)
        PROVE  Append(Tail(s), a)[i] = IF i = Len(s) THEN a ELSE s[i + 1]
    <3>1. i # Len(s) => i \in 1 .. Len(s) - 1
      OBVIOUS
    <3> QED
      BY <2>1, <2>3, <3>1
  <2> QED
    BY <2>2, <2>3, <2>4
<1> QED
  BY <1>1, <1>2

(* What lies below the top, by place. *)
LEMMA DropPlaces ==
  ASSUME NEW s \in Seq(Word), NEW n \in 0 .. Len(s)
  PROVE  /\ Drop(s, n) \in Seq(Word) /\ Len(Drop(s, n)) = Len(s) - n
         /\ \A i \in 1 .. Len(s) - n : Drop(s, n)[i] = s[i]
  BY DEF Drop

(* The top of the stack seen is acc, and the array holds what lies below it. *)
LEMMA SeenTops ==
  ASSUME NEW s \in Seq(Word), NEW a \in Word
  PROVE  /\ Len(s) >= 1 => Top(SeenStack(s, a)) = a
         /\ Len(s) >= 2 => Below(SeenStack(s, a)) = Top(s)
<1>1. /\ Len(SeenStack(s, a)) = Len(s)
      /\ \A i \in 1 .. Len(s) : SeenStack(s, a)[i] = IF i = Len(s) THEN a ELSE s[i + 1]
  BY SeenType
<1> QED
  BY <1>1 DEF Top, Below

(* A PUSH spills acc to the array. *)
LEMMA SeenPush ==
  ASSUME NEW s \in Seq(Word), NEW a \in Word, NEW v \in Word
  PROVE  SeenStack(Append(s, a), v) = Append(SeenStack(s, a), v)
<1> DEFINE l == SeenStack(Append(s, a), v)
           r == Append(SeenStack(s, a), v)
<1>1. /\ Append(s, a) \in Seq(Word) /\ Len(Append(s, a)) = Len(s) + 1
      /\ \A i \in 1 .. Len(s) : Append(s, a)[i] = s[i]
      /\ Append(s, a)[Len(s) + 1] = a
  OBVIOUS
<1>2. /\ l \in Seq(Word) /\ Len(l) = Len(s) + 1
      /\ \A i \in 1 .. Len(s) + 1 : l[i] = IF i = Len(s) + 1 THEN v ELSE Append(s, a)[i + 1]
  <2> DEFINE q == Append(s, a)
  <2>1. q \in Seq(Word) /\ Len(q) = Len(s) + 1
    BY <1>1
  <2> HIDE DEF q
  <2>2. /\ SeenStack(q, v) \in Seq(Word) /\ Len(SeenStack(q, v)) = Len(q)
        /\ \A i \in 1 .. Len(q) : SeenStack(q, v)[i] = IF i = Len(q) THEN v ELSE q[i + 1]
    BY <2>1, SeenType
  <2> QED
    BY <2>1, <2>2 DEF q
<1>3. /\ SeenStack(s, a) \in Seq(Word) /\ Len(SeenStack(s, a)) = Len(s)
      /\ \A i \in 1 .. Len(s) : SeenStack(s, a)[i] = IF i = Len(s) THEN a ELSE s[i + 1]
  BY SeenType
<1>4. /\ r \in Seq(Word) /\ Len(r) = Len(s) + 1
      /\ \A i \in 1 .. Len(s) : r[i] = SeenStack(s, a)[i]
      /\ r[Len(s) + 1] = v
  BY <1>3
<1> HIDE DEF l, r
<1>5. \A i \in 1 .. Len(s) + 1 : l[i] = r[i]
  <2> SUFFICES ASSUME NEW i \in 1 .. Len(s) + 1 PROVE l[i] = r[i]
    OBVIOUS
  <2>1. CASE i = Len(s) + 1
    BY <2>1, <1>2, <1>4
  <2>2. CASE i = Len(s)
    BY <2>2, <1>1, <1>2, <1>3, <1>4
  <2>3. CASE i \in 1 .. Len(s) - 1
    <3>1. i \in 1 .. Len(s) /\ i + 1 \in 1 .. Len(s) /\ i # Len(s) /\ i # Len(s) + 1
      BY <2>3
    <3>2. l[i] = s[i + 1]
      BY <3>1, <1>1, <1>2
    <3>3. r[i] = s[i + 1]
      BY <3>1, <1>3, <1>4
    <3> QED
      BY <3>2, <3>3
  <2> QED
    BY <2>1, <2>2, <2>3
<1>6. l = r
  BY <1>2, <1>4, <1>5, SameSequence
<1> QED
  BY <1>6 DEF l, r

(* A POP refills acc from the array. *)
LEMMA SeenPop ==
  ASSUME NEW s \in Seq(Word), NEW a \in Word, Len(s) >= 1
  PROVE  SeenStack(Drop(s, 1), Top(s)) = Drop(SeenStack(s, a), 1)
<1> DEFINE d == Drop(s, 1)
           l == SeenStack(d, Top(s))
           r == Drop(SeenStack(s, a), 1)
<1>1. d \in Seq(Word) /\ Len(d) = Len(s) - 1 /\ \A i \in 1 .. Len(s) - 1 : d[i] = s[i]
  BY DropPlaces
<1>2. Top(s) = s[Len(s)] /\ Top(s) \in Word
  BY TopsInWord DEF Top
<1>3. /\ l \in Seq(Word) /\ Len(l) = Len(s) - 1
      /\ \A i \in 1 .. Len(s) - 1 : l[i] = IF i = Len(s) - 1 THEN Top(s) ELSE d[i + 1]
  <2> HIDE DEF d
  <2>1. /\ SeenStack(d, Top(s)) \in Seq(Word) /\ Len(SeenStack(d, Top(s))) = Len(d)
        /\ \A i \in 1 .. Len(d) :
             SeenStack(d, Top(s))[i] = IF i = Len(d) THEN Top(s) ELSE d[i + 1]
    BY <1>1, <1>2, SeenType
  <2> QED
    BY <1>1, <2>1
<1>4. /\ SeenStack(s, a) \in Seq(Word) /\ Len(SeenStack(s, a)) = Len(s)
      /\ \A i \in 1 .. Len(s) : SeenStack(s, a)[i] = IF i = Len(s) THEN a ELSE s[i + 1]
  BY SeenType
<1>5. /\ r \in Seq(Word) /\ Len(r) = Len(s) - 1
      /\ \A i \in 1 .. Len(s) - 1 : r[i] = SeenStack(s, a)[i]
  BY <1>4, DropPlaces
<1> HIDE DEF d, l, r
<1>6. \A i \in 1 .. Len(s) - 1 : l[i] = r[i]
  <2> SUFFICES ASSUME NEW i \in 1 .. Len(s) - 1 PROVE l[i] = r[i]
    OBVIOUS
  <2>1. r[i] = s[i + 1]
    <3>1. r[i] = SeenStack(s, a)[i]
      BY <1>5
    <3>2. i \in 1 .. Len(s) /\ i # Len(s)
      BY <1>1
    <3> QED
      BY <1>4, <3>1, <3>2, Zenon
  <2>2. CASE i = Len(s) - 1
    BY <2>1, <2>2, <1>2, <1>3
  <2>3. CASE i # Len(s) - 1
    <3>1. i + 1 \in 1 .. Len(s) - 1
      BY <2>3
    <3> QED
      BY <2>1, <2>3, <3>1, <1>1, <1>3
  <2> QED
    BY <2>2, <2>3
<1>7. l = r
  BY <1>3, <1>5, <1>6, SameSequence
<1> QED
  BY <1>7 DEF d, l, r

(* Two POPs, and a POP whose value is replaced. *)
LEMMA SeenPops ==
  ASSUME NEW s \in Seq(Word), NEW a \in Word, NEW v \in Word
  PROVE  /\ Len(s) >= 1 => SeenStack(s, v) = Append(Drop(SeenStack(s, a), 1), v)
         /\ Len(s) >= 2 =>
              /\ SeenStack(Drop(s, 1), v) = Append(Drop(SeenStack(s, a), 2), v)
              /\ SeenStack(Drop(Drop(s, 1), 1), Below(s)) = Drop(SeenStack(s, a), 2)
<1>1. ASSUME NEW t \in Seq(Word), NEW b \in Word, Len(t) >= 1
      PROVE  SeenStack(t, v) = Append(Drop(SeenStack(t, b), 1), v)
  <2> DEFINE l == SeenStack(t, v)
             r == Append(Drop(SeenStack(t, b), 1), v)
  <2>1. /\ l \in Seq(Word) /\ Len(l) = Len(t)
        /\ \A i \in 1 .. Len(t) : l[i] = IF i = Len(t) THEN v ELSE t[i + 1]
    BY SeenType
  <2>2. /\ SeenStack(t, b) \in Seq(Word) /\ Len(SeenStack(t, b)) = Len(t)
        /\ \A i \in 1 .. Len(t) : SeenStack(t, b)[i] = IF i = Len(t) THEN b ELSE t[i + 1]
    BY SeenType
  <2>3. /\ Drop(SeenStack(t, b), 1) \in Seq(Word) /\ Len(Drop(SeenStack(t, b), 1)) = Len(t) - 1
        /\ \A i \in 1 .. Len(t) - 1 : Drop(SeenStack(t, b), 1)[i] = SeenStack(t, b)[i]
    BY <1>1, <2>2, DropPlaces
  <2>4. /\ r \in Seq(Word) /\ Len(r) = Len(t) /\ r[Len(t)] = v
        /\ \A i \in 1 .. Len(t) - 1 : r[i] = Drop(SeenStack(t, b), 1)[i]
    BY <2>3
  <2> HIDE DEF l, r
  <2>5. \A i \in 1 .. Len(t) : l[i] = r[i]
    <3> SUFFICES ASSUME NEW i \in 1 .. Len(t) PROVE l[i] = r[i]
      OBVIOUS
    <3>1. CASE i = Len(t)
      BY <3>1, <2>1, <2>4
    <3>2. CASE i # Len(t)
      <4>1. i \in 1 .. Len(t) - 1
        BY <3>2
      <4> QED
        BY <3>2, <4>1, <2>1, <2>2, <2>3, <2>4
    <3> QED
      BY <3>1, <3>2
  <2>6. l = r
    BY <2>1, <2>4, <2>5, SameSequence
  <2> QED
    BY <2>6 DEF l, r
<1>2. ASSUME Len(s) >= 2
      PROVE  /\ SeenStack(Drop(s, 1), v) = Append(Drop(SeenStack(s, a), 2), v)
             /\ SeenStack(Drop(Drop(s, 1), 1), Below(s)) = Drop(SeenStack(s, a), 2)
  <2> DEFINE d == Drop(s, 1)
             e == SeenStack(s, a)
  <2>1. /\ d \in Seq(Word) /\ Len(d) = Len(s) - 1 /\ \A i \in 1 .. Len(s) - 1 : d[i] = s[i]
    BY <1>2, DropPlaces
  <2>2. Top(s) \in Word /\ Top(d) = Below(s)
    BY <1>2, <2>1, TopsInWord DEF Top, Below
  <2>3. e \in Seq(Word) /\ Len(e) = Len(s)
    BY SeenType
  <2>4. SeenStack(d, Top(s)) = Drop(e, 1)
    BY <1>2, SeenPop
  <2>5. Drop(Drop(e, 1), 1) = Drop(e, 2)
    <3> HIDE DEF e
    <3>1. /\ Drop(e, 1) \in Seq(Word) /\ Len(Drop(e, 1)) = Len(e) - 1
          /\ \A i \in 1 .. Len(e) - 1 : Drop(e, 1)[i] = e[i]
      BY <1>2, <2>3, DropPlaces
    <3>2. /\ Drop(Drop(e, 1), 1) \in Seq(Word) /\ Len(Drop(Drop(e, 1), 1)) = Len(e) - 2
          /\ \A i \in 1 .. Len(e) - 2 : Drop(Drop(e, 1), 1)[i] = Drop(e, 1)[i]
      BY <1>2, <2>3, <3>1, DropPlaces
    <3>3. /\ Drop(e, 2) \in Seq(Word) /\ Len(Drop(e, 2)) = Len(e) - 2
          /\ \A i \in 1 .. Len(e) - 2 : Drop(e, 2)[i] = e[i]
      BY <1>2, <2>3, DropPlaces
    <3> QED
      BY <3>1, <3>2, <3>3, <2>3, SameSequence
  <2> HIDE DEF d, e
  <2>6. SeenStack(d, v) = Append(Drop(SeenStack(d, Top(s)), 1), v)
    BY <1>1, <1>2, <2>1, <2>2
  <2>7. SeenStack(Drop(d, 1), Top(d)) = Drop(SeenStack(d, Top(s)), 1)
    BY <1>2, <2>1, <2>2, SeenPop
  <2> QED
    BY <2>2, <2>4, <2>5, <2>6, <2>7 DEF d, e
<1> QED
  BY <1>1, <1>2

-----------------------------------------------------------------------------
(* What the data d and the register a stand for. *)

Seen(d, a) == [d EXCEPT !.stack = SeenStack(d.stack, a)]

(* The stack seen holds words, and nothing else changes. *)
LEMMA SeenData ==
  ASSUME NEW d \in Data, NEW a \in Word
  PROVE  /\ Seen(d, a) \in Data
         /\ Seen(d, a).stack = SeenStack(d.stack, a) /\ Len(Seen(d, a).stack) = Len(d.stack)
         /\ Seen(d, a).memory = d.memory
         /\ d.stack \in Seq(Word) /\ d.memory \in [Address -> Word]
         /\ d.stack = <<>> => Seen(d, a).stack = <<>>
<1>1. d.stack \in Seq(Word) /\ d.memory \in [Address -> Word]
  BY DEF Data
<1>2. SeenStack(d.stack, a) \in Seq(Word) /\ Len(SeenStack(d.stack, a)) = Len(d.stack)
  BY <1>1, SeenType
<1>3. d.stack = <<>> => SeenStack(d.stack, a) = <<>>
  BY DEF SeenStack
<1> QED
  BY <1>1, <1>2, <1>3 DEF Seen, Data

(* An instruction that finds its operands leaves words in array and register. *)
LEMMA ExecuteType ==
  ASSUME NEW i \in Instruction, data \in Data, acc \in Word, Len(data.stack) <= StackMax, Room(i),
         PushOp(i) \/ TopOp(i) \/ BinaryOp(i) \/ PopOp(i) \/ StoreOp(i)
  PROVE  /\ data' \in Data /\ acc' \in Word
         /\ Len(data'.stack) = DepthAfter(i, Len(data.stack)) /\ Len(data'.stack) <= StackMax
<1>1. /\ data.stack \in Seq(Word) /\ data.memory \in [Address -> Word] /\ Len(data.stack) \in Nat
  BY DEF Data
<1>2. Len(data.stack) >= 1 => Top(data.stack) \in Word
  BY <1>1, TopsInWord
<1>3. CASE PushOp(i)
  <2>1. i.op \in PushOps /\ data' = [data EXCEPT !.stack = Append(@, acc)]
        /\ acc' = Pushed(i, data.memory, acc)
    BY <1>3 DEF PushOp
  <2>2. acc' \in Word
    BY <2>1, <1>1, PushedInWord
  <2>3. Append(data.stack, acc) \in Seq(Word) /\ Len(Append(data.stack, acc)) = Len(data.stack) + 1
    BY <1>1
  <2>4. data' \in Data /\ data'.stack = Append(data.stack, acc)
    BY <2>1, <2>3 DEF Data
  <2>5. Len(data.stack) < StackMax
    BY <2>1 DEF Room, array
  <2>6. DepthAfter(i, Len(data.stack)) = Len(data.stack) + 1
    BY <2>1 DEF DepthAfter, PushOps, BinaryOps, PopOps, BranchOps
  <2> QED
    BY <2>2, <2>3, <2>4, <2>5, <2>6, <1>1, ISAAssumption
<1>4. CASE TopOp(i)
  <2>1. i.op \in TopOps /\ data' = data /\ acc' = Replaced(i, data.memory, acc)
    BY <1>4 DEF TopOp
  <2>2. acc' \in Word
    BY <2>1, <1>1, ReplacedInWord
  <2>3. DepthAfter(i, Len(data.stack)) = Len(data.stack)
    BY <2>1 DEF DepthAfter, TopOps, PushOps, BinaryOps, PopOps, BranchOps
  <2> QED
    BY <2>1, <2>2, <2>3
<1>5. CASE BinaryOp(i)
  <2>1. i.op \in BinaryOps /\ data' = Popped(data) /\ acc' = Binary(i.op, Top(data.stack), acc)
    BY <1>5 DEF BinaryOp, array
  <2>2. Len(data.stack) >= 1
    BY <2>1, <1>1 DEF Room, Pops, array, BinaryOps, TopOps, PopOps, BranchOps
  <2>3. acc' \in Word
    BY <2>1, <2>2, <1>2, BinaryInWord
  <2>4. DepthAfter(i, Len(data.stack)) = Len(data.stack) - 1
    BY <2>1 DEF DepthAfter, PushOps, BinaryOps
  <2>5. data' \in Data /\ Len(data'.stack) = Len(data.stack) - 1
    BY <2>1, <2>2, PoppedInData
  <2> QED
    BY <2>3, <2>4, <2>5, <1>1, ISAAssumption
<1>6. CASE PopOp(i)
  <2> DEFINE e == Stored(i, data, acc, 0)
  <2>1. i.op \in PopOps /\ data' = Popped(e) /\ acc' = Top(data.stack)
    BY <1>6 DEF PopOp, array
  <2>2. Len(data.stack) >= 1
    BY <2>1, <1>1 DEF Room, Pops, Needs, array, BinaryOps, TopOps, PopOps, BranchOps
  <2>3. e \in Data /\ e.stack = data.stack
    BY <2>1, StoredInData DEF PopOps
  <2>4. DepthAfter(i, Len(data.stack)) = Len(data.stack) - 1
    BY <2>1 DEF DepthAfter, PushOps, BinaryOps, PopOps
  <2> HIDE DEF e
  <2>5. data' \in Data /\ Len(data'.stack) = Len(data.stack) - 1
    BY <2>1, <2>2, <2>3, PoppedInData
  <2> QED
    BY <2>1, <2>2, <2>4, <2>5, <1>1, <1>2, ISAAssumption
<1>7. CASE StoreOp(i)
  <2> DEFINE e == Stored(i, data, acc, Top(data.stack))
  <2>1. i.op = "STORE" /\ data' = Popped(Popped(e)) /\ acc' = Below(data.stack)
    BY <1>7 DEF StoreOp, array
  <2>2. Len(data.stack) >= 2
    BY <2>1, <1>1 DEF Room, Pops, Needs, array, BinaryOps, TopOps, PopOps, BranchOps
  <2>3. e \in Data /\ e.stack = data.stack
    BY <2>2, <1>2, StoredInData
  <2>4. DepthAfter(i, Len(data.stack)) = Len(data.stack) - 2
    BY <2>1 DEF DepthAfter, PushOps, BinaryOps, PopOps, BranchOps
  <2> HIDE DEF e
  <2>5. Popped(e) \in Data /\ Len(Popped(e).stack) = Len(data.stack) - 1
    BY <2>2, <2>3, PoppedInData
  <2>6. data' \in Data /\ Len(data'.stack) = Len(data.stack) - 2
    BY <2>1, <2>2, <2>5, PoppedInData
  <2>7. acc' \in Word
    BY <2>1, <2>2, <1>1, TopsInWord
  <2> QED
    BY <2>4, <2>6, <2>7, <1>1, ISAAssumption
<1> QED
  BY <1>3, <1>4, <1>5, <1>6, <1>7

(* Data are what their fields are. *)
LEMMA SameData ==
  ASSUME NEW d \in Data, NEW e \in Data, d.stack = e.stack, d.memory = e.memory,
         d.result = e.result, d.printed = e.printed
  PROVE  d = e
  BY DEF Data

(* An instruction field by field. *)
LEMMA EffectFields ==
  ASSUME NEW i, NEW d
  PROVE  LET e == Stored(i, d, Top(d.stack), Below(d.stack))
         IN  /\ Effect(i, d).stack = StackAfter(i, d.stack, d.memory)
             /\ Effect(i, d).memory = e.memory
             /\ Effect(i, d).result = e.result
             /\ Effect(i, d).printed = e.printed
  BY DEF Effect, Stored

(* Only POP_RES, PRINT and the STOREs store what they pop. *)
LEMMA StoredFields ==
  ASSUME NEW i, NEW d, NEW top, NEW below
  PROVE  /\ Stored(i, d, top, below).stack = d.stack
         /\ i.op \in PushOps \cup TopOps \cup BinaryOps =>
              /\ Stored(i, d, top, below).memory = d.memory
              /\ Stored(i, d, top, below).result = d.result
              /\ Stored(i, d, top, below).printed = d.printed
<1>1. i.op \in PushOps \cup TopOps \cup BinaryOps =>
        i.op \notin {"STOREI", "STORE", "POP_RES", "PRINT"}
  BY DEF PushOps, TopOps, BinaryOps
<1> QED
  BY <1>1 DEF Stored

(* The stack that array and register stand for after an instruction is the one  *)
(* that the instruction makes of the stack they stood for.                      *)
LEMMA SeenExecute ==
  ASSUME NEW i \in Instruction, data \in Data, acc \in Word, Fits(i, Len(data.stack)),
         data' \in Data, acc' \in Word,
         PushOp(i) \/ TopOp(i) \/ BinaryOp(i) \/ PopOp(i) \/ StoreOp(i)
  PROVE  Seen(data', acc') = Effect(i, Seen(data, acc))
<1> DEFINE s == data.stack
           S == Seen(data, acc)
           E == Effect(i, S)
           P == Seen(data', acc')
<1>1. s \in Seq(Word) /\ data.memory \in [Address -> Word] /\ Len(s) \in Nat
  BY DEF Data
<1>2. /\ S \in Data /\ S.stack = SeenStack(s, acc) /\ Len(S.stack) = Len(s)
      /\ S.memory = data.memory /\ S.result = data.result /\ S.printed = data.printed
  <2>1. S.result = data.result /\ S.printed = data.printed
    BY DEF Seen, Data
  <2> QED
    BY <2>1, SeenData
<1>3. /\ P \in Data /\ P.stack = SeenStack(data'.stack, acc')
      /\ P.memory = data'.memory /\ P.result = data'.result /\ P.printed = data'.printed
  <2> DEFINE d == data'
             b == acc'
  <2>1. d \in Data /\ b \in Word
    OBVIOUS
  <2> HIDE DEF d, b
  <2>2. Seen(d, b).result = d.result /\ Seen(d, b).printed = d.printed
    BY <2>1 DEF Seen, Data
  <2>3. Seen(d, b) \in Data /\ Seen(d, b).stack = SeenStack(d.stack, b)
        /\ Seen(d, b).memory = d.memory
    BY <2>1, SeenData
  <2> QED
    BY <2>2, <2>3 DEF d, b
<1>4. /\ Len(s) >= 1 => Top(S.stack) = acc /\ Top(s) \in Word
      /\ Len(s) >= 2 => Below(S.stack) = Top(s) /\ Below(s) \in Word
  BY <1>1, <1>2, SeenTops, TopsInWord
<1>5. /\ i.op \in TopOps \cup PopOps \cup {"DUP"} => Len(s) >= 1
      /\ i.op \in BinaryOps \cup {"STORE"} => Len(s) >= 2
  BY <1>1 DEF Fits, Needs, BinaryOps, TopOps, PopOps, BranchOps
<1>6. i.op \in DataOps
  BY DEF PushOp, TopOp, BinaryOp, PopOp, StoreOp, DataOps
<1>7. /\ E \in Data /\ E.stack = StackAfter(i, S.stack, data.memory)
      /\ LET e == Stored(i, S, Top(S.stack), Below(S.stack))
         IN  E.memory = e.memory /\ E.result = e.result /\ E.printed = e.printed
  <2>1. E \in Data
    BY <1>2, <1>6, EffectInData
  <2> QED
    BY <2>1, <1>2, EffectFields
<1> HIDE DEF S, E, P
<1>8. SUFFICES /\ P.stack = E.stack
               /\ data'.memory = E.memory /\ data'.result = E.result /\ data'.printed = E.printed
  BY <1>3, <1>7, SameData DEF P, E, S
<1>9. CASE PushOp(i)
  <2> DEFINE v == Pushed(i, data.memory, acc)
  <2>1. i.op \in PushOps /\ data' = [data EXCEPT !.stack = Append(s, acc)] /\ acc' = v
    BY <1>9 DEF PushOp
  <2>2. v \in Word
    BY <2>1, <1>1, PushedInWord
  <2>3. Pushed(i, data.memory, Top(S.stack)) = v
    BY <2>1, <1>4, <1>5 DEF Pushed, PushOps
  <2> HIDE DEF v
  <2>4. E.stack = Append(S.stack, v)
    BY <2>1, <2>3, <1>7 DEF StackAfter, PushOps, TopOps, BinaryOps
  <2>5. /\ data'.stack = Append(s, acc) /\ data'.memory = data.memory
        /\ data'.result = data.result /\ data'.printed = data.printed
    BY <2>1 DEF Data
  <2>6. SeenStack(Append(s, acc), v) = Append(SeenStack(s, acc), v)
    BY <1>1, <2>2, SeenPush
  <2>7. P.stack = E.stack
    BY <2>1, <2>4, <2>5, <2>6, <1>2, <1>3
  <2> QED
    BY <2>1, <2>5, <2>7, <1>2, <1>7, StoredFields
<1>10. CASE TopOp(i)
  <2> DEFINE v == Replaced(i, data.memory, acc)
  <2>1. i.op \in TopOps /\ data' = data /\ acc' = v
    BY <1>10 DEF TopOp
  <2>2. v \in Word
    BY <1>1, ReplacedInWord
  <2>3. Top(S.stack) = acc
    BY <2>1, <1>4, <1>5
  <2>4. E.stack = Append(Drop(S.stack, 1), v)
    BY <2>1, <2>3, <1>7 DEF StackAfter, PushOps, TopOps, BinaryOps
  <2> HIDE DEF v
  <2>5. SeenStack(s, v) = Append(Drop(SeenStack(s, acc), 1), v)
    BY <1>1, <1>5, <2>1, <2>2, SeenPops
  <2>6. P.stack = E.stack
    BY <2>1, <2>4, <2>5, <1>2, <1>3
  <2> QED
    BY <2>1, <2>6, <1>2, <1>7, StoredFields
<1>11. CASE BinaryOp(i)
  <2> DEFINE v == Binary(i.op, Top(s), acc)
  <2>1. i.op \in BinaryOps /\ data' = [data EXCEPT !.stack = Drop(s, 1)] /\ acc' = v
    BY <1>11 DEF BinaryOp, Popped, array
  <2>2. Top(S.stack) = acc /\ Below(S.stack) = Top(s) /\ Top(s) \in Word /\ Len(s) >= 2
    BY <2>1, <1>1, <1>4, <1>5
  <2>3. v \in Word
    BY <2>2, BinaryInWord
  <2>4. E.stack = Append(Drop(S.stack, 2), v)
    BY <2>1, <2>2, <1>7 DEF StackAfter, PushOps, TopOps, BinaryOps
  <2> HIDE DEF v
  <2>5. /\ data'.stack = Drop(s, 1) /\ data'.memory = data.memory
        /\ data'.result = data.result /\ data'.printed = data.printed
    BY <2>1 DEF Data
  <2>6. SeenStack(Drop(s, 1), v) = Append(Drop(SeenStack(s, acc), 2), v)
    BY <1>1, <2>2, <2>3, SeenPops
  <2>7. P.stack = E.stack
    BY <2>1, <2>4, <2>5, <2>6, <1>2, <1>3
  <2> QED
    BY <2>1, <2>5, <2>7, <1>2, <1>7, StoredFields
<1>12. CASE PopOp(i)
  <2> DEFINE e == Stored(i, data, acc, 0)
             f == Stored(i, S, Top(S.stack), Below(S.stack))
  <2>1. i.op \in PopOps /\ data' = [e EXCEPT !.stack = Drop(@, 1)] /\ acc' = Top(s)
    BY <1>12 DEF PopOp, Popped, array
  <2>2. i.op # "STORE" /\ i.op \notin PushOps \cup TopOps \cup BinaryOps
    BY <2>1 DEF PopOps, PushOps, TopOps, BinaryOps
  <2>3. Top(S.stack) = acc /\ Len(s) >= 1
    BY <2>1, <1>1, <1>4, <1>5
  <2>4. f.memory = e.memory /\ f.result = e.result /\ f.printed = e.printed
    BY <2>2, <2>3, <1>2 DEF Stored
  <2>5. /\ data'.stack = Drop(s, 1) /\ data'.memory = e.memory
        /\ data'.result = e.result /\ data'.printed = e.printed
    BY <2>1 DEF Stored
  <2>6. E.stack = Drop(S.stack, 1)
    BY <2>2, <1>7 DEF StackAfter
  <2>7. SeenStack(Drop(s, 1), Top(s)) = Drop(SeenStack(s, acc), 1)
    BY <1>1, <2>3, SeenPop
  <2>8. P.stack = E.stack
    BY <2>1, <2>5, <2>6, <2>7, <1>2, <1>3
  <2> QED
    BY <2>4, <2>5, <2>8, <1>7
<1>13. CASE StoreOp(i)
  <2> DEFINE e == Stored(i, data, acc, Top(s))
             f == Stored(i, S, Top(S.stack), Below(S.stack))
  <2>1. i.op = "STORE" /\ data' = Popped(Popped(e)) /\ acc' = Below(s)
    BY <1>13 DEF StoreOp, array
  <2>2. i.op \notin PushOps \cup TopOps \cup BinaryOps
    BY <2>1 DEF PushOps, TopOps, BinaryOps
  <2>3. Top(S.stack) = acc /\ Below(S.stack) = Top(s) /\ Len(s) >= 2
    BY <2>1, <1>1, <1>4, <1>5
  <2>4. f.memory = e.memory /\ f.result = e.result /\ f.printed = e.printed
    BY <2>3, <1>2 DEF Stored
  <2>5. /\ data'.stack = Drop(Drop(s, 1), 1) /\ data'.memory = e.memory
        /\ data'.result = e.result /\ data'.printed = e.printed
    BY <2>1 DEF Popped, Stored
  <2>6. E.stack = Drop(S.stack, 2)
    BY <2>1, <2>2, <1>7 DEF StackAfter
  <2>7. SeenStack(Drop(Drop(s, 1), 1), Below(s)) = Drop(SeenStack(s, acc), 2)
    BY <1>1, <2>3, SeenPops
  <2>8. P.stack = E.stack
    BY <2>1, <2>5, <2>6, <2>7, <1>2, <1>3
  <2> QED
    BY <2>4, <2>5, <2>8, <1>7
<1> QED
  BY <1>9, <1>10, <1>11, <1>12, <1>13

-----------------------------------------------------------------------------
(* The instance of PigletVM that runs on what array and register stand for.    *)

(* The instance of pigletvm.c reads the same instruction set. *)
LEMMA SameCode ==
  /\ VM!DataOps = DataOps /\ VM!BranchOps = BranchOps /\ VM!FinalOps = FinalOps
  /\ VM!Zeroed = Zeroed
  /\ \A code : VM!Addresses(code) = Addresses(code)
  /\ \A code, a : VM!At(code, a) = At(code, a)
  /\ \A i : VM!Known(i) = Known(i)
<1>1. /\ VM!DataOps = DataOps /\ VM!BranchOps = BranchOps /\ VM!FinalOps = FinalOps
      /\ VM!Zeroed = Zeroed
  BY DEF VM!DataOps, DataOps, VM!PushOps, PushOps, VM!TopOps, TopOps,
         VM!BinaryOps, BinaryOps, VM!PopOps, PopOps, VM!BranchOps, BranchOps,
         VM!FinalOps, FinalOps, VM!Zeroed, Zeroed, VM!Address, Address
<1>2. \A code : VM!Addresses(code) = Addresses(code)
  BY DEF VM!Addresses, Addresses
<1>3. \A code, a : VM!At(code, a) = At(code, a)
  BY DEF VM!At, At, VM!Op, Op
<1>4. \A i : VM!Known(i) = Known(i)
  BY DEF VM!Known, Known
<1> QED
  BY <1>1, <1>2, <1>3, <1>4

(* Its instructions have the same operands and the same effect. *)
LEMMA SameEffect ==
  ASSUME NEW i, NEW d, NEW n, NEW top
  PROVE  /\ VM!Effect(i, d) = Effect(i, d)
         /\ VM!Popped(d) = Popped(d)
         /\ VM!Fits(i, n) = Fits(i, n)
         /\ VM!DividesByZero(i, top) = DividesByZero(i, top)
         /\ VM!Taken(i, top) = Taken(i, top)
         /\ VM!Top(d.stack) = Top(d.stack)
<1>1. VM!Fits(i, n) = Fits(i, n)
  BY DEF VM!Fits, Fits, VM!Needs, Needs, VM!DepthAfter, DepthAfter,
         VM!PushOps, PushOps, VM!TopOps, TopOps, VM!BinaryOps, BinaryOps,
         VM!PopOps, PopOps, VM!BranchOps, BranchOps
<1>2. /\ VM!Popped(d) = Popped(d)
      /\ VM!DividesByZero(i, top) = DividesByZero(i, top)
      /\ VM!Taken(i, top) = Taken(i, top)
      /\ VM!Top(d.stack) = Top(d.stack)
  BY DEF VM!Popped, Popped, VM!Drop, Drop, VM!DividesByZero, DividesByZero,
         VM!Taken, Taken, VM!Top, Top
<1>3. VM!Effect(i, d) = Effect(i, d)
  BY DEF VM!Effect, Effect, VM!Stored, Stored, VM!StackAfter, StackAfter,
         VM!Pushed, Pushed, VM!Replaced, Replaced, VM!Binary, Binary,
         VM!Bool, Bool, VM!Top, Top, VM!Below, Below, VM!Drop, Drop,
         VM!PushOps, PushOps, VM!TopOps, TopOps, VM!BinaryOps, BinaryOps
<1> QED
  BY <1>1, <1>2, <1>3


(* Its data are those that array and register stand for. *)
LEMMA SameSeen ==
  /\ [data EXCEPT !.stack = stackSeen] = Seen(data, acc)
  /\ [data EXCEPT !.stack = stackSeen]' = Seen(data', acc')
  /\ Zeroed.stack = <<>> => Seen(Zeroed, 0) = Zeroed
<1>1. stackSeen = SeenStack(data.stack, acc) /\ stackSeen' = SeenStack(data'.stack, acc')
  BY DEF stackSeen, SeenStack
<1>2. Zeroed.stack = <<>> => Seen(Zeroed, 0) = Zeroed
  BY DEF Seen, SeenStack, Zeroed
<1> QED
  BY <1>1, <1>2 DEF Seen

-----------------------------------------------------------------------------
(* What holds of the structure "vm" of pigletvm-rcache.c. *)

Registers ==
  /\ bytecode \in Programs \cup {<<>>}
  /\ engine \in VM!Engines
  /\ ip \in Addresses(bytecode)
  /\ data \in Data
  /\ Len(data.stack) <= StackMax
  /\ acc \in Word
  /\ status \in VM!Results \cup {"off", "running", "UNDEFINED"}

(* What is fetched from the program that runs is an instruction. *)
LEMMA CodeInside ==
  ASSUME Registers
  PROVE  /\ WellFormed(bytecode) /\ bytecode \in Seq(Instruction)
         /\ Current \in Instruction
<1>1. WellFormed(<<>>)
  BY DEF WellFormed
<1>2. WellFormed(bytecode)
  BY <1>1, RcacheAssumption DEF Registers
<1> QED
  BY <1>2, AtInside DEF Registers, WellFormed, Current

(* A handler that was entered is that of the instruction fetched. *)
LEMMA FetchedOp ==
  ASSUME NEW ops, Fetched(ops), "UNKNOWN" \notin ops, "OUT_OF_TABLE" \notin ops
  PROVE  Current.op \in ops /\ status = "running"
  BY DEF Fetched, VM!Handler

(* The static structure before the first run. *)
LEMMA RegistersInit == Init => Registers
<1>1. 0 \in Word /\ 0 \in Addresses(<<>>) /\ 0 <= StackMax
  BY ISAAssumption DEF Word, Addresses
<1> QED
  BY <1>1, ZeroedInData DEF Init, Registers, VM!Engines

(* A call finds the structure in order, whatever the last one left. *)
LEMMA RegistersStart == Start => Registers'
<1> SUFFICES ASSUME Start PROVE Registers'
  OBVIOUS
<1>1. bytecode' \in Programs /\ 0 \in Addresses(bytecode')
  BY RcacheAssumption DEF Start, WellFormed, Addresses
<1>2. 0 \in Word /\ 0 <= StackMax
  BY ISAAssumption DEF Word
<1> QED
  BY <1>1, <1>2, ZeroedInData DEF Start, Registers

(* Each action keeps the array inside the stack and a word in the register. *)
LEMMA RegistersStep == Registers /\ [Next]_vars => Registers'
<1> SUFFICES ASSUME Registers, [Next]_vars PROVE Registers'
  OBVIOUS
<1>1. /\ WellFormed(bytecode) /\ bytecode \in Seq(Instruction)
      /\ Current \in Instruction
      /\ ip \in Addresses(bytecode) /\ data \in Data /\ Len(data.stack) <= StackMax
      /\ Current.op # "ABORT" => ip + 1 \in Addresses(bytecode)
      /\ acc \in Word
  BY CodeInside, AtInside DEF Registers, Current
<1>2. Len(data.stack) \in Nat /\ data.stack \in Seq(Word)
  BY <1>1 DEF Data
<1>3. CASE Start
  BY <1>3, RegistersStart
<1>4. CASE Execute
  <2>1. Current.op \in DataOps
    BY <1>4, FetchedOp DEF Execute, DataOps, PushOps, TopOps, BinaryOps, PopOps
  <2>2. Current.op # "ABORT"
    BY <2>1 DEF DataOps, PushOps, TopOps, BinaryOps, PopOps
  <2>3. /\ Room(Current) /\ ip' = ip + 1 /\ UNCHANGED <<bytecode, engine, status>>
        /\ PushOp(Current) \/ TopOp(Current) \/ BinaryOp(Current) \/ PopOp(Current)
             \/ StoreOp(Current)
    BY <1>4 DEF Execute
  <2>4. data' \in Data /\ acc' \in Word /\ Len(data'.stack) <= StackMax
    BY <2>3, <1>1, ExecuteType
  <2> QED
    BY <2>2, <2>3, <2>4, <1>1 DEF Registers
<1>5. CASE DivideByZero \/ JumpIf
  <2>1. Current.op \in {"DIV"} \cup BranchOps
    BY <1>5, FetchedOp DEF DivideByZero, JumpIf, BranchOps
  <2>2. Room(Current) /\ data' = Popped(data) /\ acc' = Top(data.stack)
    BY <1>5 DEF DivideByZero, JumpIf, array
  <2>3. Len(data.stack) >= 1
    BY <2>1, <2>2, <1>2 DEF Room, Pops, Needs, array, BinaryOps, TopOps, PopOps, BranchOps
  <2>4. data' \in Data /\ Len(data'.stack) <= StackMax /\ acc' \in Word
    BY <2>2, <2>3, <1>1, <1>2, PoppedInData, TopsInWord, ISAAssumption
  <2>5. CASE DivideByZero
    BY <2>4, <2>5 DEF DivideByZero, Registers, VM!Results
  <2>6. CASE JumpIf
    <3>1. Current.op \in BranchOps
      BY <2>6, FetchedOp DEF JumpIf, BranchOps
    <3>2. Current.arg \in Addresses(bytecode) /\ ip + 1 \in Addresses(bytecode)
      BY <3>1, <1>1, TargetInside DEF Current, BranchOps
    <3> QED
      BY <2>4, <2>6, <3>2 DEF JumpIf, Registers
  <2> QED
    BY <1>5, <2>5, <2>6
<1>6. CASE Jump
  <2>1. Current.op = "JUMP"
    BY <1>6, FetchedOp DEF Jump
  <2>2. Current.arg \in Addresses(bytecode)
    BY <2>1, <1>1, TargetInside DEF Current
  <2> QED
    BY <2>2, <1>6 DEF Jump, Registers
<1>7. CASE Stop
  BY <1>7 DEF Stop, Registers, VM!Results
<1>8. CASE Undefined
  BY <1>8 DEF Undefined, Registers
<1>9. CASE UNCHANGED vars
  BY <1>9 DEF vars, Registers
<1> QED
  BY <1>3, <1>4, <1>5, <1>6, <1>7, <1>8, <1>9 DEF Next, Run

(***************************************************************************)
(* Array, register and instruction pointer stay in range for any program    *)
(* and whatever its depth, and so does the stack that they stand for.       *)
(***************************************************************************)
THEOREM TypeCorrect == Spec => []TypeOK
<1>1. Registers => TypeOK
  <2> SUFFICES ASSUME Registers PROVE TypeOK
    OBVIOUS
  <2>1. VM!Data = Data /\ VM!Addresses(bytecode) = Addresses(bytecode)
    BY SameCode DEF VM!Data, Data, VM!Word, Word, VM!Address, Address
  <2>2. Seen(data, acc) \in Data /\ Len(Seen(data, acc).stack) = Len(data.stack)
    BY SeenData DEF Registers
  <2>3. VM!TypeOK
    BY <2>1, <2>2, SameSeen DEF Registers, VM!TypeOK
  <2> QED
    BY <2>3 DEF Registers, TypeOK
<1> QED
  BY <1>1, RegistersInit, RegistersStep, PTL DEF Spec

-----------------------------------------------------------------------------
(* While a program that keeps to the stack runs, the height of the array is    *)
(* one that its control flow gives: the spilled cell makes up for the register. *)
DepthInv ==
  Disciplined(bytecode) /\ status = "running" => <<ip, Len(data.stack)>> \in Reached(bytecode)

(* What Disciplined says of the instruction that is fetched. *)
LEMMA DisciplinedHere ==
  ASSUME DepthInv, Disciplined(bytecode), status = "running"
  PROVE  /\ Known(Current)
         /\ Fits(Current, Len(data.stack))
         /\ \A a \in NextAddresses(Current, ip) :
              <<a, DepthAfter(Current, Len(data.stack))>> \in Reached(bytecode)
<1> DEFINE p == <<ip, Len(data.stack)>>
<1>1. p \in Reached(bytecode)
  BY DEF DepthInv
<1>2. /\ Known(At(bytecode, p[1])) /\ Fits(At(bytecode, p[1]), p[2])
      /\ Flow(bytecode, p) \subseteq Reached(bytecode)
  BY <1>1 DEF Disciplined
<1>3. p[1] = ip /\ p[2] = Len(data.stack)
  OBVIOUS
<1>4. Flow(bytecode, p) =
        {<<a, DepthAfter(Current, Len(data.stack))>> : a \in NextAddresses(Current, ip)}
  BY <1>2, <1>3 DEF Flow, Current
<1> QED
  BY <1>2, <1>3, <1>4 DEF Current

(* Nothing runs at first. *)
LEMMA DepthInit == Init => DepthInv
  BY DEF Init, DepthInv

(* Each step takes the array to a height that control flow gives. *)
LEMMA DepthStep == Registers /\ DepthInv /\ [Next]_vars => DepthInv'
<1> SUFFICES ASSUME Registers, DepthInv, [Next]_vars, Disciplined(bytecode'), status' = "running"
             PROVE  <<ip', Len(data'.stack)>> \in Reached(bytecode')
  BY DEF DepthInv
<1>1. Current \in Instruction /\ data \in Data /\ acc \in Word /\ Len(data.stack) <= StackMax
  BY CodeInside DEF Registers
<1>2. CASE Start
  <2>1. Len(data'.stack) = 0 /\ ip' = 0
    BY <1>2, ZeroedInData DEF Start
  <2>2. <<0, 0>> \in Reached(bytecode')
    BY DEF Disciplined
  <2> QED
    BY <2>1, <2>2
<1>3. CASE Execute
  <2>1. Current.op \in DataOps /\ status = "running"
    BY <1>3, FetchedOp DEF Execute, DataOps, PushOps, TopOps, BinaryOps, PopOps
  <2>2. ip + 1 \in NextAddresses(Current, ip)
    BY <2>1 DEF NextAddresses, DataOps, PushOps, TopOps, BinaryOps, PopOps, FinalOps, BranchOps
  <2>3. /\ bytecode' = bytecode /\ ip' = ip + 1 /\ Room(Current)
        /\ PushOp(Current) \/ TopOp(Current) \/ BinaryOp(Current) \/ PopOp(Current)
             \/ StoreOp(Current)
    BY <1>3 DEF Execute
  <2>4. Len(data'.stack) = DepthAfter(Current, Len(data.stack))
    BY <2>3, <1>1, ExecuteType
  <2>5. <<ip + 1, DepthAfter(Current, Len(data.stack))>> \in Reached(bytecode)
    BY <2>1, <2>2, <2>3, DisciplinedHere
  <2> QED
    BY <2>3, <2>4, <2>5
<1>4. CASE DivideByZero
  BY <1>4 DEF DivideByZero
<1>5. CASE Jump
  <2>1. Current.op = "JUMP" /\ status = "running"
    BY <1>5, FetchedOp DEF Jump
  <2>2. NextAddresses(Current, ip) = {Current.arg} /\ DepthAfter(Current, Len(data.stack)) = Len(data.stack)
    BY <2>1 DEF NextAddresses, DepthAfter, FinalOps, BranchOps, PushOps, BinaryOps, PopOps
  <2>3. bytecode' = bytecode /\ ip' = Current.arg /\ data' = data
    BY <1>5 DEF Jump
  <2> QED
    BY <2>1, <2>2, <2>3, DisciplinedHere
<1>6. CASE JumpIf
  <2>1. Current.op \in BranchOps /\ status = "running"
    BY <1>6, FetchedOp DEF JumpIf, BranchOps
  <2>2. NextAddresses(Current, ip) = {ip + 1, Current.arg}
    BY <2>1 DEF NextAddresses, FinalOps, BranchOps
  <2>3. /\ Needs(Current) = 1
        /\ DepthAfter(Current, Len(data.stack)) = Len(data.stack) - 1
    BY <2>1 DEF Needs, DepthAfter, BranchOps, PushOps, TopOps, BinaryOps, PopOps
  <2>4. bytecode' = bytecode /\ ip' \in {ip + 1, Current.arg} /\ data' = Popped(data)
    BY <1>6 DEF JumpIf
  <2>5. Len(data.stack) >= 1
    BY <2>1, <2>3, <2>4, DisciplinedHere DEF Fits
  <2>6. Len(data'.stack) = DepthAfter(Current, Len(data.stack))
    BY <2>3, <2>4, <2>5, <1>1, PoppedInData
  <2> QED
    BY <2>1, <2>2, <2>4, <2>6, DisciplinedHere
<1>7. CASE Stop
  BY <1>7 DEF Stop
<1>8. CASE Undefined
  BY <1>8 DEF Undefined
<1>9. CASE UNCHANGED vars
  BY <1>9 DEF vars, DepthInv
<1> QED
  BY <1>2, <1>3, <1>4, <1>5, <1>6, <1>7, <1>8, <1>9 DEF Next, Run

-----------------------------------------------------------------------------
(* Each step is one of the interpreters of pigletvm.c. *)

(* Both fetch the same instruction. *)
LEMMA VMFetched ==
  ASSUME NEW ops, Fetched(ops)
  PROVE  VM!Fetched(ops) /\ VM!Current = Current
<1>1. VM!Current = Current
  BY SameCode DEF VM!Current, Current
<1> QED
  BY <1>1 DEF VM!Fetched, Fetched

(* The operands of the next instruction are there. *)
Fitting == status = "running" => Fits(Current, Len(data.stack))

(* Then those of PigletVM are the same, and so is the value on top. *)
LEMMA VMOperands ==
  ASSUME Registers, Fitting, NEW ops, Fetched(ops)
  PROVE  /\ Fits(Current, Len(data.stack)) /\ VM!Operands
         /\ Needs(Current) >= 1 =>
              /\ Len(data.stack) >= 1
              /\ Top(Seen(data, acc).stack) = acc
<1>1. /\ status = "running" /\ data \in Data /\ acc \in Word
      /\ data.stack \in Seq(Word) /\ Len(data.stack) \in Nat
  BY DEF Fetched, Registers, Data
<1>2. Fits(Current, Len(data.stack))
  BY <1>1 DEF Fitting
<1>3. Len(Seen(data, acc).stack) = Len(data.stack)
      /\ Seen(data, acc).stack = SeenStack(data.stack, acc)
  BY <1>1, SeenData
<1>4. VM!Operands
  BY <1>2, <1>3, VMFetched, SameEffect, SameSeen DEF VM!Operands
<1>5. ASSUME Needs(Current) >= 1
      PROVE  Len(data.stack) >= 1 /\ Top(Seen(data, acc).stack) = acc
  <2>1. Needs(Current) \in Nat
    BY DEF Needs
  <2>2. Len(data.stack) >= 1
    BY <1>1, <1>2, <1>5, <2>1 DEF Fits
  <2> QED
    BY <1>1, <1>3, <2>2, SeenTops
<1> QED
  BY <1>2, <1>4, <1>5

(* What array and register stand for after a POP. *)
LEMMA SeenPopped ==
  ASSUME Registers, Len(data.stack) >= 1, data' = Popped(data), acc' = Top(data.stack)
  PROVE  Seen(data', acc') = Popped(Seen(data, acc))
<1>1. data \in Data /\ data.stack \in Seq(Word) /\ acc \in Word
  BY DEF Registers, Data
<1>2. SeenStack(Drop(data.stack, 1), Top(data.stack)) = Drop(SeenStack(data.stack, acc), 1)
  BY <1>1, SeenPop
<1>3. data' = [data EXCEPT !.stack = Drop(data.stack, 1)]
  BY DEF Popped
<1> QED
  BY <1>1, <1>2, <1>3 DEF Seen, Popped, Data

(* Both start off. *)
LEMMA ImplementsInit == Init => VM!Init
<1> SUFFICES ASSUME Init PROVE VM!Init
  OBVIOUS
<1>1. [data EXCEPT !.stack = stackSeen] = Zeroed
  BY SameSeen, ZeroedInData DEF Init
<1> QED
  BY <1>1, SameCode DEF Init, VM!Init

(* A step with its operands there is one of PigletVM, but for a LOAD above the *)
(* memory.                                                                     *)
LEMMA FittingStep ==
  Registers /\ Fitting /\ [Next]_vars => VM!Next \/ WildLoad \/ UNCHANGED VM!vars
<1> SUFFICES ASSUME Registers, Fitting, [Next]_vars
             PROVE  VM!Next \/ WildLoad \/ UNCHANGED VM!vars
  OBVIOUS
<1>1. /\ Current \in Instruction /\ data \in Data /\ acc \in Word
      /\ data.stack \in Seq(Word) /\ Len(data.stack) \in Nat /\ Len(data.stack) <= StackMax
  BY CodeInside DEF Registers, Data
<1>2. CASE Start
  <2>1. [data EXCEPT !.stack = stackSeen]' = Zeroed
    BY <1>2, SameSeen, ZeroedInData DEF Start
  <2>2. VM!Start
    BY <1>2, <2>1, SameCode DEF Start, VM!Start
  <2> QED
    BY <2>2 DEF VM!Next
<1>3. CASE Execute
  <2>1. /\ Fetched(DataOps) /\ Room(Current) /\ ~DividesByZero(Current, acc)
        /\ PushOp(Current) \/ TopOp(Current) \/ BinaryOp(Current) \/ PopOp(Current)
             \/ StoreOp(Current)
        /\ ip' = ip + 1 /\ UNCHANGED <<bytecode, engine, status>>
    BY <1>3 DEF Execute
  <2>2. VM!Fetched(VM!DataOps) /\ VM!Current = Current /\ VM!Operands
    BY <2>1, VMFetched, VMOperands, SameCode
  <2>3. data' \in Data /\ acc' \in Word /\ Fits(Current, Len(data.stack))
    BY <2>1, <1>1, ExecuteType, VMOperands
  <2>4. Seen(data', acc') = Effect(Current, Seen(data, acc))
    BY <2>1, <2>3, <1>1, SeenExecute
  <2>5. ~DividesByZero(Current, Top(Seen(data, acc).stack))
    <3>1. Current.op = "DIV" => Needs(Current) >= 1
      BY DEF Needs, BinaryOps
    <3> QED
      BY <2>1, <3>1, VMOperands DEF DividesByZero
  <2>6. VM!Execute
    <3> DEFINE seen == [data EXCEPT !.stack = stackSeen]
    <3>1. seen = Seen(data, acc) /\ seen' = Seen(data', acc')
      BY SameSeen
    <3>2. ~VM!DividesByZero(VM!Current, VM!Top(seen.stack))
      BY <2>2, <2>5, <3>1, SameEffect
    <3>3. seen' = VM!Effect(VM!Current, seen)
      BY <2>2, <2>4, <3>1, SameEffect
    <3> QED
      BY <2>1, <2>2, <3>2, <3>3 DEF VM!Execute
  <2> QED
    BY <2>6 DEF VM!Next, VM!Run
<1>4. CASE DivideByZero
  <2>1. /\ Fetched({"DIV"}) /\ DividesByZero(Current, acc)
        /\ data' = Popped(data) /\ acc' = Top(data.stack)
        /\ status' = "ERROR_DIVISION_BY_ZERO" /\ UNCHANGED <<bytecode, engine, ip>>
    BY <1>4 DEF DivideByZero, array
  <2>2. VM!Fetched({"DIV"}) /\ VM!Current = Current /\ VM!Operands
    BY <2>1, VMFetched, VMOperands
  <2>3. Needs(Current) >= 1
    BY <2>1 DEF DividesByZero, Needs, BinaryOps
  <2>4. Len(data.stack) >= 1 /\ DividesByZero(Current, Top(Seen(data, acc).stack))
    BY <2>1, <2>3, VMOperands
  <2>5. Seen(data', acc') = Popped(Seen(data, acc))
    BY <2>1, <2>4, SeenPopped
  <2>6. VM!DivideByZero
    <3> DEFINE seen == [data EXCEPT !.stack = stackSeen]
    <3>1. seen = Seen(data, acc) /\ seen' = Seen(data', acc')
      BY SameSeen
    <3>2. VM!DividesByZero(VM!Current, VM!Top(seen.stack))
      BY <2>2, <2>4, <3>1, SameEffect
    <3>3. seen' = VM!Popped(seen)
      BY <2>5, <3>1, SameEffect
    <3> QED
      BY <2>1, <2>2, <3>2, <3>3 DEF VM!DivideByZero
  <2> QED
    BY <2>6 DEF VM!Next, VM!Run
<1>5. CASE Jump
  <2>1. Fetched({"JUMP"}) /\ ip' = Current.arg /\ UNCHANGED <<bytecode, engine, data, acc, status>>
    BY <1>5 DEF Jump
  <2>2. VM!Fetched({"JUMP"}) /\ VM!Current = Current
    BY <2>1, VMFetched
  <2>3. [data EXCEPT !.stack = stackSeen]' = [data EXCEPT !.stack = stackSeen]
    BY <2>1, SameSeen
  <2>4. VM!Jump
    BY <2>1, <2>2, <2>3 DEF VM!Jump
  <2> QED
    BY <2>4 DEF VM!Next, VM!Run
<1>6. CASE JumpIf
  <2>1. /\ Fetched(BranchOps) /\ data' = Popped(data) /\ acc' = Top(data.stack)
        /\ ip' = IF Taken(Current, acc) THEN Current.arg ELSE ip + 1
        /\ UNCHANGED <<bytecode, engine, status>>
    BY <1>6 DEF JumpIf, array
  <2>2. VM!Fetched(VM!BranchOps) /\ VM!Current = Current /\ VM!Operands
    BY <2>1, VMFetched, VMOperands, SameCode
  <2>3. Current.op \in BranchOps
    BY <2>1, FetchedOp DEF BranchOps
  <2>4. Needs(Current) >= 1
    BY <2>3 DEF Needs, BinaryOps, BranchOps
  <2>5. Len(data.stack) >= 1 /\ Top(Seen(data, acc).stack) = acc
    BY <2>1, <2>4, VMOperands
  <2>6. Seen(data', acc') = Popped(Seen(data, acc))
    BY <2>1, <2>5, SeenPopped
  <2>7. VM!JumpIf
    BY <2>1, <2>2, <2>5, <2>6, SameSeen, SameEffect DEF VM!JumpIf
  <2> QED
    BY <2>7 DEF VM!Next, VM!Run
<1>7. CASE Stop
  <2>1. /\ Fetched(FinalOps \cup {"UNKNOWN"})
        /\ status' = CASE VM!Handler(engine, Current) = "DONE"  -> "SUCCESS"
                       [] VM!Handler(engine, Current) = "ABORT" -> "ERROR_END_OF_STREAM"
                       [] OTHER                                 -> "ERROR_UNKNOWN_OPCODE"
        /\ UNCHANGED <<bytecode, engine, ip, data, acc>>
    BY <1>7 DEF Stop
  <2>2. VM!Fetched(VM!FinalOps \cup {"UNKNOWN"}) /\ VM!Current = Current
    BY <2>1, VMFetched, SameCode
  <2>3. [data EXCEPT !.stack = stackSeen]' = [data EXCEPT !.stack = stackSeen]
    BY <2>1, SameSeen
  <2>4. VM!Stop
    BY <2>1, <2>2, <2>3 DEF VM!Stop
  <2> QED
    BY <2>4 DEF VM!Next, VM!Run
<1>8. CASE Undefined
  <2>1. status = "running" /\ status' = "UNDEFINED"
    BY <1>8 DEF Undefined, Fetched
  <2>2. Fits(Current, Len(data.stack))
    BY <2>1 DEF Fitting
  <2>3. CASE Fetched({"OUT_OF_TABLE"})
    <3>1. VM!Fetched({"OUT_OF_TABLE"})
      BY <2>3, VMFetched
    <3>2. [data EXCEPT !.stack = stackSeen]' = [data EXCEPT !.stack = stackSeen]
          /\ UNCHANGED <<bytecode, engine, ip>>
      BY <1>8, SameSeen DEF Undefined
    <3>3. VM!Undefined
      BY <2>1, <3>1, <3>2 DEF VM!Undefined
    <3> QED
      BY <3>3 DEF VM!Next, VM!Run
  <2>4. Room(Current)
    <3>1. Needs(Current) \in Nat /\ Pops(Current) <= Needs(Current) /\ Pops(Current) \in Nat
      BY DEF Pops, Needs
    <3>2. Current.op \in PushOps => DepthAfter(Current, Len(data.stack)) = Len(data.stack) + 1
      BY DEF DepthAfter, PushOps, BinaryOps, PopOps, BranchOps
    <3> QED
      BY <3>1, <3>2, <2>2, <1>1, ISAAssumption DEF Room, Fits, array
  <2>5. CASE OutOfMemory(Current)
    BY <2>1, <2>5 DEF WildLoad
  <2> QED
    BY <1>8, <2>3, <2>4, <2>5 DEF Undefined
<1>9. CASE UNCHANGED vars
  <2>1. /\ UNCHANGED <<bytecode, engine, ip, status>>
        /\ [data EXCEPT !.stack = stackSeen]' = [data EXCEPT !.stack = stackSeen]
    BY <1>9, SameSeen DEF vars
  <2> QED
    BY <2>1 DEF VM!vars
<1> QED
  BY <1>2, <1>3, <1>4, <1>5, <1>6, <1>7, <1>8, <1>9 DEF Next, Run

(* A program that keeps to the stack has its operands there. *)
LEMMA ImplementsStep ==
  Registers /\ DepthInv /\ [Next]_vars =>
    [VM!Next \/ WildLoad \/ ~Disciplined(bytecode)]_(VM!vars)
<1>1. DepthInv /\ Disciplined(bytecode) => Fitting
  BY DisciplinedHere DEF Fitting
<1> QED
  BY <1>1, FittingStep

(***************************************************************************)
(* Where the array ends and the register begins cannot be told from what a  *)
(* program that keeps to the stack computes: its run is, step for step, one *)
(* of the interpreters of pigletvm.c, until it LOADs from an address above  *)
(* the memory.                                                              *)
(***************************************************************************)
THEOREM Implementation == Spec => ImplementsPigletVM
<1> QED
  BY RegistersInit, RegistersStep, DepthInit, DepthStep, ImplementsInit, ImplementsStep, PTL
     DEF Spec, ImplementsPigletVM

-----------------------------------------------------------------------------
(* A run of known instructions goes the way of the program that the           *)
(* interpreters of pigletvm.c go, as long as it has its operands.             *)
here == Moment(Settle(bytecode, ip), Seen(data, acc), status)

(* A step changes nothing, or is the next step on the way, or the end of what  *)
(* C defines.                                                                 *)
LEMMA Follows ==
  ASSUME Registers, Fitting, AllKnown(bytecode), Run
  PROVE  /\ bytecode' = bytecode /\ status = "running"
         /\ status' # "UNDEFINED" => here' \in {here, After(bytecode, here)}
<1> DEFINE i == Current
           d == Seen(data, acc)
           n == Seen(data', acc')
<1>1. bytecode' = bytecode /\ status = "running"
  BY DEF Run, Execute, DivideByZero, Jump, JumpIf, Stop, Undefined, Fetched
<1> SUFFICES ASSUME status' # "UNDEFINED" PROVE here' \in {here, After(bytecode, here)}
  BY <1>1
<1>2. VM!Next \/ UNCHANGED VM!vars
  BY FittingStep DEF Next, WildLoad
<1>3. i \in Instruction /\ VM!Handler(engine, i) = i.op /\ ip \in Addresses(bytecode)
      /\ WellFormed(bytecode) /\ i.op # "UNKNOWN"
  <2>1. ip \in Nat /\ ip \in Addresses(bytecode)
    BY DEF Registers, Addresses
  <2>2. Known(i)
    BY <2>1, CodeInside, KnownAt DEF Current
  <2> QED
    BY <2>1, <2>2, CodeInside, SameCode DEF VM!Handler, Known
<1>4. /\ VM!Current = i /\ [data EXCEPT !.stack = stackSeen] = d
      /\ [data EXCEPT !.stack = stackSeen]' = n
      /\ VM!Operands <=> Fits(i, Len(d.stack))
      /\ \A ops : VM!Fetched(ops) => i.op \in ops
  BY <1>3, SameCode, SameSeen, SameEffect DEF VM!Current, Current, VM!Operands, VM!Fetched
<1>5. here = Moment(Settle(bytecode, ip), d, status) /\ here.data = d
      /\ here' = Moment(Settle(bytecode, ip'), n, status')
  BY <1>1 DEF here, Moment
<1>6. i.op # "JUMP" => Settle(bytecode, ip) = ip /\ here.ip = ip /\ At(bytecode, here.ip) = i
  BY SettleHere DEF here, Moment, Current
<1>7. "JUMP" \notin DataOps \cup BranchOps \cup FinalOps \cup {"UNKNOWN", "OUT_OF_TABLE"}
  BY DEF DataOps, PushOps, TopOps, BinaryOps, PopOps, BranchOps, FinalOps
<1> HIDE DEF i, d, n
<1>8. CASE VM!Execute
  <2>1. /\ i.op \in DataOps /\ Fits(i, Len(d.stack)) /\ ~DividesByZero(i, Top(d.stack))
        /\ n = Effect(i, d) /\ ip' = ip + 1 /\ status' = status
    BY <1>4, <1>8, SameCode, SameEffect DEF VM!Execute
  <2> QED
    BY <2>1, <1>1, <1>5, <1>6, <1>7, AfterCases
<1>9. CASE VM!DivideByZero
  <2>1. /\ i.op = "DIV" /\ Fits(i, Len(d.stack)) /\ DividesByZero(i, Top(d.stack))
        /\ n = Popped(d) /\ ip' = ip /\ status' = "ERROR_DIVISION_BY_ZERO"
    BY <1>4, <1>9, SameEffect DEF VM!DivideByZero
  <2> QED
    BY <2>1, <1>5, <1>6, AfterCases
<1>10. CASE VM!Jump
  <2>1. i.op = "JUMP" /\ ip' = i.arg /\ n = d /\ status' = status
    BY <1>4, <1>10 DEF VM!Jump
  <2>2. Settle(bytecode, ip) = Settle(bytecode, ip')
    BY <2>1, <1>3, SettleJump DEF i, Current
  <2> QED
    BY <2>1, <2>2, <1>5
<1>11. CASE VM!JumpIf
  <2>1. /\ i.op \in BranchOps /\ Fits(i, Len(d.stack))
        /\ n = Popped(d) /\ ip' = (IF Taken(i, Top(d.stack)) THEN i.arg ELSE ip + 1)
        /\ status' = status
    BY <1>4, <1>11, SameCode, SameEffect DEF VM!JumpIf
  <2> QED
    BY <2>1, <1>1, <1>5, <1>6, <1>7, AfterCases
<1>12. CASE VM!Stop
  <2>1. i.op \in FinalOps
    BY <1>3, <1>4, <1>12, SameCode DEF VM!Stop
  <2>2. n = d /\ ip' = ip /\ status' = IF i.op = "DONE" THEN "SUCCESS" ELSE "ERROR_END_OF_STREAM"
    BY <2>1, <1>3, <1>4, <1>12 DEF VM!Stop, FinalOps
  <2> QED
    BY <2>1, <2>2, <1>5, <1>6, <1>7, AfterCases
<1>13. CASE UNCHANGED VM!vars
  BY <1>13, <1>4, <1>5 DEF VM!vars
<1> QED
  BY <1>1, <1>2, <1>8, <1>9, <1>10, <1>11, <1>12, <1>13
     DEF VM!Next, VM!Run, VM!Start, VM!Undefined

(* Operands are there on the way of a program that ends as C defines. *)
LEMMA PathFitting ==
  ASSUME Registers, here \in Path(bytecode), NEW f \in Path(bytecode),
         f.status \notin {"running", "UNDEFINED"}
  PROVE  Fitting
<1> SUFFICES ASSUME status = "running" PROVE Fits(Current, Len(data.stack))
  BY DEF Fitting
<1>1. /\ bytecode \in Seq(Instruction) /\ Len(data.stack) \in Nat /\ Len(data.stack) <= StackMax
      /\ here.status = "running" /\ here.ip = Settle(bytecode, ip)
      /\ Len(here.data.stack) = Len(data.stack)
  BY CodeInside, SeenData DEF Registers, Data, here, Moment
<1>2. CASE Current.op \in DataOps \cup BranchOps
  <2>1. Current.op # "JUMP"
    BY <1>2 DEF DataOps, PushOps, TopOps, BinaryOps, PopOps, BranchOps
  <2>2. here.ip = ip /\ At(bytecode, here.ip) = Current
    BY <1>1, <2>1, SettleHere DEF Current
  <2> QED
    BY <1>1, <1>2, <2>2, PathFits
<1>3. CASE Current.op \notin DataOps \cup BranchOps
  <2>1. Needs(Current) = 0 /\ DepthAfter(Current, Len(data.stack)) = Len(data.stack)
    BY <1>3 DEF Needs, DepthAfter, DataOps, PushOps, TopOps, BinaryOps, PopOps, BranchOps
  <2> QED
    BY <1>1, <2>1 DEF Fits
<1> QED
  BY <1>2, <1>3

(* A call begins where the way begins, whatever was run before. *)
LEMMA PathStart == Start => bytecode' \in Seq(Instruction) /\ here' \in Path(bytecode')
<1> SUFFICES ASSUME Start PROVE bytecode' \in Seq(Instruction) /\ here' \in Path(bytecode')
  OBVIOUS
<1>1. bytecode' \in Seq(Instruction)
  BY RcacheAssumption DEF Start, WellFormed
<1>2. Seen(data', acc') = Zeroed
  BY ZeroedInData, SameSeen DEF Start
<1>3. here' = Begin(bytecode')
  BY <1>2 DEF Start, here, Begin
<1> QED
  BY <1>1, <1>3, PathContinued

(* A step stays on the way. *)
LEMMA PathRun ==
  ASSUME Registers, Fitting, AllKnown(bytecode), here \in Path(bytecode), Run,
         status' # "UNDEFINED"
  PROVE  here' \in Path(bytecode')
<1>1. /\ bytecode' = bytecode /\ here.status = "running" /\ bytecode \in Seq(Instruction)
      /\ here' \in {here, After(bytecode, here)}
  BY Follows, CodeInside DEF here, Moment
<1> QED
  BY <1>1, PathContinued

(* The run of a program that keeps to the stack, while C defines it. *)
OnPath ==
  /\ status \notin {"off", "UNDEFINED"} /\ AllKnown(bytecode) /\ Disciplined(bytecode)
  => here \in Path(bytecode)

(***************************************************************************)
(* The interpreters that cache the stack top compute what those of          *)
(* pigletvm.c do: of known instructions that keep to the stack they follow  *)
(* the same one way, until they LOAD from an address above the memory.      *)
(***************************************************************************)
THEOREM OneWay == Spec => []OnPath
<1>1. Init => OnPath
  BY DEF Init, OnPath
<1>2. Registers /\ DepthInv /\ OnPath /\ [Next]_vars => OnPath'
  <2> SUFFICES ASSUME Registers, DepthInv, OnPath, [Next]_vars,
                      status' \notin {"off", "UNDEFINED"},
                      AllKnown(bytecode'), Disciplined(bytecode')
               PROVE  here' \in Path(bytecode')
    BY DEF OnPath
  <2>1. CASE Start
    BY <2>1, PathStart
  <2>2. CASE Run
    <3>1. bytecode' = bytecode /\ status = "running"
      BY <2>2 DEF Run, Execute, DivideByZero, Jump, JumpIf, Stop, Undefined, Fetched
    <3>2. Fitting
      BY <3>1, DisciplinedHere DEF Fitting
    <3> QED
      BY <2>2, <3>1, <3>2, PathRun DEF OnPath
  <2>3. CASE UNCHANGED vars
    BY <2>3 DEF vars, here, OnPath
  <2> QED
    BY <2>1, <2>2, <2>3 DEF Next
<1> QED
  BY <1>1, <1>2, RegistersInit, RegistersStep, DepthInit, DepthStep, PTL DEF Spec

=============================================================================
