--------------------------- MODULE AsmTextsProofs ---------------------------
(***************************************************************************)
(* The two assemblers and disassemblers, for every asm file.  The loops over *)
(* a file are recursive functions, whose values are found by induction over  *)
(* the number of turns.                                                      *)
(***************************************************************************)
EXTENDS AsmTexts, FiniteSetTheorems, WellFoundedInduction, TLAPS

(* A set with 0 that is closed under successor has every number. *)
LEMMA Induction ==
  ASSUME NEW S, 0 \in S, \A n \in Nat : n \in S => n + 1 \in S
  PROVE  \A n \in Nat : n \in S
<1> DEFINE T == Nat \ S
           R == OpToRel(<, Nat)
<1> SUFFICES ASSUME T # {} PROVE FALSE
  OBVIOUS
<1>1. IsWellFoundedOn(R, Nat)
  BY NatLessThanWellFounded
<1>2. \A m, n \in Nat : m < n => <<m, n>> \in R
  BY DEF OpToRel
<1> HIDE DEF R
<1>3. PICK x \in T : \A y \in T : <<y, x>> \notin R
  BY <1>1, WFMin
<1>4. x \in Nat \ {0} /\ x - 1 \in Nat /\ x - 1 < x
  OBVIOUS
<1>5. x - 1 \in S
  BY <1>2, <1>3, <1>4
<1> QED
  BY <1>4, <1>5

(* The same up to a bound. *)
LEMMA BoundedInduction ==
  ASSUME NEW S, NEW m \in Nat, 0 \in S, \A n \in 1 .. m : n - 1 \in S => n \in S
  PROVE  \A n \in 0 .. m : n \in S
<1> DEFINE T == {n \in Nat : n <= m => n \in S}
<1>1. 0 \in T
  OBVIOUS
<1>2. ASSUME NEW n \in Nat, n \in T PROVE n + 1 \in T
  <2>1. n + 1 - 1 = n
    OBVIOUS
  <2> QED
    BY <1>2, <2>1
<1>3. \A n \in Nat : n \in T
  <2> HIDE DEF T
  <2> QED
    BY <1>1, <1>2, Induction
<1> QED
  BY <1>3

(* A set of numbers that is not empty has a least element. *)
LEMMA LeastNumber ==
  ASSUME NEW T, T \subseteq Nat, T # {}
  PROVE  \E x \in T : \A y \in T : x <= y
<1> DEFINE R == OpToRel(<, Nat)
<1>1. IsWellFoundedOn(R, Nat)
  BY NatLessThanWellFounded
<1>2. \A m, n \in Nat : m < n => <<m, n>> \in R
  BY DEF OpToRel
<1> HIDE DEF R
<1>3. PICK x \in T : \A y \in T : <<y, x>> \notin R
  BY <1>1, WFMin
<1>4. \A y \in T : x \in Nat /\ y \in Nat /\ ~(y < x)
  BY <1>2, <1>3
<1> QED
  BY <1>4

-----------------------------------------------------------------------------
(* The loops *)

(* f has the values of a loop whose turn i makes step[<<x, i>>] of x. *)
Turns(f, D, base, n, step) ==
  /\ f \in [0 .. n -> D]
  /\ f[0] = base
  /\ \A i \in 1 .. n : f[i] = step[<<f[i - 1], i>>]

(* A loop has values. *)
LEMMA Loop ==
  ASSUME NEW D, NEW base \in D, NEW m \in Nat, NEW step,
         \A x \in D : \A i \in 1 .. m : step[<<x, i>>] \in D
  PROVE  \E f : Turns(f, D, base, m, step)
<1> DEFINE S == {n \in Nat : \E f : Turns(f, D, base, n, step)}
<1>1. 0 \in S
  <2> DEFINE f == [i \in 0 .. 0 |-> base]
  <2>1. Turns(f, D, base, 0, step)
    BY DEF Turns
  <2> HIDE DEF f
  <2> QED
    BY <2>1
<1>2. ASSUME NEW n \in 1 .. m, n - 1 \in S PROVE n \in S
  <2>1. PICK f : Turns(f, D, base, n - 1, step)
    BY <1>2
  <2> DEFINE g == [i \in 0 .. n |-> IF i = n THEN step[<<f[n - 1], n>>] ELSE f[i]]
  <2>2. f \in [0 .. n - 1 -> D]
    BY <2>1 DEF Turns
  <2>3. f[n - 1] \in D
    BY <2>2
  <2>4. step[<<f[n - 1], n>>] \in D
    BY <2>3
  <2>5. g \in [0 .. n -> D]
    BY <2>2, <2>4
  <2>6. /\ g[0] = f[0] /\ g[n] = step[<<f[n - 1], n>>]
        /\ \A i \in 1 .. n - 1 : g[i] = f[i] /\ g[i - 1] = f[i - 1]
        /\ g[n - 1] = f[n - 1]
    OBVIOUS
  <2> HIDE DEF g
  <2>7. \A i \in 1 .. n : i \in 1 .. n - 1 \/ i = n
    OBVIOUS
  <2>8. g[0] = base /\ \A i \in 1 .. n : g[i] = step[<<g[i - 1], i>>]
    BY <2>1, <2>6, <2>7 DEF Turns
  <2>9. Turns(g, D, base, n, step)
    BY <2>5, <2>8 DEF Turns
  <2> QED
    BY <2>9
<1> HIDE DEF S
<1>3. m \in S
  BY <1>1, <1>2, BoundedInduction
<1> QED
  BY <1>3 DEF S

-----------------------------------------------------------------------------
(* Sequences joined one behind the other *)

(* The first n of them. *)
Joined(ss, n) == FlattenSeq([i \in 1 .. n |-> ss[i]])

(* FlattenSeq goes from left to right. *)
LEMMA FlattenLoop ==
  ASSUME NEW D, NEW ss \in Seq(Seq(D)), NEW f \in [0 .. Len(ss) -> Seq(D)],
         f[0] = <<>>, \A i \in 1 .. Len(ss) : f[i] = f[i - 1] \o ss[i]
  PROVE  FlattenSeq(ss) = f[Len(ss)]
<1>1. CASE Len(ss) = 0
  BY <1>1 DEF FlattenSeq
<1>2. CASE Len(ss) # 0
  <2> DEFINE m == Len(ss)
  <2>1. m \in Nat \ {0}
    BY <1>2
  <2> DEFINE g == [i \in 1 .. m |-> f[i]]
  <2>2. g = [i \in 1 .. m |-> IF i = 1 THEN ss[i] ELSE g[i - 1] \o ss[i]]
    <3>1. ASSUME NEW i \in 1 .. m, i = 1 PROVE g[i] = ss[i]
      <4>1. i - 1 = 0
        BY <3>1
      <4>2. f[i] = <<>> \o ss[i]
        BY <4>1
      <4> QED
        BY <4>2
    <3>2. ASSUME NEW i \in 1 .. m, i # 1 PROVE g[i] = g[i - 1] \o ss[i]
      <4>1. i - 1 \in 1 .. m
        BY <3>2, <2>1
      <4>2. g[i - 1] = f[i - 1] /\ g[i] = f[i]
        BY <4>1
      <4> QED
        BY <4>2
    <3> HIDE DEF m
    <3>3. g = [i \in 1 .. m |-> g[i]]
      OBVIOUS
    <3> HIDE DEF g
    <3> QED
      BY <3>1, <3>2, <3>3
  <2> HIDE DEF g
  <2>3. PICK h : /\ h = [i \in 1 .. m |-> IF i = 1 THEN ss[i] ELSE h[i - 1] \o ss[i]]
                 /\ FlattenSeq(ss) = h[m]
    BY <1>2, <2>2 DEF FlattenSeq
  <2> DEFINE S == {n \in Nat : n > 0 => h[n] = f[n]}
  <2>4. \A n \in 0 .. m : n \in S
    <3>1. 0 \in S
      OBVIOUS
    <3>2. ASSUME NEW n \in 1 .. m, n - 1 \in S PROVE n \in S
      <4>1. f[n] = f[n - 1] \o ss[n]
        OBVIOUS
      <4>2. CASE n = 1
        <5>1. h[n] = ss[n]
          BY <2>3, <4>2
        <5>2. n - 1 = 0
          BY <4>2
        <5>3. f[n] = <<>> \o ss[n]
          BY <4>1, <5>2
        <5>4. f[n] = ss[n]
          BY <5>3
        <5> QED
          BY <5>1, <5>4
      <4>3. CASE n # 1
        <5>1. h[n] = h[n - 1] \o ss[n]
          BY <2>3, <4>3
        <5>2. h[n - 1] = f[n - 1]
          BY <3>2, <4>3
        <5>3. h[n] = f[n]
          BY <4>1, <5>1, <5>2
        <5> QED
          BY <5>3
      <4> QED
        BY <4>2, <4>3
    <3> HIDE DEF S, m
    <3> QED
      BY <2>1, <3>1, <3>2, BoundedInduction
  <2>5. h[m] = f[m]
    BY <2>1, <2>4
  <2> QED
    BY <2>3, <2>5
<1> QED
  BY <1>1, <1>2

(* Each sequence goes behind the ones before. *)
LEMMA JoinedParts ==
  ASSUME NEW D, NEW ss \in Seq(Seq(D))
  PROVE  /\ \A n \in 0 .. Len(ss) : Joined(ss, n) \in Seq(D)
         /\ Joined(ss, 0) = <<>>
         /\ \A n \in 1 .. Len(ss) : Joined(ss, n) = Joined(ss, n - 1) \o ss[n]
         /\ FlattenSeq(ss) = Joined(ss, Len(ss))
<1> DEFINE m == Len(ss)
           step == [x \in Seq(D) \X (1 .. m) |-> x[1] \o ss[x[2]]]
<1>1. m \in Nat /\ \A i \in 1 .. m : ss[i] \in Seq(D)
  OBVIOUS
<1>2. \A x \in Seq(D) : \A i \in 1 .. m : step[<<x, i>>] \in Seq(D)
  BY <1>1
<1>3. \A x \in Seq(D) : \A i \in 1 .. m : step[<<x, i>>] = x \o ss[i]
  OBVIOUS
<1>4. <<>> \in Seq(D)
  OBVIOUS
<1> HIDE DEF step
<1>5. PICK f : Turns(f, Seq(D), <<>>, m, step)
  BY <1>1, <1>2, <1>4, Loop
<1> HIDE DEF m
<1>6. ASSUME NEW i \in 1 .. m PROVE f[i] = f[i - 1] \o ss[i]
  <2>1. i - 1 \in 0 .. m
    BY <1>1
  <2>2. f[i - 1] \in Seq(D)
    BY <1>5, <2>1 DEF Turns
  <2> QED
    BY <1>3, <1>5, <2>2 DEF Turns
<1>7. ASSUME NEW n \in 0 .. m PROVE Joined(ss, n) = f[n]
  <2> DEFINE p == [i \in 1 .. n |-> ss[i]]
             g == [i \in 0 .. n |-> f[i]]
  <2>1. p \in Seq(Seq(D)) /\ Len(p) = n /\ \A i \in 1 .. n : p[i] = ss[i]
    BY <1>1
  <2>2. g \in [0 .. n -> Seq(D)] /\ g[0] = <<>> /\ g[n] = f[n]
    BY <1>1, <1>5 DEF Turns
  <2>3. ASSUME NEW i \in 1 .. n PROVE g[i] = g[i - 1] \o p[i]
    <3>1. g[i] = f[i] /\ g[i - 1] = f[i - 1]
      BY <1>1
    <3>2. p[i] = ss[i] /\ i \in 1 .. m
      BY <1>1, <2>1
    <3> QED
      BY <1>6, <3>1, <3>2
  <2> HIDE DEF g, p
  <2>4. FlattenSeq(p) = g[n]
    BY <2>1, <2>2, <2>3, FlattenLoop
  <2> QED
    BY <2>2, <2>4 DEF Joined, p
<1>8. ss = [i \in 1 .. m |-> ss[i]]
  BY DEF m
<1>9. FlattenSeq(ss) = Joined(ss, m)
  BY <1>8 DEF Joined
<1>10. ASSUME NEW n \in 1 .. m PROVE Joined(ss, n) = Joined(ss, n - 1) \o ss[n]
  <2>1. n \in 0 .. m /\ n - 1 \in 0 .. m
    BY <1>1
  <2> QED
    BY <1>6, <1>7, <2>1
<1>11. 0 \in 0 .. m
  BY <1>1
<1>12. \A n \in 0 .. m : f[n] \in Seq(D)
  BY <1>5 DEF Turns
<1>13. f[0] = <<>>
  BY <1>5 DEF Turns
<1> QED
  BY <1>7, <1>9, <1>10, <1>11, <1>12, <1>13 DEF m

(* Where the sequence i lies. *)
Placed(ss, i) ==
  /\ \A n \in i .. Len(ss) : \A j \in 1 .. Len(ss[i]) :
       Joined(ss, n)[Len(Joined(ss, i - 1)) + j] = ss[i][j]
  /\ Len(Joined(ss, i)) = Len(Joined(ss, i - 1)) + Len(ss[i])
  /\ \A n \in i .. Len(ss) : Len(Joined(ss, i)) <= Len(Joined(ss, n))

(* Each sequence lies behind the length of the ones before. *)
LEMMA JoinedPlace ==
  ASSUME NEW D, NEW ss \in Seq(Seq(D)), NEW i \in 1 .. Len(ss)
  PROVE  Placed(ss, i)
<1> DEFINE m == Len(ss)
           before == Len(Joined(ss, i - 1))
           Holds(n) == /\ Len(Joined(ss, i)) <= Len(Joined(ss, n))
                       /\ \A j \in 1 .. Len(ss[i]) : Joined(ss, n)[before + j] = ss[i][j]
           S == {n \in Nat : n >= i => Holds(n)}
<1>1. m \in Nat /\ i \in 1 .. m /\ i - 1 \in 0 .. m /\ i \in 0 .. m /\ ss[i] \in Seq(D)
  OBVIOUS
<1>2. Joined(ss, i - 1) \in Seq(D) /\ Joined(ss, i) \in Seq(D)
  BY <1>1, JoinedParts
<1>3. Joined(ss, i) = Joined(ss, i - 1) \o ss[i]
  BY JoinedParts
<1>4. Len(Joined(ss, i)) = before + Len(ss[i])
  BY <1>1, <1>2, <1>3
<1>5. Holds(i)
  <2>1. \A j \in 1 .. Len(ss[i]) : (Joined(ss, i - 1) \o ss[i])[before + j] = ss[i][j]
    BY <1>1, <1>2
  <2> QED
    BY <1>1, <1>2, <1>3, <2>1
<1>6. 0 \in S
  OBVIOUS
<1>7. ASSUME NEW n \in 1 .. m, n - 1 \in S PROVE n \in S
  <2>1. CASE n <= i
    BY <1>5, <2>1
  <2>2. CASE n > i
    <3>1. Holds(n - 1)
      BY <1>7, <2>2
    <3>2. Joined(ss, n) = Joined(ss, n - 1) \o ss[n]
      BY JoinedParts
    <3>3. n - 1 \in 0 .. m
      BY <1>1
    <3>4. Joined(ss, n - 1) \in Seq(D)
      BY <3>3, JoinedParts
    <3>5. ss[n] \in Seq(D)
      OBVIOUS
    <3> DEFINE shorter == Joined(ss, n - 1)
    <3>6. shorter \in Seq(D) /\ Len(shorter) \in Nat
      BY <3>4
    <3>7. Len(ss[i]) \in Nat /\ before \in Nat
      BY <1>1, <1>2
    <3> HIDE DEF shorter, before
    <3>8. ASSUME NEW j \in 1 .. Len(ss[i]) PROVE (shorter \o ss[n])[before + j] = ss[i][j]
      <4>1. before + Len(ss[i]) <= Len(shorter)
        BY <1>4, <3>1 DEF shorter, before
      <4>2. before + j \in 1 .. Len(shorter)
        BY <3>6, <3>7, <4>1
      <4>3. (shorter \o ss[n])[before + j] = shorter[before + j]
        BY <3>5, <3>6, <4>2
      <4>4. shorter[before + j] = ss[i][j]
        BY <3>1 DEF shorter, before
      <4> QED
        BY <4>3, <4>4
    <3>9. Len(Joined(ss, i)) <= Len(shorter \o ss[n])
      <4>1. Len(shorter \o ss[n]) = Len(shorter) + Len(ss[n]) /\ Len(ss[n]) \in Nat
        BY <3>5, <3>6
      <4>2. Len(Joined(ss, i)) <= Len(shorter) /\ Len(Joined(ss, i)) \in Nat
        BY <1>2, <3>1 DEF shorter
      <4> HIDE DEF Holds, S
      <4> QED
        BY <3>6, <4>1, <4>2
    <3>10. Holds(n)
      BY <3>2, <3>8, <3>9 DEF shorter, before
    <3> HIDE DEF Holds
    <3> QED
      BY <1>1, <3>10
  <2> QED
    BY <1>1, <2>1, <2>2
<1> HIDE DEF S, Holds, m
<1>8. \A n \in 0 .. m : n \in S
  BY <1>1, <1>6, <1>7, BoundedInduction
<1>9. \A n \in i .. m : Holds(n)
  BY <1>1, <1>8 DEF S
<1> QED
  BY <1>4, <1>9 DEF Holds, m, Placed

-----------------------------------------------------------------------------
(* The table of instructions, and the lines of a file *)

(* What the enum of the opcodes and opcode_to_disinfo are relied on for. *)
Table ==
  /\ Opcodes \in Seq(Mnemonics) /\ 0 < Len(Opcodes) /\ Len(Opcodes) <= 256
  /\ \A i, j \in DOMAIN Opcodes : Opcodes[i] = Opcodes[j] => i = j
  /\ Opcodes[1] = "ABORT" /\ Takes("ABORT") = <<>>
  /\ \A op \in {"LABEL", "IGNORED", "EXIT"} : op \notin Mnemonics
  /\ \A op \in Mnemonics : Takes(op) \in Seq({"number", "address"})

(* What parse_line makes of the words of a line. *)
Halfwords == {n \in Nat : n < 65536}

Operands == [kind : {"number"}, n : Halfwords] \cup [kind : {"label"}, n : Nat]

CodeLines ==
  {line \in [op : Mnemonics, operands : Seq(Operands)] :
     Len(line.operands) = Len(Takes(line.op))}

LabelLines == {Label(k) : k \in Nat}

IsCode(words) == words # <<>> /\ words[1].kind = "operation"

(* 16 bits of a number are kept. *)
LEMMA Halfword ==
  ASSUME NEW n \in Nat
  PROVE  n % 65536 \in Halfwords
<1>1. n % 65536 \in Nat
  OBVIOUS
<1>2. n % 65536 < 65536
  OBVIOUS
<1> QED
  BY <1>1, <1>2 DEF Halfwords

(* An operand that is read. *)
LEMMA ReadOperand ==
  ASSUME NEW word \in [kind : {"number", "label"}, n : Nat]
  PROVE  /\ Read(word) \in Operands /\ Read(word).kind = word.kind
         /\ Read(word).n = IF word.kind = "number" THEN word.n % 65536 ELSE word.n
<1>1. PICK n \in Nat : n = word.n
  OBVIOUS
<1>2. PICK half \in Halfwords : half = n % 65536
  BY Halfword
<1>3. word = [kind |-> word.kind, n |-> word.n]
  OBVIOUS
<1>4. CASE word.kind = "number"
  <2>1. Read(word) = [kind |-> "number", n |-> half]
    BY <1>1, <1>2, <1>4 DEF Read, Number
  <2>2. [kind |-> "number", n |-> half] \in [kind : {"number"}, n : Halfwords]
    OBVIOUS
  <2>3. Read(word).kind = word.kind /\ Read(word).n = half
    BY <1>4, <2>1
  <2>4. Read(word) \in Operands
    BY <2>1, <2>2 DEF Operands
  <2> QED
    BY <1>1, <1>2, <1>4, <2>3, <2>4
<1>5. CASE word.kind = "label"
  <2>1. Read(word) = word
    BY <1>5 DEF Read
  <2>2. [kind |-> "label", n |-> word.n] \in [kind : {"label"}, n : Nat]
    BY <1>1
  <2>3. Read(word) \in Operands
    BY <1>3, <1>5, <2>1, <2>2 DEF Operands
  <2> QED
    BY <1>5, <2>1, <2>3
<1> QED
  BY <1>4, <1>5

(* A line with an operation. *)
LEMMA ParsedCode ==
  ASSUME Table, NEW words \in Seq(Words), IsCode(words), ParseLine(words) # Exit
  PROVE  /\ ParseLine(words) \in CodeLines
         /\ ParseLine(words).op = words[1].op
         /\ Len(words) = Len(Takes(words[1].op)) + 1
         /\ \A j \in 1 .. Len(Takes(words[1].op)) :
              /\ words[j + 1] \in [kind : {"number", "label"}, n : Nat]
              /\ words[j + 1].kind = "label" => Takes(words[1].op)[j] = "address"
              /\ ParseLine(words).operands[j] = Read(words[j + 1])
<1> DEFINE op == words[1].op
           takes == Takes(op)
           operands == [i \in DOMAIN Tail(words) |-> Read(words[i + 1])]
<1>1. words # <<>> /\ words[1].kind = "operation" /\ words[1].kind # "definition"
  BY DEF IsCode
<1>2. OperandsReadable(Tail(words), takes) /\ ParseLine(words) = Line(op, operands)
  BY <1>1 DEF ParseLine
<1>3. Len(words) \in Nat \ {0} /\ words[1] \in Words
  BY <1>1
<1>4. op \in Mnemonics
  BY <1>1, <1>3 DEF Words, Blank
<1>5. takes \in Seq({"number", "address"}) /\ Len(takes) \in Nat
  BY <1>4 DEF Table
<1>6. /\ DOMAIN Tail(words) = 1 .. Len(words) - 1 /\ Len(Tail(words)) = Len(words) - 1
      /\ \A i \in 1 .. Len(words) - 1 : Tail(words)[i] = words[i + 1] /\ words[i + 1] \in Words
  BY <1>3
<1>7. /\ Len(words) = Len(takes) + 1
      /\ \A i \in 1 .. Len(takes) : Readable(words[i + 1], takes[i])
  <2> HIDE DEF takes
  <2>1. Len(Tail(words)) = Len(takes)
    BY <1>2 DEF OperandsReadable
  <2>2. Len(words) = Len(takes) + 1 /\ DOMAIN Tail(words) = 1 .. Len(takes)
    BY <2>1, <1>3, <1>5, <1>6
  <2>3. \A i \in 1 .. Len(takes) : Readable(Tail(words)[i], takes[i])
    BY <1>2, <2>2 DEF OperandsReadable
  <2>4. \A i \in 1 .. Len(takes) : i \in 1 .. Len(words) - 1
    BY <2>2, <1>3, <1>5
  <2> QED
    BY <2>2, <2>3, <2>4, <1>6
<1>8. ASSUME NEW i \in 1 .. Len(takes)
      PROVE  words[i + 1] \in [kind : {"number", "label"}, n : Nat] /\ Read(words[i + 1]) \in Operands
  <2>1. words[i + 1] \in Words /\ words[i + 1].kind \in {"number", "label"}
    BY <1>5, <1>6, <1>7 DEF Readable
  <2>2. words[i + 1] \in [kind : {"number", "label"}, n : Nat]
    BY <2>1 DEF Words, Blank
  <2>3. Read(words[i + 1]) \in Operands
    BY <2>2, ReadOperand
  <2> QED
    BY <2>2, <2>3
<1>9. /\ operands \in Seq(Operands) /\ Len(operands) = Len(takes)
      /\ \A i \in 1 .. Len(takes) : operands[i] = Read(words[i + 1])
  BY <1>5, <1>6, <1>7, <1>8
<1> HIDE DEF operands
<1>10. Line(op, operands) \in CodeLines
  BY <1>4, <1>9 DEF CodeLines, Line
<1>11. Line(op, operands).op = op /\ Line(op, operands).operands = operands
  BY DEF Line
<1>12. \A i \in 1 .. Len(takes) : words[i + 1].kind = "label" => takes[i] = "address"
  BY <1>7 DEF Readable
<1> QED
  BY <1>2, <1>7, <1>8, <1>9, <1>10, <1>11, <1>12

(* A line without. *)
LEMMA ParsedOther ==
  ASSUME NEW words \in Seq(Words), ~IsCode(words), ParseLine(words) # Exit
  PROVE  ParseLine(words) = Ignored \/ ParseLine(words) \in LabelLines
<1>1. CASE words = <<>>
  BY <1>1 DEF ParseLine
<1>2. CASE words # <<>>
  <2>1. words[1] \in Words /\ words[1].kind # "operation"
    BY <1>2 DEF IsCode
  <2>2. words[1].kind = "definition" /\ ParseLine(words) = Label(words[1].n)
    BY <1>2, <2>1 DEF ParseLine
  <2>3. words[1].n \in Nat
    BY <2>1, <2>2 DEF Words, Blank
  <2> QED
    BY <2>2, <2>3 DEF LabelLines
<1> QED
  BY <1>1, <1>2

(* The kinds of lines are different. *)
LEMMA LineKinds ==
  ASSUME Table
  PROVE  /\ \A line \in CodeLines : line.op \in Mnemonics /\ line.op # "LABEL"
         /\ \A line \in LabelLines : line.op = "LABEL"
         /\ Ignored \notin CodeLines \cup LabelLines
         /\ Exit \notin CodeLines \cup LabelLines
         /\ Ignored # Exit
<1>1. \A line \in CodeLines : line.op \in Mnemonics
  BY DEF CodeLines
<1>2. \A line \in LabelLines : line.op = "LABEL"
  BY DEF LabelLines, Label, Line
<1>3. Ignored.op = "IGNORED" /\ Exit.op = "EXIT"
  BY DEF Ignored, Exit, Line
<1>4. \A op \in {"LABEL", "IGNORED", "EXIT"} : op \notin Mnemonics
  BY DEF Table
<1> QED
  BY <1>1, <1>2, <1>3, <1>4

(* Nothing or one behind a sequence. *)
LEMMA OneMore ==
  ASSUME NEW D, NEW s \in Seq(D)
  PROVE  /\ s \o <<>> = s
         /\ \A x \in D : s \o <<x>> = Append(s, x)
OBVIOUS

AsmLines == CodeLines \cup LabelLines \cup {Exit}

(* What a line of the file adds to the lines. *)
Adds(words) == IF ParseLine(words) = Ignored THEN <<>> ELSE <<ParseLine(words)>>

(* list[i] are the lines that the first i lines of the file give. *)
LinesRead(file, list) ==
  /\ list \in [0 .. Len(file) -> Seq(AsmLines)]
  /\ list[0] = <<>> /\ list[Len(file)] = Lines(file)
  /\ \A i \in 1 .. Len(file) : list[i] = list[i - 1] \o Adds(file[i])

(* Every line is of one of the kinds. *)
LEMMA AddsLines ==
  ASSUME Table, NEW words \in Seq(Words)
  PROVE  Adds(words) \in Seq(AsmLines)
<1>1. ParseLine(words) = Ignored \/ ParseLine(words) \in AsmLines
  BY ParsedCode, ParsedOther DEF AsmLines
<1> QED
  BY <1>1 DEF Adds

(* The file is read line by line. *)
LEMMA LinesLoop ==
  ASSUME Table, NEW file \in Seq(Seq(Words))
  PROVE  \E list : LinesRead(file, list)
<1> DEFINE m == Len(file)
           D == Seq(AsmLines)
           step == [x \in D \X (1 .. m) |-> x[1] \o Adds(file[x[2]])]
           Body(g, i) == IF i = 0 THEN <<>>
                         ELSE IF ParseLine(file[i]) = Ignored THEN g[i - 1]
                         ELSE Append(g[i - 1], ParseLine(file[i]))
<1>1. m \in Nat /\ \A i \in 1 .. m : file[i] \in Seq(Words)
  OBVIOUS
<1>2. \A i \in 1 .. m : Adds(file[i]) \in D
  BY <1>1, AddsLines
<1>3. ASSUME NEW x \in D, NEW i \in 1 .. m
      PROVE  step[<<x, i>>] = x \o Adds(file[i]) /\ step[<<x, i>>] \in D
  <2>1. step[<<x, i>>] = x \o Adds(file[i])
    OBVIOUS
  <2>2. x \o Adds(file[i]) \in D
    BY <1>2
  <2> QED
    BY <2>1, <2>2
<1>4. <<>> \in D
  OBVIOUS
<1> HIDE DEF step, D
<1>5. PICK f : Turns(f, D, <<>>, m, step)
  BY <1>1, <1>3, <1>4, Loop
<1>6. f \in [0 .. m -> D] /\ f[0] = <<>>
  BY <1>5 DEF Turns
<1>7. ASSUME NEW i \in 1 .. m PROVE f[i] = f[i - 1] \o Adds(file[i])
  <2>1. i - 1 \in 0 .. m
    BY <1>1
  <2>2. f[i - 1] \in D
    BY <1>6, <2>1
  <2> QED
    BY <1>3, <1>5, <2>2 DEF Turns
<1>8. ASSUME NEW g, NEW i \in 1 .. m, g[i - 1] = f[i - 1] PROVE f[i] = Body(g, i)
  <2>1. i - 1 \in 0 .. m /\ i # 0
    BY <1>1
  <2>2. f[i - 1] \in Seq(AsmLines)
    BY <1>6, <2>1 DEF D
  <2>3. CASE ParseLine(file[i]) = Ignored
    <3>1. Adds(file[i]) = <<>>
      BY <2>3 DEF Adds
    <3>2. f[i] = f[i - 1]
      BY <1>7, <2>2, <3>1, OneMore
    <3> QED
      BY <1>8, <2>1, <2>3, <3>2
  <2>4. CASE ParseLine(file[i]) # Ignored
    <3>1. Adds(file[i]) = <<ParseLine(file[i])>> /\ ParseLine(file[i]) \in AsmLines
      BY <1>1, <2>4, ParsedCode, ParsedOther DEF Adds, AsmLines
    <3>2. f[i] = Append(f[i - 1], ParseLine(file[i]))
      BY <1>7, <2>2, <3>1, OneMore
    <3> QED
      BY <1>8, <2>1, <2>4, <3>2
  <2> QED
    BY <2>3, <2>4
<1>9. f = [i \in 0 .. m |-> Body(f, i)]
  <2>1. ASSUME NEW i \in 0 .. m PROVE f[i] = Body(f, i)
    <3>1. CASE i = 0
      BY <1>6, <3>1
    <3>2. CASE i # 0
      <4>1. i \in 1 .. m
        BY <3>2, <1>1
      <4> HIDE DEF Body
      <4> QED
        BY <1>8, <4>1
    <3> QED
      BY <3>1, <3>2
  <2> HIDE DEF Body
  <2> QED
    BY <1>6, <2>1
<1>10. PICK g : g = [i \in 0 .. m |-> Body(g, i)] /\ Lines(file) = g[m]
  BY <1>9 DEF Lines
<1> HIDE DEF m
<1>11. g[0] = <<>> /\ \A i \in 1 .. m : g[i] = Body(g, i)
  <2>1. 0 \in 0 .. m /\ \A i \in 1 .. m : i \in 0 .. m
    BY <1>1
  <2>2. g[0] = Body(g, 0) /\ \A i \in 1 .. m : g[i] = Body(g, i)
    <3> HIDE DEF Body
    <3> QED
      BY <1>10, <2>1
  <2> QED
    BY <2>2
<1> DEFINE S == {n \in Nat : g[n] = f[n]}
<1>12. 0 \in S
  BY <1>6, <1>11
<1>13. ASSUME NEW n \in 1 .. m, n - 1 \in S PROVE n \in S
  <2>1. g[n - 1] = f[n - 1] /\ n \in Nat
    BY <1>13
  <2> HIDE DEF Body
  <2>2. g[n] = f[n]
    BY <1>8, <1>11, <2>1
  <2> QED
    BY <2>1, <2>2
<1>14. g[m] = f[m]
  <2> HIDE DEF S
  <2>1. \A n \in 0 .. m : n \in S
    BY <1>1, <1>12, <1>13, BoundedInduction
  <2>2. m \in S
    BY <1>1, <2>1
  <2> QED
    BY <2>2 DEF S
<1>15. LinesRead(file, f)
  BY <1>6, <1>7, <1>10, <1>14 DEF LinesRead, D, m
<1> QED
  BY <1>15

(* What a line of the file adds to the instructions typed. *)
AddsTyped(words) == IF IsCode(words) THEN <<words>> ELSE <<>>

(* code[i] are the instructions typed in the first i lines of the file. *)
TypedRead(file, code) ==
  /\ code \in [0 .. Len(file) -> Seq(Seq(Words))]
  /\ code[0] = <<>> /\ code[Len(file)] = Typed(file)
  /\ \A i \in 1 .. Len(file) : code[i] = code[i - 1] \o AddsTyped(file[i])

(* They are collected line by line. *)
LEMMA TypedLoop ==
  ASSUME NEW file \in Seq(Seq(Words))
  PROVE  \E code : TypedRead(file, code)
<1> DEFINE m == Len(file)
           D == Seq(Seq(Words))
           step == [x \in D \X (1 .. m) |-> x[1] \o AddsTyped(file[x[2]])]
           Body(g, i) == IF i = 0 THEN <<>>
                         ELSE IF file[i] # <<>> /\ file[i][1].kind = "operation"
                                THEN Append(g[i - 1], file[i])
                         ELSE g[i - 1]
<1>1. m \in Nat /\ \A i \in 1 .. m : file[i] \in Seq(Words)
  OBVIOUS
<1>2. \A i \in 1 .. m : AddsTyped(file[i]) \in D
  BY <1>1 DEF AddsTyped
<1>3. ASSUME NEW x \in D, NEW i \in 1 .. m
      PROVE  step[<<x, i>>] = x \o AddsTyped(file[i]) /\ step[<<x, i>>] \in D
  <2>1. step[<<x, i>>] = x \o AddsTyped(file[i])
    OBVIOUS
  <2>2. x \o AddsTyped(file[i]) \in D
    BY <1>2
  <2> QED
    BY <2>1, <2>2
<1>4. <<>> \in D
  OBVIOUS
<1> HIDE DEF step, D
<1>5. PICK f : Turns(f, D, <<>>, m, step)
  BY <1>1, <1>3, <1>4, Loop
<1>6. f \in [0 .. m -> D] /\ f[0] = <<>>
  BY <1>5 DEF Turns
<1>7. ASSUME NEW i \in 1 .. m PROVE f[i] = f[i - 1] \o AddsTyped(file[i])
  <2>1. i - 1 \in 0 .. m
    BY <1>1
  <2>2. f[i - 1] \in D
    BY <1>6, <2>1
  <2> QED
    BY <1>3, <1>5, <2>2 DEF Turns
<1>8. ASSUME NEW g, NEW i \in 1 .. m, g[i - 1] = f[i - 1] PROVE f[i] = Body(g, i)
  <2>1. i - 1 \in 0 .. m /\ i # 0
    BY <1>1
  <2>2. f[i - 1] \in Seq(Seq(Words)) /\ file[i] \in Seq(Words)
    BY <1>1, <1>6, <2>1 DEF D
  <2>3. CASE ~IsCode(file[i])
    <3>1. AddsTyped(file[i]) = <<>>
      BY <2>3 DEF AddsTyped
    <3>2. f[i] = f[i - 1] \o <<>>
      BY <1>7, <3>1
    <3>3. f[i - 1] \o <<>> = f[i - 1]
      BY <2>2, OneMore
    <3> QED
      BY <1>8, <2>1, <2>3, <3>2, <3>3 DEF IsCode
  <2>4. CASE IsCode(file[i])
    <3>1. AddsTyped(file[i]) = <<file[i]>>
      BY <2>4 DEF AddsTyped
    <3>2. f[i] = f[i - 1] \o <<file[i]>>
      BY <1>7, <3>1
    <3>3. f[i - 1] \o <<file[i]>> = Append(f[i - 1], file[i])
      BY <2>2, OneMore
    <3> QED
      BY <1>8, <2>1, <2>4, <3>2, <3>3 DEF IsCode
  <2> QED
    BY <2>3, <2>4
<1>9. f = [i \in 0 .. m |-> Body(f, i)]
  <2>1. ASSUME NEW i \in 0 .. m PROVE f[i] = Body(f, i)
    <3>1. CASE i = 0
      BY <1>6, <3>1
    <3>2. CASE i # 0
      <4>1. i \in 1 .. m
        BY <3>2, <1>1
      <4> HIDE DEF Body
      <4> QED
        BY <1>8, <4>1
    <3> QED
      BY <3>1, <3>2
  <2> HIDE DEF Body
  <2> QED
    BY <1>6, <2>1
<1>10. PICK g : g = [i \in 0 .. m |-> Body(g, i)] /\ Typed(file) = g[m]
  BY <1>9 DEF Typed
<1> HIDE DEF m
<1>11. g[0] = <<>> /\ \A i \in 1 .. m : g[i] = Body(g, i)
  <2>1. 0 \in 0 .. m /\ \A i \in 1 .. m : i \in 0 .. m
    BY <1>1
  <2>2. g[0] = Body(g, 0) /\ \A i \in 1 .. m : g[i] = Body(g, i)
    <3> HIDE DEF Body
    <3> QED
      BY <1>10, <2>1
  <2> QED
    BY <2>2
<1> DEFINE S == {n \in Nat : g[n] = f[n]}
<1>12. 0 \in S
  BY <1>6, <1>11
<1>13. ASSUME NEW n \in 1 .. m, n - 1 \in S PROVE n \in S
  <2>1. g[n - 1] = f[n - 1] /\ n \in Nat
    BY <1>13
  <2> HIDE DEF Body
  <2>2. g[n] = f[n]
    BY <1>8, <1>11, <2>1
  <2> QED
    BY <2>1, <2>2
<1>14. g[m] = f[m]
  <2> HIDE DEF S
  <2>1. \A n \in 0 .. m : n \in S
    BY <1>1, <1>12, <1>13, BoundedInduction
  <2>2. m \in S
    BY <1>1, <2>1
  <2> QED
    BY <2>2 DEF S
<1>15. TypedRead(file, f)
  BY <1>6, <1>7, <1>10, <1>14 DEF TypedRead, D, m
<1> QED
  BY <1>15

-----------------------------------------------------------------------------
(* The two passes *)

(* The lines of a file that assembles. *)
ProgramLines == CodeLines \cup LabelLines

(* What the first pass expects of a line. *)
LEMMA LineWidth ==
  ASSUME Table, NEW line \in ProgramLines
  PROVE  /\ Width(line) \in Nat
         /\ line \in LabelLines => Width(line) = 0
         /\ line \in CodeLines => Width(line) = 1 + 2 * Len(line.operands)
<1>1. line \in LabelLines => Width(line) = 0
  BY LineKinds DEF Width
<1>2. ASSUME line \in CodeLines
      PROVE  Width(line) = 1 + 2 * Len(line.operands) /\ Width(line) \in Nat
  <2>1. line.op # "LABEL" /\ Len(line.operands) = Len(Takes(line.op))
    BY <1>2, LineKinds DEF CodeLines
  <2>2. Width(line) = 1 + 2 * Len(line.operands)
    BY <2>1 DEF Width
  <2>3. line.operands \in Seq(Operands)
    BY <1>2 DEF CodeLines
  <2>4. Len(line.operands) \in Nat
    BY <2>3
  <2> QED
    BY <2>2, <2>4
<1> QED
  BY <1>1, <1>2 DEF ProgramLines

(* pc[i] is the offset behind the first i lines. *)
Offsets(lines, pc) ==
  /\ pc \in [0 .. Len(lines) -> Nat]
  /\ pc[0] = 0
  /\ \A i \in 1 .. Len(lines) : pc[i] = pc[i - 1] + Width(lines[i])
  /\ \A i \in 1 .. Len(lines) + 1 : OffsetOf(lines, i) = pc[i - 1]

(* The first pass counts the bytes line by line. *)
LEMMA OffsetLoop ==
  ASSUME Table, NEW lines \in Seq(ProgramLines)
  PROVE  \E pc : Offsets(lines, pc)
<1> DEFINE m == Len(lines)
           step == [x \in Nat \X (1 .. m) |-> x[1] + Width(lines[x[2]])]
           Body(g, j) == IF j = 1 THEN 0 ELSE g[j - 1] + Width(lines[j - 1])
<1>1. m \in Nat /\ \A i \in 1 .. m : lines[i] \in ProgramLines
  OBVIOUS
<1>2. \A i \in 1 .. m : Width(lines[i]) \in Nat
  BY <1>1, LineWidth
<1>3. \A x \in Nat : \A i \in 1 .. m :
        step[<<x, i>>] = x + Width(lines[i]) /\ step[<<x, i>>] \in Nat
  BY <1>2
<1> HIDE DEF step
<1>4. PICK f : Turns(f, Nat, 0, m, step)
  BY <1>1, <1>3, Loop
<1>5. f \in [0 .. m -> Nat] /\ f[0] = 0
  BY <1>4 DEF Turns
<1>6. ASSUME NEW i \in 1 .. m PROVE f[i] = f[i - 1] + Width(lines[i])
  <2>1. i - 1 \in 0 .. m
    BY <1>1
  <2>2. f[i - 1] \in Nat
    BY <1>5, <2>1
  <2> QED
    BY <1>3, <1>4, <2>2 DEF Turns
<1> DEFINE h == [j \in 1 .. m + 1 |-> f[j - 1]]
<1>7. h = [j \in 1 .. m + 1 |-> Body(h, j)]
  <2>1. ASSUME NEW j \in 1 .. m + 1 PROVE h[j] = Body(h, j)
    <3>1. CASE j = 1
      <4>1. j - 1 = 0
        BY <3>1
      <4>2. h[j] = 0
        BY <1>5, <4>1
      <4> QED
        BY <3>1, <4>2
    <3>2. CASE j # 1
      <4>1. j - 1 \in 1 .. m /\ j - 1 \in 1 .. m + 1
        BY <1>1, <3>2
      <4>2. h[j] = f[j - 1] /\ h[j - 1] = f[j - 1 - 1]
        BY <4>1
      <4>3. f[j - 1] = f[j - 1 - 1] + Width(lines[j - 1])
        BY <1>6, <4>1
      <4> QED
        BY <3>2, <4>2, <4>3
    <3> QED
      BY <3>1, <3>2
  <2>2. h = [j \in 1 .. m + 1 |-> h[j]]
    OBVIOUS
  <2> HIDE DEF Body, h
  <2> QED
    BY <2>1, <2>2
<1> HIDE DEF h
<1>8. PICK g : /\ g = [j \in 1 .. m + 1 |-> Body(g, j)]
               /\ \A i : OffsetOf(lines, i) = g[i]
  BY <1>7 DEF OffsetOf
<1> HIDE DEF m
<1>9. \A j \in 1 .. m + 1 : g[j] = Body(g, j)
  <2> HIDE DEF Body
  <2> QED
    BY <1>8
<1> DEFINE S == {n \in Nat : \A j \in 1 .. m + 1 : j = n + 1 => g[j] = f[n]}
<1>10. 0 \in S
  BY <1>5, <1>9
<1>11. ASSUME NEW n \in 1 .. m, n - 1 \in S PROVE n \in S
  <2>1. ASSUME NEW j \in 1 .. m + 1, j = n + 1 PROVE g[j] = f[n]
    <3>1. j # 1 /\ j - 1 = n /\ n \in 1 .. m + 1 /\ n = n - 1 + 1
      BY <1>1, <2>1
    <3>2. g[n] = f[n - 1]
      BY <1>11, <3>1
    <3>3. g[j] = g[n] + Width(lines[n])
      BY <1>9, <3>1
    <3> QED
      BY <1>6, <3>2, <3>3
  <2> QED
    BY <2>1
<1>12. \A n \in 0 .. m : n \in S
  <2> HIDE DEF S
  <2> QED
    BY <1>1, <1>10, <1>11, BoundedInduction
<1>13. ASSUME NEW i \in 1 .. m + 1 PROVE OffsetOf(lines, i) = f[i - 1]
  <2>1. i - 1 \in 0 .. m /\ i = i - 1 + 1
    BY <1>1
  <2>2. g[i] = f[i - 1]
    BY <1>12, <2>1
  <2> QED
    BY <1>8, <2>2
<1>14. Offsets(lines, f)
  BY <1>5, <1>6, <1>13 DEF Offsets, m
<1> QED
  BY <1>14

ByteValues == {n \in Nat : n < 256}

(* Two bytes hold a word of 16 bits. *)
LEMMA WordBytes ==
  ASSUME NEW w \in Halfwords
  PROVE  /\ Bytes(w) \in Seq(ByteValues) /\ Len(Bytes(w)) = 2
         /\ Bytes(w)[1] * 256 + Bytes(w)[2] = w
<1>1. w \in Nat /\ w < 65536
  BY DEF Halfwords
<1>2. PICK q \in Nat, r \in Nat : q = w \div 256 /\ r = w % 256
  BY <1>1
<1>3. r < 256
  BY <1>1, <1>2
<1>4. w = q * 256 + r
  BY <1>1, <1>2
<1>5. q < 256
  BY <1>1, <1>2
<1>6. q % 256 = q
  BY <1>5
<1>7. Bytes(w) = <<q, r>>
  BY <1>2, <1>6 DEF Bytes
<1>8. q \in ByteValues /\ r \in ByteValues
  BY <1>3, <1>5 DEF ByteValues
<1>9. <<q, r>> \in Seq(ByteValues) /\ Len(<<q, r>>) = 2
  BY <1>8
<1>10. Bytes(w)[1] = q /\ Bytes(w)[2] = r
  BY <1>7
<1>11. q * 256 + r = w
  BY <1>4
<1> QED
  BY <1>7, <1>9, <1>10, <1>11

(* The opcode of an instruction names it. *)
LEMMA OpcodeNames ==
  ASSUME Table, NEW op \in Mnemonics
  PROVE  OpcodeOf(op) \in ByteValues /\ Opcodes[OpcodeOf(op) + 1] = op
<1>1. PICK i : i \in DOMAIN Opcodes /\ i = (CHOOSE j \in DOMAIN Opcodes : Opcodes[j] = op)
                 /\ Opcodes[i] = op
  BY DEF Mnemonics
<1>2. i \in Nat /\ 0 < i /\ i <= 256
  BY <1>1 DEF Table
<1>3. OpcodeOf(op) = i - 1
  BY <1>1 DEF OpcodeOf
<1>4. i - 1 \in ByteValues /\ i - 1 + 1 = i
  BY <1>2 DEF ByteValues
<1> QED
  BY <1>1, <1>3, <1>4

(* The first definition of a name that is defined. *)
LEMMA FirstDefined ==
  ASSUME NEW lines \in Seq(ProgramLines), NEW k, Defines(lines, k) # {}
  PROVE  /\ FirstDefinition(lines, k) \in 1 .. Len(lines)
         /\ lines[FirstDefinition(lines, k)] = Label(k)
<1>1. Defines(lines, k) \subseteq 1 .. Len(lines)
  BY DEF Defines
<1>2. Defines(lines, k) \subseteq Nat
  BY <1>1
<1>3. \E i \in Defines(lines, k) : \A j \in Defines(lines, k) : i <= j
  BY <1>2, LeastNumber
<1>4. FirstDefinition(lines, k) \in Defines(lines, k)
  BY <1>3 DEF FirstDefinition
<1> QED
  BY <1>4 DEF Defines

(* resolve_jumps finds 16 bits for every operand. *)
LEMMA Resolved ==
  ASSUME Table, NEW lines \in Seq(ProgramLines), Assembles(lines),
         NEW i \in 1 .. Len(lines), lines[i] \in CodeLines, NEW j \in 1 .. Len(lines[i].operands)
  PROVE  Resolve(lines, lines[i].operands[j]) \in Halfwords
<1> DEFINE word == lines[i].operands[j]
<1>1. word \in Operands
  BY DEF CodeLines
<1>2. CASE word.kind = "label"
  <2>1. j \in DOMAIN lines[i].operands
    BY DEF CodeLines
  <2>2. word.n \in LabelsOf(lines[i])
    BY <1>2, <2>1 DEF LabelsOf
  <2>3. Defines(lines, word.n) # {}
    BY <2>2 DEF Assembles
  <2> DEFINE first == FirstDefinition(lines, word.n)
  <2>4. first \in 1 .. Len(lines)
    BY <2>3, FirstDefined
  <2>5. PICK pc : Offsets(lines, pc)
    BY OffsetLoop
  <2>6. OffsetOf(lines, first) \in Nat
    <3> HIDE DEF first
    <3>1. Len(lines) \in Nat
      OBVIOUS
    <3>2. first - 1 \in 0 .. Len(lines) /\ first \in 1 .. Len(lines) + 1
      BY <2>4, <3>1
    <3> QED
      BY <2>5, <3>2 DEF Offsets
  <2>7. TargetOf(lines, word.n) \in Halfwords
    BY <2>6, Halfword DEF TargetOf
  <2> QED
    BY <1>2, <2>7 DEF Resolve
<1>3. CASE word.kind # "label"
  BY <1>1, <1>3 DEF Resolve, Operands
<1> QED
  BY <1>2, <1>3

(* The bytes of words, two for each. *)
LEMMA WordsBytes ==
  ASSUME NEW k \in Nat, NEW v, \A j \in 1 .. k : v[j] \in Halfwords
  PROVE  LET bytes == FlattenSeq([j \in 1 .. k |-> Bytes(v[j])])
         IN  /\ bytes \in Seq(ByteValues) /\ Len(bytes) = 2 * k
             /\ \A j \in 1 .. k : bytes[2 * j - 1] * 256 + bytes[2 * j] = v[j]
<1> DEFINE ss == [j \in 1 .. k |-> Bytes(v[j])]
           S == {n \in Nat : Len(Joined(ss, n)) = 2 * n}
<1>1. /\ ss \in Seq(Seq(ByteValues)) /\ Len(ss) = k
      /\ \A j \in 1 .. k : ss[j] = Bytes(v[j]) /\ Len(ss[j]) = 2
  BY WordBytes
<1> HIDE DEF ss
<1>2. /\ \A n \in 0 .. Len(ss) : Joined(ss, n) \in Seq(ByteValues)
      /\ Joined(ss, 0) = <<>>
      /\ FlattenSeq(ss) = Joined(ss, Len(ss))
  BY <1>1, JoinedParts
<1>3. \A j \in 1 .. Len(ss) : Placed(ss, j)
  BY <1>1, JoinedPlace
<1>4. \A n \in 0 .. k : n \in S
  <2>1. 0 \in S
    <3>1. Len(Joined(ss, 0)) = 0
      BY <1>2
    <3> QED
      BY <3>1
  <2>2. ASSUME NEW n \in 1 .. k, n - 1 \in S PROVE n \in S
    <3>1. Len(Joined(ss, n)) = Len(Joined(ss, n - 1)) + 2
      BY <1>1, <1>3 DEF Placed
    <3>2. Len(Joined(ss, n - 1)) = 2 * (n - 1)
      BY <2>2
    <3>3. Len(Joined(ss, n)) = 2 * n
      BY <3>1, <3>2
    <3> QED
      BY <3>3
  <2> HIDE DEF S
  <2> QED
    BY <2>1, <2>2, BoundedInduction
<1>5. FlattenSeq(ss) = Joined(ss, k) /\ Joined(ss, k) \in Seq(ByteValues)
  BY <1>1, <1>2
<1>6. Len(FlattenSeq(ss)) = 2 * k
  BY <1>4, <1>5
<1>7. ASSUME NEW j \in 1 .. k
      PROVE  FlattenSeq(ss)[2 * j - 1] * 256 + FlattenSeq(ss)[2 * j] = v[j]
  <2>1. j - 1 \in 0 .. k /\ 2 * (j - 1) + 1 = 2 * j - 1 /\ 2 * (j - 1) + 2 = 2 * j
    OBVIOUS
  <2>2. Len(Joined(ss, j - 1)) = 2 * (j - 1)
    BY <1>4, <2>1
  <2>3. k \in j .. Len(ss) /\ j \in 1 .. Len(ss) /\ Len(ss[j]) = 2
    BY <1>1
  <2>4. /\ Joined(ss, k)[Len(Joined(ss, j - 1)) + 1] = ss[j][1]
        /\ Joined(ss, k)[Len(Joined(ss, j - 1)) + 2] = ss[j][2]
    <3>1. \A x \in 1 .. Len(ss[j]) : Joined(ss, k)[Len(Joined(ss, j - 1)) + x] = ss[j][x]
      BY <1>3, <2>3 DEF Placed
    <3> QED
      BY <2>3, <3>1
  <2>5. FlattenSeq(ss)[2 * j - 1] = Bytes(v[j])[1] /\ FlattenSeq(ss)[2 * j] = Bytes(v[j])[2]
    BY <1>1, <1>5, <2>1, <2>2, <2>4
  <2> QED
    BY <2>5, WordBytes
<1> QED
  BY <1>5, <1>6, <1>7 DEF ss

(* What the second pass writes for a line. *)
Emits(lines) == [i \in 1 .. Len(lines) |-> Emit(lines, lines[i])]

EmitsCode(bytes, lines, line) ==
  /\ bytes[1] = OpcodeOf(line.op)
  /\ \A j \in 1 .. Len(line.operands) :
       bytes[2 * j] * 256 + bytes[2 * j + 1] = Resolve(lines, line.operands[j])

(* An opcode and two bytes for each operand, as many as the first pass counts. *)
LEMMA EmitLine ==
  ASSUME Table, NEW lines \in Seq(ProgramLines), Assembles(lines), NEW i \in 1 .. Len(lines)
  PROVE  /\ Emit(lines, lines[i]) \in Seq(ByteValues)
         /\ Len(Emit(lines, lines[i])) = Width(lines[i])
         /\ lines[i] \in CodeLines => EmitsCode(Emit(lines, lines[i]), lines, lines[i])
<1> DEFINE line == lines[i]
<1>1. line \in ProgramLines
  OBVIOUS
<1>2. CASE line \in LabelLines
  <2>1. line.op = "LABEL" /\ line \notin CodeLines
    BY <1>2, LineKinds
  <2>2. Emit(lines, line) = <<>>
    BY <2>1 DEF Emit
  <2>3. Width(line) = 0
    BY <1>1, <1>2, LineWidth
  <2> QED
    BY <2>1, <2>2, <2>3
<1>3. CASE line \in CodeLines
  <2>1. line.op # "LABEL" /\ line.op \in Mnemonics /\ line.operands \in Seq(Operands)
    BY <1>3, LineKinds DEF CodeLines
  <2> DEFINE k == Len(line.operands)
             v == [j \in 1 .. k |-> Resolve(lines, line.operands[j])]
             bytes == FlattenSeq([j \in 1 .. k |-> Bytes(v[j])])
             opcode == OpcodeOf(line.op)
  <2>2. k \in Nat /\ DOMAIN line.operands = 1 .. k
    BY <2>1
  <2>3. \A j \in 1 .. k : v[j] = Resolve(lines, line.operands[j]) /\ v[j] \in Halfwords
    BY <1>3, Resolved
  <2>4. Emit(lines, line) = <<opcode>> \o bytes
    <3>1. [j \in 1 .. k |-> Bytes(v[j])] =
            [j \in DOMAIN line.operands |-> Bytes(Resolve(lines, line.operands[j]))]
      BY <2>2
    <3> QED
      BY <2>1, <3>1 DEF Emit
  <2> HIDE DEF v
  <2>5. /\ bytes \in Seq(ByteValues) /\ Len(bytes) = 2 * k
        /\ \A j \in 1 .. k : bytes[2 * j - 1] * 256 + bytes[2 * j] = v[j]
    <3> HIDE DEF k
    <3>1. k \in Nat /\ \A j \in 1 .. k : v[j] \in Halfwords
      BY <2>2, <2>3
    <3> QED
      BY <3>1, WordsBytes
  <2>6. opcode \in ByteValues
    BY <2>1, OpcodeNames
  <2>7. Width(line) = 1 + 2 * k
    BY <1>1, <1>3, LineWidth
  <2> HIDE DEF bytes, opcode, k
  <2> DEFINE all == <<opcode>> \o bytes
  <2>8. all \in Seq(ByteValues) /\ Len(all) = 1 + 2 * k /\ all[1] = opcode
    BY <2>2, <2>5, <2>6
  <2>9. ASSUME NEW j \in 1 .. k PROVE all[2 * j] * 256 + all[2 * j + 1] = v[j]
    <3>1. all[2 * j] = bytes[2 * j - 1]
      BY <2>2, <2>5, <2>6
    <3>2. all[2 * j + 1] = bytes[2 * j]
      BY <2>2, <2>5, <2>6
    <3> QED
      BY <2>5, <3>1, <3>2
  <2> HIDE DEF all
  <2>10. EmitsCode(all, lines, line)
    BY <2>3, <2>8, <2>9 DEF EmitsCode, opcode, k
  <2> QED
    BY <2>4, <2>7, <2>8, <2>10 DEF all
<1> QED
  BY <1>1, <1>2, <1>3 DEF ProgramLines

(* The second pass keeps to the offsets of the first. *)
LEMMA Written ==
  ASSUME Table, NEW lines \in Seq(ProgramLines), Assembles(lines), NEW pc, Offsets(lines, pc)
  PROVE  /\ Emits(lines) \in Seq(Seq(ByteValues)) /\ Len(Emits(lines)) = Len(lines)
         /\ Assemble(lines) = Joined(Emits(lines), Len(lines))
         /\ Assemble(lines) \in Seq(ByteValues)
         /\ \A n \in 0 .. Len(lines) : Len(Joined(Emits(lines), n)) = pc[n]
<1> DEFINE m == Len(lines)
           ss == Emits(lines)
           S == {n \in Nat : Len(Joined(ss, n)) = pc[n]}
<1>1. m \in Nat
  OBVIOUS
<1>2. /\ ss \in Seq(Seq(ByteValues)) /\ Len(ss) = m
      /\ \A i \in 1 .. m : ss[i] = Emit(lines, lines[i]) /\ Len(ss[i]) = Width(lines[i])
  BY EmitLine DEF Emits
<1>3. ss = [i \in DOMAIN lines |-> Emit(lines, lines[i])]
  BY DEF Emits
<1> HIDE DEF ss
<1>4. /\ Joined(ss, 0) = <<>>
      /\ FlattenSeq(ss) = Joined(ss, m)
      /\ \A n \in 0 .. m : Joined(ss, n) \in Seq(ByteValues)
  BY <1>2, JoinedParts
<1>5. \A i \in 1 .. m : Placed(ss, i)
  BY <1>2, JoinedPlace
<1>6. Assemble(lines) = Joined(ss, m)
  BY <1>3, <1>4 DEF Assemble
<1>7. 0 \in S
  <2>1. Len(Joined(ss, 0)) = 0
    BY <1>4
  <2>2. pc[0] = 0
    BY DEF Offsets
  <2> QED
    BY <2>1, <2>2
<1>8. ASSUME NEW n \in 1 .. m, n - 1 \in S PROVE n \in S
  <2>1. Len(Joined(ss, n)) = Len(Joined(ss, n - 1)) + Len(ss[n])
    BY <1>5 DEF Placed
  <2>2. pc[n] = pc[n - 1] + Width(lines[n])
    BY DEF Offsets
  <2>3. Len(Joined(ss, n)) = pc[n]
    BY <1>2, <1>8, <2>1, <2>2
  <2> QED
    BY <2>3
<1>9. \A n \in 0 .. m : n \in S
  <2> HIDE DEF S, m
  <2> QED
    BY <1>1, <1>7, <1>8, BoundedInduction
<1>10. Assemble(lines) \in Seq(ByteValues)
  BY <1>1, <1>4, <1>6
<1> QED
  BY <1>2, <1>6, <1>9, <1>10 DEF ss

(* Not past the last byte. *)
LEMMA OffsetBound ==
  ASSUME Table, NEW lines \in Seq(ProgramLines), Assembles(lines), NEW pc, Offsets(lines, pc),
         NEW i \in 1 .. Len(lines)
  PROVE  /\ pc[i - 1] \in Nat /\ pc[i] \in Nat /\ Len(Assemble(lines)) \in Nat
         /\ pc[i] = pc[i - 1] + Width(lines[i])
         /\ pc[i] <= Len(Assemble(lines))
<1> DEFINE m == Len(lines)
           ss == Emits(lines)
<1>1. m \in Nat /\ i - 1 \in 0 .. m /\ i \in 0 .. m /\ m \in i .. m /\ m \in 0 .. m
  OBVIOUS
<1>2. pc[i - 1] \in Nat /\ pc[i] \in Nat
  BY <1>1 DEF Offsets
<1>3. ss \in Seq(Seq(ByteValues)) /\ Len(ss) = m
  BY Written
<1>4. Placed(ss, i)
  BY <1>3, JoinedPlace
<1>5. Len(Joined(ss, i)) <= Len(Joined(ss, m))
  BY <1>1, <1>3, <1>4 DEF Placed
<1>6. Len(Joined(ss, i)) = pc[i]
  BY <1>1, Written
<1>7. Assemble(lines) = Joined(ss, m) /\ Assemble(lines) \in Seq(ByteValues)
  BY Written
<1>8. Len(Assemble(lines)) \in Nat
  BY <1>7
<1>9. pc[i] = pc[i - 1] + Width(lines[i])
  BY DEF Offsets
<1>10. pc[i] <= Len(Assemble(lines))
  <2> HIDE DEF ss, m
  <2> QED
    BY <1>5, <1>6, <1>7
<1> QED
  BY <1>2, <1>8, <1>9, <1>10

(* What print_instruction prints for the instruction of a line. *)
Instruct(lines, line, at) ==
  [at |-> at, op |-> line.op,
   args |-> [j \in 1 .. Len(line.operands) |-> Resolve(lines, line.operands[j])]]

(* The instruction of a line is decoded where the first pass has put it. *)
LEMMA DecodesLine ==
  ASSUME Table, NEW lines \in Seq(ProgramLines), Assembles(lines), NEW pc, Offsets(lines, pc),
         NEW i \in 1 .. Len(lines), lines[i] \in CodeLines
  PROVE  Decode(Assemble(lines), pc[i - 1]) = Instruct(lines, lines[i], pc[i - 1])
<1> DEFINE m == Len(lines)
           ss == Emits(lines)
           bytes == Assemble(lines)
           line == lines[i]
           k == Len(line.operands)
           at == pc[i - 1]
<1>1. m \in Nat /\ i - 1 \in 0 .. m /\ m \in i .. m
  OBVIOUS
<1>2. /\ line.op \in Mnemonics /\ line.operands \in Seq(Operands)
      /\ k \in Nat /\ Len(Takes(line.op)) = k /\ DOMAIN Takes(line.op) = 1 .. k
  <2>1. line.op \in Mnemonics /\ line.operands \in Seq(Operands) /\ Len(Takes(line.op)) = k
    BY DEF CodeLines
  <2>2. Takes(line.op) \in Seq({"number", "address"})
    BY <2>1 DEF Table
  <2> QED
    BY <2>1, <2>2
<1>3. /\ at \in Nat /\ Len(bytes) \in Nat /\ at + (1 + 2 * k) <= Len(bytes)
  <2>1. Width(line) = 1 + 2 * k
    BY LineWidth DEF ProgramLines
  <2> QED
    BY <2>1, OffsetBound
<1>4. /\ ss \in Seq(Seq(ByteValues)) /\ Len(ss) = m /\ bytes = Joined(ss, m)
      /\ Len(Joined(ss, i - 1)) = at
  BY <1>1, Written
<1>5. Placed(ss, i)
  BY <1>4, JoinedPlace
<1>6. ss[i] = Emit(lines, line) /\ Len(ss[i]) = 1 + 2 * k /\ EmitsCode(ss[i], lines, line)
  <2>1. ss[i] = Emit(lines, line)
    BY DEF Emits
  <2>2. Width(line) = 1 + 2 * k
    BY LineWidth DEF ProgramLines
  <2> QED
    BY <2>1, <2>2, EmitLine
<1>7. \A j \in 1 .. 1 + 2 * k : bytes[at + j] = ss[i][j]
  BY <1>1, <1>4, <1>5, <1>6 DEF Placed
<1> HIDE DEF bytes, at, ss, k, m
<1>8. \A j \in 0 .. 2 * k : Byte(bytes, at + j) = ss[i][j + 1]
  <2> SUFFICES ASSUME NEW j \in 0 .. 2 * k PROVE Byte(bytes, at + j) = ss[i][j + 1]
    OBVIOUS
  <2>1. j + 1 \in 1 .. 1 + 2 * k /\ at + j < Len(bytes) /\ at + j + 1 = at + (j + 1)
    BY <1>2, <1>3
  <2> QED
    BY <1>7, <2>1 DEF Byte
<1>9. Byte(bytes, at) = OpcodeOf(line.op)
  <2>1. 0 \in 0 .. 2 * k /\ at + 0 = at /\ 0 + 1 = 1
    BY <1>2, <1>3
  <2> QED
    BY <1>6, <1>8, <2>1 DEF EmitsCode
<1>10. ASSUME NEW j \in 1 .. k
       PROVE  ReadWord(bytes, at + 2 * j - 1) = Resolve(lines, line.operands[j])
  <2>1. /\ 2 * j - 1 \in 0 .. 2 * k /\ 2 * j \in 0 .. 2 * k
        /\ at + (2 * j - 1) = at + 2 * j - 1 /\ at + 2 * j - 1 + 1 = at + 2 * j
        /\ 2 * j - 1 + 1 = 2 * j
    BY <1>2, <1>3
  <2>2. Byte(bytes, at + 2 * j - 1) = ss[i][2 * j] /\ Byte(bytes, at + 2 * j) = ss[i][2 * j + 1]
    BY <1>8, <2>1
  <2> QED
    BY <1>6, <2>1, <2>2 DEF ReadWord, EmitsCode, k
<1>11. Opcodes[Byte(bytes, at) + 1] = line.op
  BY <1>2, <1>9, OpcodeNames
<1> QED
  BY <1>2, <1>10, <1>11 DEF Decode, Instruct, bytes, at, k

-----------------------------------------------------------------------------
(* The listing of a program *)

(* What is printed for the lines with an instruction. *)
Listed(lines, pc) ==
  {Instruct(lines, lines[i], pc[i - 1]) : i \in {j \in 1 .. Len(lines) : lines[j] \in CodeLines}}

(* Each of them is what the disassembler decodes at its offset. *)
LEMMA ListedDecodes ==
  ASSUME Table, NEW lines \in Seq(ProgramLines), Assembles(lines), NEW pc, Offsets(lines, pc),
         NEW x \in Listed(lines, pc)
  PROVE  /\ x.at \in Nat /\ Len(x.args) \in Nat /\ Len(Assemble(lines)) \in Nat
         /\ x.at + (1 + 2 * Len(x.args)) <= Len(Assemble(lines))
         /\ Decode(Assemble(lines), x.at) = x
         /\ x.op \in Mnemonics
         /\ x.args \in Seq(Halfwords) /\ Len(x.args) = Len(Takes(x.op))
<1>1. PICK i \in 1 .. Len(lines) :
        lines[i] \in CodeLines /\ x = Instruct(lines, lines[i], pc[i - 1])
  BY DEF Listed
<1> DEFINE line == lines[i]
           k == Len(line.operands)
           v == [j \in 1 .. k |-> Resolve(lines, line.operands[j])]
<1>2. line.op \in Mnemonics /\ line.operands \in Seq(Operands) /\ Len(Takes(line.op)) = k
  BY <1>1 DEF CodeLines
<1>3. k \in Nat
  BY <1>2
<1>4. \A j \in 1 .. k : Resolve(lines, line.operands[j]) \in Halfwords
  BY <1>1, Resolved
<1>5. x.at = pc[i - 1] /\ x.op = line.op /\ x.args = v
  BY <1>1 DEF Instruct
<1>6. v \in Seq(Halfwords) /\ Len(v) = k
  <2> HIDE DEF k
  <2> QED
    BY <1>3, <1>4 DEF k
<1>7. Width(line) = 1 + 2 * k
  BY <1>1, LineWidth DEF ProgramLines
<1>8. /\ pc[i - 1] \in Nat /\ Len(Assemble(lines)) \in Nat
      /\ pc[i - 1] + (1 + 2 * k) <= Len(Assemble(lines))
  BY <1>7, OffsetBound
<1>9. Decode(Assemble(lines), pc[i - 1]) = x
  BY <1>1, DecodesLine
<1> HIDE DEF v, k
<1> QED
  BY <1>2, <1>3, <1>5, <1>6, <1>8, <1>9

(* What a line adds to the listing. *)
AddsListed(lines, pc, i) ==
  IF lines[i] \in CodeLines THEN <<Instruct(lines, lines[i], pc[i - 1])>> ELSE <<>>

(* e[i] is the listing of the first i lines. *)
Expected(lines, pc, e) ==
  /\ e \in [0 .. Len(lines) -> Seq(Listed(lines, pc))]
  /\ e[0] = <<>>
  /\ \A i \in 1 .. Len(lines) : e[i] = e[i - 1] \o AddsListed(lines, pc, i)

(* There is a listing to expect. *)
LEMMA ExpectedLoop ==
  ASSUME NEW lines \in Seq(ProgramLines), NEW pc
  PROVE  \E e : Expected(lines, pc, e)
<1> DEFINE m == Len(lines)
           D == Seq(Listed(lines, pc))
           step == [x \in D \X (1 .. m) |-> x[1] \o AddsListed(lines, pc, x[2])]
<1>1. m \in Nat
  OBVIOUS
<1>2. \A i \in 1 .. m : AddsListed(lines, pc, i) \in D
  BY DEF AddsListed, Listed
<1>3. ASSUME NEW x \in D, NEW i \in 1 .. m
      PROVE  step[<<x, i>>] = x \o AddsListed(lines, pc, i) /\ step[<<x, i>>] \in D
  <2>1. step[<<x, i>>] = x \o AddsListed(lines, pc, i)
    OBVIOUS
  <2>2. x \o AddsListed(lines, pc, i) \in D
    BY <1>2
  <2> QED
    BY <2>1, <2>2
<1>4. <<>> \in D
  OBVIOUS
<1> HIDE DEF step, D
<1>5. PICK e : Turns(e, D, <<>>, m, step)
  BY <1>1, <1>3, <1>4, Loop
<1>6. e \in [0 .. m -> D] /\ e[0] = <<>>
  BY <1>5 DEF Turns
<1>7. ASSUME NEW i \in 1 .. m PROVE e[i] = e[i - 1] \o AddsListed(lines, pc, i)
  <2>1. i - 1 \in 0 .. m
    BY <1>1
  <2>2. e[i - 1] \in D
    BY <1>6, <2>1
  <2> QED
    BY <1>3, <1>5, <2>2 DEF Turns
<1> QED
  BY <1>6, <1>7 DEF Expected, D

(* The instructions x follow one another from the first byte to the offset end. *)
Laid(x, end) ==
  /\ \A t \in 1 .. Len(x) :
       x[t].at = IF t = 1 THEN 0 ELSE x[t - 1].at + (1 + 2 * Len(x[t - 1].args))
  /\ end = IF x = <<>> THEN 0 ELSE x[Len(x)].at + (1 + 2 * Len(x[Len(x)].args))
  /\ Len(x) <= end

(* The lines lay out the instructions in this way. *)
LEMMA ExpectedLaid ==
  ASSUME Table, NEW lines \in Seq(ProgramLines), Assembles(lines), NEW pc, Offsets(lines, pc),
         NEW e, Expected(lines, pc, e)
  PROVE  \A i \in 0 .. Len(lines) : Laid(e[i], pc[i])
<1> DEFINE m == Len(lines)
           S == {n \in Nat : Laid(e[n], pc[n])}
<1>1. m \in Nat
  OBVIOUS
<1>2. 0 \in S
  <2>1. e[0] = <<>> /\ pc[0] = 0
    BY DEF Expected, Offsets
  <2> QED
    BY <2>1 DEF Laid
<1>3. ASSUME NEW n \in 1 .. m, n - 1 \in S PROVE n \in S
  <2> DEFINE x == e[n - 1]
             y == e[n]
             new == Instruct(lines, lines[n], pc[n - 1])
  <2>1. Laid(x, pc[n - 1]) /\ n - 1 \in 0 .. m
    BY <1>1, <1>3
  <2>2. x \in Seq(Listed(lines, pc)) /\ y = x \o AddsListed(lines, pc, n)
    BY <2>1 DEF Expected
  <2>3. pc[n - 1] \in Nat /\ pc[n] = pc[n - 1] + Width(lines[n])
    BY OffsetBound
  <2>4. CASE lines[n] \notin CodeLines
    <3>1. AddsListed(lines, pc, n) = <<>> /\ lines[n] \in LabelLines
      BY <2>4 DEF AddsListed, ProgramLines
    <3>2. y = x
      BY <2>2, <3>1, OneMore
    <3>3. Width(lines[n]) = 0
      BY <3>1, LineWidth
    <3>4. pc[n] = pc[n - 1]
      BY <2>3, <3>3
    <3>5. Laid(y, pc[n])
      BY <2>1, <3>2, <3>4
    <3> QED
      BY <3>5
  <2>5. CASE lines[n] \in CodeLines
    <3>1. AddsListed(lines, pc, n) = <<new>> /\ new \in Listed(lines, pc)
      BY <2>5 DEF AddsListed, Listed
    <3>2. y = Append(x, new)
      BY <2>2, <3>1, OneMore
    <3>3. new.at = pc[n - 1] /\ Len(new.args) \in Nat /\ Width(lines[n]) = 1 + 2 * Len(new.args)
      <4>1. Len(lines[n].operands) \in Nat
        BY <2>5 DEF CodeLines
      <4>2. Len(new.args) = Len(lines[n].operands)
        BY <4>1 DEF Instruct
      <4> QED
        BY <2>5, <4>1, <4>2, LineWidth DEF Instruct, ProgramLines
    <3> HIDE DEF new, x, y
    <3>4. /\ Len(x) \in Nat /\ Len(y) = Len(x) + 1 /\ y[Len(y)] = new /\ y # <<>>
          /\ \A t \in 1 .. Len(x) : y[t] = x[t]
      BY <2>2, <3>1, <3>2
    <3>5. ASSUME NEW t \in 1 .. Len(y)
          PROVE  y[t].at = IF t = 1 THEN 0 ELSE y[t - 1].at + (1 + 2 * Len(y[t - 1].args))
      <4>1. CASE t \in 1 .. Len(x)
        <5>1. t # 1 => t - 1 \in 1 .. Len(x)
          BY <3>4, <4>1
        <5>2. x[t].at = IF t = 1 THEN 0 ELSE x[t - 1].at + (1 + 2 * Len(x[t - 1].args))
          BY <2>1, <4>1 DEF Laid, x
        <5> QED
          BY <3>4, <4>1, <5>1, <5>2
      <4>2. CASE t = Len(x) + 1
        <5>1. y[t].at = pc[n - 1]
          BY <3>3, <3>4, <4>2
        <5>2. CASE t = 1
          <6>1. x = <<>>
            BY <2>2, <3>4, <4>2, <5>2 DEF x
          <6> QED
            BY <2>1, <5>1, <5>2, <6>1 DEF Laid, x
        <5>3. CASE t # 1
          <6>1. x # <<>> /\ t - 1 = Len(x) /\ y[t - 1] = x[Len(x)]
            BY <3>4, <4>2, <5>3
          <6>2. pc[n - 1] = x[Len(x)].at + (1 + 2 * Len(x[Len(x)].args))
            BY <2>1, <6>1 DEF Laid, x
          <6> QED
            BY <5>1, <5>3, <6>1, <6>2
        <5> QED
          BY <5>2, <5>3
      <4> QED
        BY <3>4, <4>1, <4>2
    <3>6. pc[n] = y[Len(y)].at + (1 + 2 * Len(y[Len(y)].args))
      BY <2>3, <3>3, <3>4
    <3>7. Len(y) <= pc[n]
      <4>1. Len(x) <= pc[n - 1]
        BY <2>1 DEF Laid, x
      <4> QED
        BY <2>3, <3>3, <3>4, <4>1
    <3>8. Laid(y, pc[n])
      BY <3>4, <3>5, <3>6, <3>7 DEF Laid
    <3> QED
      BY <3>8 DEF y
  <2> QED
    BY <2>4, <2>5
<1> HIDE DEF S, m
<1>4. \A n \in 0 .. m : n \in S
  BY <1>1, <1>2, <1>3, BoundedInduction
<1> QED
  BY <1>4 DEF S, m

(* The disassembler finds instructions laid out in this way. *)
LEMMA DecodedLaid ==
  ASSUME NEW bytes, Len(bytes) \in Nat, NEW R, NEW x \in Seq(R), Laid(x, Len(bytes)),
         \A y \in R : /\ y.at \in Nat /\ Len(y.args) \in Nat
                      /\ y.at + (1 + 2 * Len(y.args)) <= Len(bytes)
                      /\ Decode(bytes, y.at) = y
  PROVE  Decoded(bytes) = x
<1> DEFINE m == Len(bytes)
           n == Len(x)
           f == [t \in 0 .. m |-> [j \in 1 .. (IF t <= n THEN t ELSE n) |-> x[j]]]
           Body(g, t) == IF t = 0 THEN <<>>
                         ELSE LET before == g[t - 1]
                              IN  IF NextOffset(before) >= m THEN before
                                  ELSE Append(before, Decode(bytes, NextOffset(before)))
<1>1. m \in Nat /\ n \in Nat /\ n <= m
  BY DEF Laid
<1>2. ASSUME NEW t \in 0 .. m, t <= n
      PROVE  f[t] \in Seq(R) /\ Len(f[t]) = t /\ \A j \in 1 .. t : f[t][j] = x[j]
  <2>1. f[t] = [j \in 1 .. t |-> x[j]]
    BY <1>2
  <2> HIDE DEF f
  <2> QED
    BY <1>1, <1>2, <2>1
<1>3. ASSUME NEW t \in 0 .. m, t >= n PROVE f[t] = x
  <2>1. f[t] = [j \in 1 .. n |-> x[j]]
    BY <1>1, <1>3
  <2> QED
    BY <2>1
<1>4. DOMAIN f = 0 .. m
  OBVIOUS
<1> HIDE DEF f
<1>5. f[0] = <<>>
  <2>1. 0 \in 0 .. m /\ 0 <= n
    BY <1>1
  <2> QED
    BY <1>2, <2>1
<1>6. ASSUME NEW g, NEW t \in 1 .. m, g[t - 1] = f[t - 1] PROVE f[t] = Body(g, t)
  <2>1. t \in 0 .. m /\ t - 1 \in 0 .. m /\ t # 0
    BY <1>1
  <2>2. CASE t <= n
    <3> DEFINE before == f[t - 1]
    <3>1. /\ before \in Seq(R) /\ Len(before) = t - 1
          /\ \A j \in 1 .. t - 1 : before[j] = x[j]
      BY <1>1, <1>2, <2>1, <2>2
    <3>2. t \in 1 .. n /\ x[t] \in R
      BY <1>1, <2>2
    <3>3. NextOffset(before) = x[t].at
      <4>1. CASE t = 1
        <5>1. before = <<>>
          BY <3>1, <4>1
        <5>2. NextOffset(before) = 0
          BY <5>1 DEF NextOffset
        <5> QED
          BY <3>2, <4>1, <5>2 DEF Laid
      <4>2. CASE t # 1
        <5>1. before # <<>> /\ t - 1 \in 1 .. n /\ before[Len(before)] = x[t - 1]
          BY <1>1, <2>2, <3>1, <4>2
        <5>2. NextOffset(before) = x[t - 1].at + 1 + 2 * Len(x[t - 1].args)
          BY <5>1 DEF NextOffset, Last
        <5>3. x[t].at = x[t - 1].at + (1 + 2 * Len(x[t - 1].args))
          BY <3>2, <4>2 DEF Laid
        <5>4. x[t - 1].at \in Nat /\ Len(x[t - 1].args) \in Nat
          BY <5>1
        <5>5. PICK a \in Nat, b \in Nat : a = x[t - 1].at /\ b = Len(x[t - 1].args)
          BY <5>4
        <5>6. a + 1 + 2 * b = a + (1 + 2 * b)
          OBVIOUS
        <5> HIDE DEF before
        <5> QED
          BY <5>2, <5>3, <5>5, <5>6
      <4> QED
        BY <4>1, <4>2
    <3>4. /\ x[t].at \in Nat /\ Len(x[t].args) \in Nat
          /\ x[t].at + (1 + 2 * Len(x[t].args)) <= m
          /\ Decode(bytes, x[t].at) = x[t]
      BY <3>2
    <3>5. ~(NextOffset(before) >= m)
      BY <1>1, <3>3, <3>4
    <3>6. Body(g, t) = Append(before, x[t])
      BY <1>6, <2>1, <3>3, <3>4, <3>5
    <3>7. f[t] = Append(before, x[t])
      <4>1. f[t] \in Seq(R) /\ Len(f[t]) = t /\ \A j \in 1 .. t : f[t][j] = x[j]
        BY <1>2, <2>1, <2>2
      <4> HIDE DEF before
      <4> QED
        BY <2>1, <3>1, <3>2, <4>1
    <3> QED
      BY <3>6, <3>7
  <2>3. CASE t > n
    <3>1. f[t] = x /\ f[t - 1] = x
      BY <1>1, <1>3, <2>1, <2>3
    <3>2. NextOffset(x) >= m
      <4>1. CASE x = <<>>
        <5>1. m = 0
          BY <4>1 DEF Laid
        <5> QED
          BY <2>1, <5>1
      <4>2. CASE x # <<>>
        <5>1. m = x[n].at + (1 + 2 * Len(x[n].args))
          BY <4>2 DEF Laid
        <5>2. NextOffset(x) = x[n].at + 1 + 2 * Len(x[n].args)
          BY <4>2 DEF NextOffset, Last
        <5>3. x[n] \in R
          BY <1>1, <4>2
        <5>4. x[n].at \in Nat /\ Len(x[n].args) \in Nat
          BY <5>3
        <5> QED
          BY <5>1, <5>2, <5>4
      <4> QED
        BY <4>1, <4>2
    <3> QED
      BY <1>6, <2>1, <3>1, <3>2
  <2> QED
    BY <1>1, <2>1, <2>2, <2>3
<1>7. f = [t \in 0 .. m |-> Body(f, t)]
  <2>1. ASSUME NEW t \in 0 .. m PROVE f[t] = Body(f, t)
    <3>1. CASE t = 0
      BY <1>5, <3>1
    <3>2. CASE t # 0
      <4>1. t \in 1 .. m
        BY <3>2, <1>1
      <4> HIDE DEF Body
      <4> QED
        BY <1>6, <4>1
    <3> QED
      BY <3>1, <3>2
  <2>2. f = [t \in 0 .. m |-> f[t]]
    BY DEF f
  <2> HIDE DEF Body
  <2> QED
    BY <2>1, <2>2
<1>8. PICK g : g = [t \in 0 .. m |-> Body(g, t)] /\ Decoded(bytes) = g[m]
  BY <1>7 DEF Decoded
<1> HIDE DEF m
<1>9. g[0] = <<>> /\ \A t \in 1 .. m : g[t] = Body(g, t)
  <2>1. 0 \in 0 .. m /\ \A t \in 1 .. m : t \in 0 .. m
    BY <1>1
  <2>2. g[0] = Body(g, 0) /\ \A t \in 1 .. m : g[t] = Body(g, t)
    <3> HIDE DEF Body
    <3> QED
      BY <1>8, <2>1
  <2> QED
    BY <2>2
<1> DEFINE S == {t \in Nat : g[t] = f[t]}
<1>10. 0 \in S
  BY <1>5, <1>9
<1>11. ASSUME NEW t \in 1 .. m, t - 1 \in S PROVE t \in S
  <2>1. g[t - 1] = f[t - 1] /\ t \in Nat
    BY <1>11
  <2> HIDE DEF Body
  <2>2. g[t] = f[t]
    BY <1>6, <1>9, <2>1
  <2> QED
    BY <2>1, <2>2
<1>12. g[m] = f[m]
  <2> HIDE DEF S
  <2>1. \A t \in 0 .. m : t \in S
    BY <1>1, <1>10, <1>11, BoundedInduction
  <2>2. m \in S
    BY <1>1, <2>1
  <2> QED
    BY <2>2 DEF S
<1>13. f[m] = x
  <2>1. m \in 0 .. m /\ m >= n
    BY <1>1
  <2> QED
    BY <1>3, <2>1
<1> QED
  BY <1>8, <1>12, <1>13

(* Decoding what was assembled gives the instructions of the lines. *)
LEMMA DecodedLines ==
  ASSUME Table, NEW lines \in Seq(ProgramLines), Assembles(lines), NEW pc, Offsets(lines, pc),
         NEW e, Expected(lines, pc, e)
  PROVE  /\ Decoded(Assemble(lines)) = e[Len(lines)]
         /\ Laid(e[Len(lines)], Len(Assemble(lines)))
         /\ e[Len(lines)] \in Seq(Listed(lines, pc))
<1> DEFINE m == Len(lines)
           bytes == Assemble(lines)
           x == e[m]
<1>1. m \in 0 .. m
  OBVIOUS
<1>2. x \in Seq(Listed(lines, pc))
  BY <1>1 DEF Expected
<1>3. bytes \in Seq(ByteValues) /\ Len(bytes) = pc[m]
  BY <1>1, Written
<1>4. Len(bytes) \in Nat
  BY <1>3
<1>5. Laid(x, Len(bytes))
  BY <1>1, <1>3, ExpectedLaid
<1>6. \A y \in Listed(lines, pc) :
        /\ y.at \in Nat /\ Len(y.args) \in Nat
        /\ y.at + (1 + 2 * Len(y.args)) <= Len(bytes)
        /\ Decode(bytes, y.at) = y
  BY ListedDecodes
<1> HIDE DEF x, bytes
<1>7. Decoded(bytes) = x
  BY <1>2, <1>4, <1>5, <1>6, DecodedLaid
<1> QED
  BY <1>2, <1>5, <1>7 DEF x, bytes

-----------------------------------------------------------------------------
(* The listing and the text *)

Prefix(x, y) == Len(x) <= Len(y) /\ \A t \in 1 .. Len(x) : y[t] = x[t]

(* What a loop has collected stays where it is. *)
LEMMA Collected ==
  ASSUME NEW D, NEW m \in Nat, NEW f \in [0 .. m -> Seq(D)], NEW a,
         \A k \in 1 .. m : a[k] \in Seq(D) /\ f[k] = f[k - 1] \o a[k],
         NEW i \in 0 .. m
  PROVE  \A n \in i .. m : Prefix(f[i], f[n])
<1> DEFINE S == {n \in Nat : n >= i => Prefix(f[i], f[n])}
<1>1. Prefix(f[i], f[i])
  <2>1. f[i] \in Seq(D)
    OBVIOUS
  <2> QED
    BY <2>1 DEF Prefix
<1>2. 0 \in S
  <2>1. 0 >= i => i = 0
    OBVIOUS
  <2> HIDE DEF Prefix
  <2> QED
    BY <1>1, <2>1
<1>3. ASSUME NEW n \in 1 .. m, n - 1 \in S PROVE n \in S
  <2>1. CASE n < i
    BY <2>1
  <2>2. CASE n = i
    BY <1>1, <2>2
  <2>3. CASE n > i
    <3>1. n - 1 >= i /\ n - 1 \in 0 .. m
      BY <2>3
    <3> DEFINE x == f[i]
               y == f[n - 1]
    <3>2. x \in Seq(D) /\ y \in Seq(D) /\ a[n] \in Seq(D) /\ f[n] = y \o a[n]
      BY <3>1
    <3>3. Prefix(x, y)
      BY <1>3, <3>1
    <3> HIDE DEF x, y
    <3>4. Prefix(x, y \o a[n])
      BY <3>2, <3>3 DEF Prefix
    <3>5. Prefix(f[i], f[n])
      BY <3>2, <3>4 DEF x
    <3> QED
      BY <3>5
  <2> QED
    BY <2>1, <2>2, <2>3
<1>4. \A n \in 0 .. m : n \in S
  <2> HIDE DEF S
  <2> QED
    BY <1>2, <1>3, BoundedInduction
<1> QED
  BY <1>4

(* A line that is read is among the lines. *)
LEMMA LineRead ==
  ASSUME Table, NEW file \in Seq(Seq(Words)), NEW list, LinesRead(file, list),
         NEW i \in 1 .. Len(file), ParseLine(file[i]) # Ignored
  PROVE  /\ Len(list[i - 1]) \in Nat /\ Len(list[i]) = Len(list[i - 1]) + 1
         /\ Len(list[i - 1]) + 1 \in 1 .. Len(Lines(file))
         /\ Lines(file)[Len(list[i - 1]) + 1] = ParseLine(file[i])
<1> DEFINE m == Len(file)
           a == [k \in 1 .. m |-> Adds(file[k])]
<1>1. m \in Nat /\ i \in 0 .. m /\ i - 1 \in 0 .. m /\ m \in i .. m
  OBVIOUS
<1>2. \A k \in 1 .. m : a[k] = Adds(file[k]) /\ a[k] \in Seq(AsmLines)
  BY AddsLines
<1> HIDE DEF a
<1>3. /\ list \in [0 .. m -> Seq(AsmLines)] /\ list[m] = Lines(file)
      /\ \A k \in 1 .. m : list[k] = list[k - 1] \o a[k]
  BY <1>2 DEF LinesRead
<1>4. Prefix(list[i], Lines(file))
  <2> HIDE DEF m
  <2>1. \A k \in 1 .. m : a[k] \in Seq(AsmLines) /\ list[k] = list[k - 1] \o a[k]
    BY <1>2, <1>3
  <2>2. \A n \in i .. m : Prefix(list[i], list[n])
    BY <1>1, <1>3, <2>1, Collected
  <2> QED
    BY <1>1, <1>3, <2>2
<1>5. list[i - 1] \in Seq(AsmLines) /\ list[m] \in Seq(AsmLines)
  <2> HIDE DEF m
  <2>1. m \in 0 .. m
    BY <1>1
  <2> QED
    BY <1>1, <1>3, <2>1
<1>6. list[i] = list[i - 1] \o <<ParseLine(file[i])>>
  BY <1>2, <1>3 DEF Adds
<1>7. <<ParseLine(file[i])>> \in Seq(AsmLines)
  BY <1>2 DEF Adds
<1>8. /\ Len(list[i - 1]) \in Nat /\ Len(list[i]) = Len(list[i - 1]) + 1
      /\ list[i][Len(list[i - 1]) + 1] = ParseLine(file[i])
  BY <1>5, <1>6, <1>7
<1>9. Len(Lines(file)) \in Nat
  BY <1>3, <1>5
<1>10. Len(list[i]) <= Len(Lines(file)) /\ \A t \in 1 .. Len(list[i]) : Lines(file)[t] = list[i][t]
  BY <1>4 DEF Prefix
<1>11. Len(list[i - 1]) + 1 \in 1 .. Len(Lines(file)) /\ Len(list[i - 1]) + 1 \in 1 .. Len(list[i])
  BY <1>8, <1>9, <1>10
<1> QED
  BY <1>8, <1>10, <1>11

(* No line of a file that assembles ends the program. *)
LEMMA NoExit ==
  ASSUME Table, NEW file \in Seq(Seq(Words)), Assembles(Lines(file))
  PROVE  /\ Lines(file) \in Seq(ProgramLines)
         /\ \A i \in 1 .. Len(file) : ParseLine(file[i]) # Exit
<1>1. PICK list : LinesRead(file, list)
  BY LinesLoop
<1>2. Lines(file) \in Seq(AsmLines)
  <2>1. Len(file) \in 0 .. Len(file)
    OBVIOUS
  <2> QED
    BY <1>1, <2>1 DEF LinesRead
<1>3. \A n \in 1 .. Len(Lines(file)) : Lines(file)[n] # Exit
  BY <1>2 DEF Assembles
<1>4. \A n \in 1 .. Len(Lines(file)) : Lines(file)[n] \in ProgramLines
  BY <1>2, <1>3 DEF AsmLines, ProgramLines
<1>5. Lines(file) \in Seq(ProgramLines)
  BY <1>2, <1>4
<1>6. ASSUME NEW i \in 1 .. Len(file), ParseLine(file[i]) = Exit PROVE FALSE
  <2>1. ParseLine(file[i]) # Ignored
    BY <1>6, LineKinds
  <2> QED
    BY <1>1, <1>3, <1>6, <2>1, LineRead
<1> QED
  BY <1>5, <1>6

(* An instruction of the listing shows the words of a line. *)
Matching(lines, item, words) ==
  /\ item.op = words[1].op /\ Len(words) = Len(item.args) + 1
  /\ \A j \in 1 .. Len(item.args) :
       /\ words[j + 1] \in [kind : {"number", "label"}, n : Nat]
       /\ item.args[j] = Resolve(lines, Read(words[j + 1]))
       /\ words[j + 1].kind = "label" =>
            Defines(lines, words[j + 1].n) # {} /\ Takes(words[1].op)[j] = "address"

Matches(lines, x, c) ==
  Len(x) = Len(c) /\ \A t \in 1 .. Len(x) : Matching(lines, x[t], c[t])

(* The listing shows the instructions typed, in order. *)
LEMMA ListedTyped ==
  ASSUME Table, NEW file \in Seq(Seq(Words)), Assembles(Lines(file)),
         NEW pc, NEW e, Expected(Lines(file), pc, e)
  PROVE  Matches(Lines(file), e[Len(Lines(file))], Typed(file)) /\ Typed(file) \in Seq(Seq(Words))
<1> DEFINE m == Len(file)
           lines == Lines(file)
<1>1. m \in Nat /\ \A i \in 1 .. m : file[i] \in Seq(Words)
  OBVIOUS
<1>2. PICK list : LinesRead(file, list)
  BY LinesLoop
<1>3. PICK code : TypedRead(file, code)
  BY TypedLoop
<1>4. lines \in Seq(ProgramLines) /\ \A i \in 1 .. m : ParseLine(file[i]) # Exit
  BY NoExit
<1> DEFINE S == {i \in Nat : Matches(lines, e[Len(list[i])], code[i])}
<1>5. 0 \in S
  <2>1. Len(list[0]) = 0 /\ code[0] = <<>>
    BY <1>2, <1>3 DEF LinesRead, TypedRead
  <2>2. e[0] = <<>>
    BY DEF Expected
  <2>3. Matches(lines, e[Len(list[0])], code[0])
    BY <2>1, <2>2 DEF Matches
  <2> QED
    BY <2>3
<1>6. ASSUME NEW i \in 1 .. m, i - 1 \in S PROVE i \in S
  <2> DEFINE words == file[i]
             q == Len(list[i - 1])
             x == e[q]
             c == code[i - 1]
  <2>1. Matches(lines, x, c) /\ i - 1 \in 0 .. m /\ words \in Seq(Words) /\ ParseLine(words) # Exit
    BY <1>1, <1>4, <1>6
  <2>2. c \in Seq(Seq(Words)) /\ list[i - 1] \in Seq(AsmLines)
    BY <1>2, <1>3, <2>1 DEF TypedRead, LinesRead
  <2>3. code[i] = c \o AddsTyped(words) /\ list[i] = list[i - 1] \o Adds(words)
    BY <1>2, <1>3 DEF TypedRead, LinesRead
  <2>4. ParseLine(words) # Ignored =>
          /\ Len(list[i]) = q + 1 /\ q + 1 \in 1 .. Len(lines) /\ lines[q + 1] = ParseLine(words)
    BY <1>2, LineRead
  <2>5. Matches(lines, e[Len(list[i])], code[i])
    <3>1. CASE ParseLine(words) = Ignored
      <4>1. ~IsCode(words)
        BY <2>1, <3>1, ParsedCode, LineKinds
      <4>2. code[i] = c
        BY <2>2, <2>3, <4>1, OneMore DEF AddsTyped
      <4>3. list[i] = list[i - 1]
        BY <2>2, <2>3, <3>1, OneMore DEF Adds
      <4> QED
        BY <2>1, <4>2, <4>3
    <3>2. CASE ParseLine(words) # Ignored
      <4>1. /\ Len(list[i]) = q + 1 /\ q + 1 \in 1 .. Len(lines) /\ lines[q + 1] = ParseLine(words)
            /\ q \in Nat
        BY <2>2, <2>4, <3>2
      <4> HIDE DEF q
      <4>2. PICK r \in 1 .. Len(lines) : r = q + 1 /\ r - 1 = q /\ q \in 0 .. Len(lines)
        BY <1>4, <4>1
      <4>3. e[r] = x \o AddsListed(lines, pc, r) /\ x \in Seq(Listed(lines, pc))
        BY <4>2 DEF Expected
      <4>4. CASE ~IsCode(words)
        <5>1. lines[r] \in LabelLines
          BY <2>1, <3>2, <4>1, <4>2, <4>4, ParsedOther
        <5>2. lines[r] \notin CodeLines
          BY <5>1, LineKinds
        <5>3. e[r] = x
          BY <4>3, <5>2, OneMore DEF AddsListed
        <5>4. code[i] = c
          BY <2>2, <2>3, <4>4, OneMore DEF AddsTyped
        <5> QED
          BY <2>1, <4>1, <4>2, <5>3, <5>4
      <4>5. CASE IsCode(words)
        <5> DEFINE new == Instruct(lines, lines[r], pc[r - 1])
        <5>1. /\ lines[r] = ParseLine(words) /\ lines[r] \in CodeLines /\ lines[r].op = words[1].op
              /\ Len(words) = Len(Takes(words[1].op)) + 1
              /\ \A j \in 1 .. Len(Takes(words[1].op)) :
                   /\ words[j + 1] \in [kind : {"number", "label"}, n : Nat]
                   /\ words[j + 1].kind = "label" => Takes(words[1].op)[j] = "address"
                   /\ lines[r].operands[j] = Read(words[j + 1])
          <6>1. /\ words \in Seq(Words) /\ ParseLine(words) # Exit
                /\ lines[r] = ParseLine(words)
            BY <2>1, <4>1, <4>2
          <6> QED
            BY <4>5, <6>1, <1>1, ParsedCode, SMTT(20)
        <5>2. /\ Len(lines[r].operands) = Len(Takes(words[1].op))
              /\ Len(lines[r].operands) \in Nat
          BY <5>1 DEF CodeLines
        <5>3. Matching(lines, new, words)
          <6>1. /\ new.op = words[1].op /\ Len(new.args) = Len(lines[r].operands)
                /\ \A j \in 1 .. Len(lines[r].operands) :
                     new.args[j] = Resolve(lines, lines[r].operands[j])
            BY <5>1, <5>2 DEF Instruct
          <6>2. ASSUME NEW j \in 1 .. Len(Takes(words[1].op)), words[j + 1].kind = "label"
                PROVE  Defines(lines, words[j + 1].n) # {}
            <7>1. lines[r].operands[j] = words[j + 1]
              BY <5>1, <6>2, SMTT(20) DEF Read
            <7>2. j \in DOMAIN lines[r].operands
              BY <5>1, <5>2 DEF CodeLines
            <7>3. words[j + 1].n \in LabelsOf(lines[r])
              BY <6>2, <7>1, <7>2 DEF LabelsOf
            <7> QED
              BY <1>4, <4>2, <7>3, SMTT(20) DEF Assembles
          <6> HIDE DEF new
          <6> QED
            BY <5>1, <5>2, <6>1, <6>2 DEF Matching
        <5>4. e[r] = Append(x, new) /\ new \in Listed(lines, pc)
          BY <4>3, <5>1, OneMore DEF AddsListed, Listed
        <5>5. code[i] = Append(c, words)
          BY <2>1, <2>2, <2>3, <4>5, OneMore DEF AddsTyped
        <5> HIDE DEF new, x, c, words
        <5>6. Matches(lines, Append(x, new), Append(c, words))
          <6>1. /\ Len(Append(x, new)) = Len(x) + 1 /\ Append(x, new)[Len(x) + 1] = new
                /\ \A t \in 1 .. Len(x) : Append(x, new)[t] = x[t]
                /\ Len(x) \in Nat
            BY <4>3, <5>4
          <6>2. /\ Len(Append(c, words)) = Len(c) + 1 /\ Append(c, words)[Len(c) + 1] = words
                /\ \A t \in 1 .. Len(c) : Append(c, words)[t] = c[t]
            BY <2>1, <2>2
          <6>3. \A t \in 1 .. Len(x) + 1 : t \in 1 .. Len(x) \/ t = Len(x) + 1
            BY <6>1
          <6> QED
            BY <2>1, <5>3, <6>1, <6>2, <6>3 DEF Matches
        <5> QED
          BY <4>1, <4>2, <5>4, <5>5, <5>6
      <4> QED
        BY <4>4, <4>5
    <3> QED
      BY <3>1, <3>2
  <2> QED
    BY <2>5
<1>7. \A i \in 0 .. m : i \in S
  <2> HIDE DEF S, m
  <2> QED
    BY <1>1, <1>5, <1>6, BoundedInduction
<1>8. m \in S /\ m \in 0 .. m
  <2> HIDE DEF S
  <2> QED
    BY <1>1, <1>7
<1>9. list[m] = lines /\ code[m] = Typed(file) /\ code[m] \in Seq(Seq(Words))
  BY <1>2, <1>3, <1>8 DEF LinesRead, TypedRead
<1> QED
  BY <1>8, <1>9

(* A listing and the instructions typed are cut at the same place. *)
Cut(c) ==
  LET abort == SelectInSeq(c, LAMBDA words : words[1].op = "ABORT")
  IN  IF abort = 0 THEN c ELSE SubSeq(c, 1, abort - 1)

LEMMA CutAlike ==
  ASSUME NEW R, NEW x \in Seq(R), NEW Q, NEW c \in Seq(Q), Len(x) = Len(c),
         \A t \in 1 .. Len(x) : x[t].op = c[t][1].op
  PROVE  \E n \in 0 .. Len(x) :
           /\ UpToAbort(x) = SubSeq(x, 1, n) /\ Cut(c) = SubSeq(c, 1, n)
           /\ \A t \in 1 .. n : x[t].op # "ABORT"
<1> DEFINE I == {t \in 1 .. Len(x) : x[t].op = "ABORT"}
           J == {t \in 1 .. Len(c) : c[t][1].op = "ABORT"}
           At(K) == IF K # {} THEN Min(K) ELSE 0
<1>1. I = J /\ Len(x) \in Nat
  OBVIOUS
<1>2. UpToAbort(x) = IF At(I) = 0 THEN x ELSE SubSeq(x, 1, At(I) - 1)
  BY DEF UpToAbort, SelectInSeq
<1>3. Cut(c) = IF At(J) = 0 THEN c ELSE SubSeq(c, 1, At(J) - 1)
  BY DEF Cut, SelectInSeq
<1>4. CASE I = {}
  <2>1. SubSeq(x, 1, Len(x)) = x /\ SubSeq(c, 1, Len(x)) = c
    OBVIOUS
  <2>2. \A t \in 1 .. Len(x) : x[t].op # "ABORT"
    BY <1>4
  <2>3. At(I) = 0 /\ At(J) = 0
    BY <1>1, <1>4
  <2> HIDE DEF I, J, At
  <2>4. UpToAbort(x) = SubSeq(x, 1, Len(x)) /\ Cut(c) = SubSeq(c, 1, Len(x))
    BY <1>2, <1>3, <2>1, <2>3
  <2>5. Len(x) \in 0 .. Len(x)
    BY <1>1
  <2> QED
    BY <2>2, <2>4, <2>5
<1>5. CASE I # {}
  <2> DEFINE first == Min(I)
  <2>1. \E t \in I : \A u \in I : t <= u
    <3>1. I \subseteq Nat
      OBVIOUS
    <3> HIDE DEF I
    <3> QED
      BY <1>5, <3>1, LeastNumber
  <2>2. first \in I /\ \A u \in I : first <= u
    BY <2>1 DEF Min
  <2> HIDE DEF first
  <2>3. first \in 1 .. Len(x) /\ first # 0 /\ first - 1 \in 0 .. Len(x)
    BY <2>2
  <2>4. \A t \in 1 .. first - 1 : x[t].op # "ABORT"
    BY <2>2, <2>3
  <2>5. At(I) = first /\ At(J) = first
    BY <1>1, <1>5 DEF first
  <2> HIDE DEF I, J, At
  <2>6. UpToAbort(x) = SubSeq(x, 1, first - 1) /\ Cut(c) = SubSeq(c, 1, first - 1)
    BY <1>2, <1>3, <2>3, <2>5
  <2> QED
    BY <2>3, <2>4, <2>6
<1> QED
  BY <1>4, <1>5

-----------------------------------------------------------------------------
(* The listing of a file *)

(* What is listed. *)
Instructions ==
  {item \in [at : Nat, op : Mnemonics, args : Seq(Halfwords)] :
     Len(item.args) = Len(Takes(item.op))}

(* The next instruction comes behind the operands of the one before. *)
Spaced(x) ==
  \A t \in 1 .. Len(x) :
    x[t].at = IF t = 1 THEN 0 ELSE x[t - 1].at + (1 + 2 * Len(x[t - 1].args))

(* Decoding an assembled file gives an instruction for every one typed. *)
LEMMA ProgramListing ==
  ASSUME Table, NEW file \in Seq(Seq(Words)), Assembles(Lines(file)),
         NEW x, x = Decoded(Assemble(Lines(file)))
  PROVE  /\ x \in Seq(Instructions) /\ Spaced(x)
         /\ Matches(Lines(file), x, Typed(file)) /\ Typed(file) \in Seq(Seq(Words))
<1> DEFINE lines == Lines(file)
<1>1. lines \in Seq(ProgramLines)
  BY NoExit
<1> HIDE DEF lines
<1>2. PICK pc : Offsets(lines, pc)
  BY <1>1, OffsetLoop
<1>3. PICK e : Expected(lines, pc, e)
  BY <1>1, ExpectedLoop
<1>4. x = e[Len(lines)] /\ Laid(x, Len(Assemble(lines))) /\ x \in Seq(Listed(lines, pc))
  BY <1>1, <1>2, <1>3, DecodedLines DEF lines
<1>5. Matches(lines, x, Typed(file)) /\ Typed(file) \in Seq(Seq(Words))
  BY <1>3, <1>4, ListedTyped DEF lines
<1>6. Spaced(x)
  BY <1>4 DEF Laid, Spaced
<1>7. ASSUME NEW item \in Listed(lines, pc) PROVE item \in Instructions
  <2>1. /\ item.at \in Nat /\ item.op \in Mnemonics
        /\ item.args \in Seq(Halfwords) /\ Len(item.args) = Len(Takes(item.op))
    BY <1>1, <1>2, ListedDecodes DEF lines
  <2>2. item = [at |-> item.at, op |-> item.op, args |-> item.args]
    BY DEF Listed, Instruct
  <2> QED
    BY <2>1, <2>2 DEF Instructions
<1>8. x \in Seq(Instructions)
  BY <1>4, <1>7
<1> QED
  BY <1>5, <1>6, <1>8 DEF lines

(* The listing is a part of that, from the first instruction. *)
LEMMA ShownListing ==
  ASSUME Table, text \in Seq(Seq(Words)), Assembles(Lined)
  PROVE  /\ Matches(Lined, Listing, Shown) /\ Shown \in Seq(Seq(Words))
         /\ Listing \in Seq(Instructions) /\ Spaced(Listing)
         /\ \A t \in 1 .. Len(Listing) : Listing[t].op # "ABORT"
<1> DEFINE x == Decoded(Assemble(Lined))
           c == Typed(text)
<1>1. x \in Seq(Instructions) /\ Spaced(x) /\ Matches(Lined, x, c) /\ c \in Seq(Seq(Words))
  BY ProgramListing DEF Lined
<1>2. Listing = UpToAbort(x) /\ Shown = Cut(c)
  BY DEF Listing, Disassemble, Shown, Cut
<1> HIDE DEF x, c
<1>3. Len(x) = Len(c) /\ \A t \in 1 .. Len(x) : x[t].op = c[t][1].op
  BY <1>1 DEF Matches, Matching
<1>4. PICK n \in 0 .. Len(x) :
        /\ Listing = SubSeq(x, 1, n) /\ Shown = SubSeq(c, 1, n)
        /\ \A t \in 1 .. n : x[t].op # "ABORT"
  BY <1>1, <1>2, <1>3, CutAlike
<1>5. /\ Listing \in Seq(Instructions) /\ Len(Listing) = n
      /\ \A t \in 1 .. n : Listing[t] = x[t]
  BY <1>1, <1>4
<1>6. /\ Shown \in Seq(Seq(Words)) /\ Len(Shown) = n
      /\ \A t \in 1 .. n : Shown[t] = c[t]
  BY <1>1, <1>3, <1>4
<1>7. n \in Nat /\ \A t \in 1 .. n : t \in 1 .. Len(x) /\ (t # 1 => t - 1 \in 1 .. n)
  BY <1>1
<1>8. Matches(Lined, Listing, Shown)
  BY <1>1, <1>5, <1>6, <1>7 DEF Matches
<1>9. Spaced(Listing)
  BY <1>1, <1>5, <1>7 DEF Spaced
<1> QED
  BY <1>4, <1>5, <1>6, <1>8, <1>9

-----------------------------------------------------------------------------
(* The tables of the two assemblers *)

(* N names of opcodes. *)
Enumerates(s, N) ==
  /\ N \in Nat /\ 0 < N /\ N <= 256
  /\ \E T : s \in Seq(T)
  /\ DOMAIN s = 1 .. N /\ s[1] = "ABORT"
  /\ \A i, j \in 1 .. N : s[i] = s[j] => i = j
  /\ \A i \in 1 .. N : s[i] \notin {"LABEL", "IGNORED", "EXIT"}

(* The operands of instructions. *)
TwoAtMost ==
  /\ \A op : Takes(op) \in {<<>>, <<"number">>, <<"address">>, <<"address", "address">>}
  /\ Takes("ABORT") = <<>>

(* They and the operands of their instructions make a table. *)
LEMMA TableOf ==
  ASSUME NEW N, Enumerates(Opcodes, N), TwoAtMost
  PROVE  Table
<1>1. LET S == Seq({"number", "address"})
      IN  <<>> \in S /\ <<"number">> \in S /\ <<"address">> \in S /\ <<"address", "address">> \in S
  OBVIOUS
<1>2. \A op \in Mnemonics : Takes(op) \in Seq({"number", "address"})
  BY <1>1 DEF TwoAtMost
<1>3. Opcodes \in Seq(Mnemonics) /\ Len(Opcodes) = N
  BY DEF Mnemonics, Enumerates
<1>4. \A op \in {"LABEL", "IGNORED", "EXIT"} : op \notin Mnemonics
  BY DEF Mnemonics, Enumerates
<1> QED
  BY <1>2, <1>3, <1>4 DEF Table, Enumerates, TwoAtMost

(* enum matcher_opcode. *)
LEMMA MatcherOpcodes ==
  ASSUME NEW s, s = <<"ABORT", "NAME", "SCREEN", "NEXT", "JUMP", "SPLIT", "MATCH">>
  PROVE  Enumerates(s, 7)
<1>1. s \in Seq({"ABORT", "NAME", "SCREEN", "NEXT", "JUMP", "SPLIT", "MATCH"})
  OBVIOUS
<1>2. DOMAIN s = 1 .. 7
  OBVIOUS
<1>3. /\ s[1] = "ABORT" /\ s[2] = "NAME" /\ s[3] = "SCREEN" /\ s[4] = "NEXT"
      /\ s[5] = "JUMP" /\ s[6] = "SPLIT" /\ s[7] = "MATCH"
  OBVIOUS
<1>4. \A i, j \in 1 .. 7 : s[i] = s[j] => i = j
  BY <1>2, <1>3
<1>5. \A i \in 1 .. 7 : s[i] \notin {"LABEL", "IGNORED", "EXIT"}
  BY <1>2, <1>3
<1>6. 7 \in Nat /\ 0 < 7 /\ 7 <= 256
  OBVIOUS
<1>7. \E T : s \in Seq(T)
  BY <1>1
<1>8. s[1] = "ABORT"
  BY <1>3
<1> QED
  BY <1>2, <1>4, <1>5, <1>6, <1>7, <1>8, Zenon DEF Enumerates

(* enum opcode. *)
LEMMA PigletOpcodes ==
  ASSUME NEW s,
         s = <<"ABORT", "PUSHI", "LOADI", "LOADADDI", "STOREI", "LOAD", "STORE", "DUP", "DISCARD",
               "ADD", "ADDI", "SUB", "DIV", "MUL", "JUMP", "JUMP_IF_TRUE", "JUMP_IF_FALSE",
               "EQUAL", "LESS", "LESS_OR_EQUAL", "GREATER", "GREATER_OR_EQUAL",
               "GREATER_OR_EQUALI", "POP_RES", "DONE", "PRINT">>
  PROVE  Enumerates(s, 26)
<1>1. s \in Seq({"ABORT", "PUSHI", "LOADI", "LOADADDI", "STOREI", "LOAD", "STORE", "DUP",
                 "DISCARD", "ADD", "ADDI", "SUB", "DIV", "MUL", "JUMP", "JUMP_IF_TRUE",
                 "JUMP_IF_FALSE", "EQUAL", "LESS", "LESS_OR_EQUAL", "GREATER",
                 "GREATER_OR_EQUAL", "GREATER_OR_EQUALI", "POP_RES", "DONE", "PRINT"})
  OBVIOUS
<1>2. DOMAIN s = 1 .. 26
  OBVIOUS
<1>3. /\ s[1] = "ABORT" /\ s[2] = "PUSHI" /\ s[3] = "LOADI" /\ s[4] = "LOADADDI"
      /\ s[5] = "STOREI" /\ s[6] = "LOAD" /\ s[7] = "STORE" /\ s[8] = "DUP"
      /\ s[9] = "DISCARD" /\ s[10] = "ADD" /\ s[11] = "ADDI" /\ s[12] = "SUB"
      /\ s[13] = "DIV" /\ s[14] = "MUL" /\ s[15] = "JUMP" /\ s[16] = "JUMP_IF_TRUE"
      /\ s[17] = "JUMP_IF_FALSE" /\ s[18] = "EQUAL" /\ s[19] = "LESS"
      /\ s[20] = "LESS_OR_EQUAL" /\ s[21] = "GREATER" /\ s[22] = "GREATER_OR_EQUAL"
      /\ s[23] = "GREATER_OR_EQUALI" /\ s[24] = "POP_RES" /\ s[25] = "DONE" /\ s[26] = "PRINT"
  OBVIOUS
<1>4. \A i, j \in 1 .. 26 : s[i] = s[j] => i = j
  BY <1>2, <1>3
<1>5. \A i \in 1 .. 26 : s[i] \notin {"LABEL", "IGNORED", "EXIT"}
  BY <1>2, <1>3
<1>6. 26 \in Nat /\ 0 < 26 /\ 26 <= 256
  OBVIOUS
<1>7. \E T : s \in Seq(T)
  BY <1>1
<1>8. s[1] = "ABORT"
  BY <1>3
<1> QED
  BY <1>2, <1>4, <1>5, <1>6, <1>7, <1>8, Zenon DEF Enumerates

(* Both tables are as the lemmas above want them. *)
LEMMA Tables ==
  ASSUME kind \in {"matcher asm", "vm asm"}
  PROVE  Table
<1>1. CASE kind = "matcher asm"
  <2>1. Opcodes = M!Opcodes /\ \A op : Takes(op) = M!Takes(op)
    BY <1>1 DEF Opcodes, Takes
  <2>2. \A op : Takes(op) \in {<<>>, <<"number">>, <<"address">>, <<"address", "address">>}
    BY <2>1 DEF M!Takes
  <2>3. Takes("ABORT") = <<>>
    BY <2>1 DEF M!Takes
  <2>4. Enumerates(Opcodes, 7)
    BY <2>1, MatcherOpcodes DEF M!Opcodes
  <2>5. TwoAtMost
    BY <2>2, <2>3 DEF TwoAtMost
  <2> QED
    BY <2>4, <2>5, TableOf
<1>2. CASE kind # "matcher asm"
  <2>1. Opcodes = V!Opcodes /\ \A op : Takes(op) = V!Takes(op)
    BY <1>2 DEF Opcodes, Takes
  <2>2. \A op : Takes(op) \in {<<>>, <<"number">>, <<"address">>, <<"address", "address">>}
    BY <2>1 DEF V!Takes
  <2>3. Takes("ABORT") = <<>>
    BY <2>1 DEF V!Takes, V!BranchOps
  <2>4. Enumerates(Opcodes, 26)
    BY <2>1, PigletOpcodes DEF V!Opcodes
  <2>5. TwoAtMost
    BY <2>2, <2>3 DEF TwoAtMost
  <2> QED
    BY <2>4, <2>5, TableOf
<1> QED
  BY <1>1, <1>2

-----------------------------------------------------------------------------
(* The properties *)

(* The listing of an assembled file shows the instructions of the file in    *)
(* their order, with 16 bits of each number, up to an ABORT.                 *)
THEOREM ListingShowsText == text \in Seq(Seq(Words)) => RoundTrip
<1> SUFFICES ASSUME text \in Seq(Seq(Words)), Complete PROVE RoundTrip
  BY DEF RoundTrip
<1>1. Table /\ Assembles(Lined)
  BY Tables DEF Complete
<1>2. /\ Matches(Lined, Listing, Shown) /\ Shown \in Seq(Seq(Words))
      /\ Listing \in Seq(Instructions)
  BY <1>1, ShownListing
<1>3. Len(Listing) = Len(Shown) /\ DOMAIN Shown = 1 .. Len(Shown) /\ DOMAIN Listing = 1 .. Len(Shown)
  BY <1>2 DEF Matches
<1>4. ASSUME NEW i \in 1 .. Len(Shown)
      PROVE  /\ Listing[i].op = Shown[i][1].op
             /\ \A j \in DOMAIN Listing[i].args :
                  Shown[i][j + 1].kind = "number" => Listing[i].args[j] = Shown[i][j + 1].n % 65536
  <2> DEFINE item == Listing[i]
             words == Shown[i]
  <2>1. Matching(Lined, item, words) /\ item \in Instructions
    BY <1>2, <1>3 DEF Matches
  <2> HIDE DEF item, words
  <2>2. DOMAIN item.args = 1 .. Len(item.args)
    BY <2>1 DEF Instructions
  <2>3. ASSUME NEW j \in 1 .. Len(item.args), words[j + 1].kind = "number"
        PROVE  item.args[j] = words[j + 1].n % 65536
    <3> DEFINE word == words[j + 1]
    <3>1. word \in [kind : {"number", "label"}, n : Nat] /\ item.args[j] = Resolve(Lined, Read(word))
      BY <2>1 DEF Matching
    <3>2. Read(word).kind = "number" /\ Read(word).n = word.n % 65536
      BY <2>3, <3>1, ReadOperand
    <3>3. Resolve(Lined, Read(word)) = Read(word).n
      BY <3>2 DEF Resolve
    <3> QED
      BY <3>1, <3>2, <3>3
  <2>4. item.op = words[1].op
    BY <2>1 DEF Matching
  <2> QED
    BY <2>2, <2>3, <2>4 DEF item, words
<1> QED
  BY <1>3, <1>4 DEF RoundTrip

(* The bytes before a label are as many as the first pass counts. *)
LEMMA LabelOffset ==
  ASSUME Table, NEW lines \in Seq(ProgramLines), Assembles(lines), NEW k, Defines(lines, k) # {}
  PROVE  LET first == FirstDefinition(lines, k)
         IN  /\ first \in 1 .. Len(lines)
             /\ OffsetOf(lines, first) = Len(Joined(Emits(lines), first))
             /\ OffsetOf(lines, first) \in Nat
             /\ OffsetOf(lines, first) <= Len(Assemble(lines))
             /\ Len(Assemble(lines)) \in Nat
<1> DEFINE first == FirstDefinition(lines, k)
<1>1. first \in 1 .. Len(lines) /\ lines[first] = Label(k)
  BY FirstDefined
<1> HIDE DEF first
<1>2. lines[first].op = "LABEL"
  BY <1>1 DEF Label, Line
<1>3. Width(lines[first]) = 0
  BY <1>2 DEF Width
<1>4. PICK pc : Offsets(lines, pc)
  BY OffsetLoop
<1>5. /\ pc[first - 1] \in Nat /\ pc[first] \in Nat /\ Len(Assemble(lines)) \in Nat
      /\ pc[first] = pc[first - 1] + Width(lines[first])
      /\ pc[first] <= Len(Assemble(lines))
  BY <1>1, <1>4, OffsetBound
<1>6. pc[first] = pc[first - 1]
  BY <1>3, <1>5
<1>7. first \in 0 .. Len(lines) /\ first \in 1 .. Len(lines) + 1
  BY <1>1
<1>8. OffsetOf(lines, first) = pc[first - 1]
  BY <1>4, <1>7 DEF Offsets
<1>9. Len(Joined(Emits(lines), first)) = pc[first]
  BY <1>4, <1>7, Written
<1> QED
  BY <1>1, <1>5, <1>6, <1>8, <1>9 DEF first

(* A word of 16 bits is kept as it is. *)
LEMMA Kept ==
  ASSUME NEW n \in Nat, n < 65536
  PROVE  n % 65536 = n /\ n \in Halfwords
<1>1. n % 65536 = n
  OBVIOUS
<1>2. n \in Halfwords
  BY DEF Halfwords
<1> QED
  BY <1>1, <1>2

(* The addresses of the program, which the bytecode has 16 bits for. *)
Addressable == Len(Assemble(Lined)) < 65536

(* A label is resolved to the number of the bytes written before it. *)
LEMMA TargetWritten ==
  ASSUME Table, Lined \in Seq(ProgramLines), Assembles(Lined), Addressable,
         NEW k, Defines(Lined, k) # {}
  PROVE  TargetOf(Lined, k) = WrittenBefore(k)
<1> DEFINE first == FirstDefinition(Lined, k)
           before == SubSeq(Lined, 1, first)
           offset == OffsetOf(Lined, first)
           all == Len(Assemble(Lined))
           written == [i \in 1 .. first |-> Emit(Lined, Lined[i])]
<1>1. /\ first \in 1 .. Len(Lined) /\ offset = Len(Joined(Emits(Lined), first))
      /\ offset \in Nat /\ offset <= all /\ all \in Nat
  BY LabelOffset
<1>2. all < 65536
  BY DEF Addressable
<1> HIDE DEF all, offset
<1>3. offset % 65536 = offset
  BY <1>1, <1>2, Kept
<1>4. TargetOf(Lined, k) = offset
  BY <1>3 DEF TargetOf, offset
<1> HIDE DEF first
<1>5. DOMAIN before = 1 .. first /\ \A i \in 1 .. first : before[i] = Lined[i]
  BY <1>1
<1>6. \A i \in 1 .. first : Emits(Lined)[i] = Emit(Lined, Lined[i])
  BY <1>1 DEF Emits
<1>7. WrittenBefore(k) = Len(FlattenSeq([i \in DOMAIN before |-> Emit(Lined, before[i])]))
  BY DEF WrittenBefore, first
<1> HIDE DEF before
<1>8. [i \in DOMAIN before |-> Emit(Lined, before[i])] = written
  BY <1>5
<1>9. [i \in 1 .. first |-> Emits(Lined)[i]] = written
  BY <1>6
<1>10. Joined(Emits(Lined), first) = FlattenSeq(written)
  BY <1>9 DEF Joined
<1> HIDE DEF written
<1> QED
  BY <1>1, <1>4, <1>7, <1>8, <1>10

(* In a program whose addresses have 16 bits, an operand that was typed as a *)
(* label is the number of the bytes written before the label.                *)
THEOREM BranchesLand == text \in Seq(Seq(Words)) /\ Addressable => BranchesLandOnLabels
<1> SUFFICES ASSUME text \in Seq(Seq(Words)), Addressable, Complete
             PROVE  BranchesLandOnLabels
  BY DEF BranchesLandOnLabels
<1>1. Table /\ Assembles(Lined)
  BY Tables DEF Complete
<1>2. /\ Matches(Lined, Listing, Shown) /\ Shown \in Seq(Seq(Words))
      /\ Listing \in Seq(Instructions)
  BY <1>1, ShownListing
<1>3. Lined \in Seq(ProgramLines)
  BY <1>1, NoExit DEF Lined
<1>4. DOMAIN Listing = 1 .. Len(Listing)
  BY <1>2
<1>5. ASSUME NEW i \in 1 .. Len(Listing)
      PROVE  \A j \in DOMAIN Listing[i].args :
               Shown[i][j + 1].kind = "label" => Listing[i].args[j] = WrittenBefore(Shown[i][j + 1].n)
  <2> DEFINE item == Listing[i]
             words == Shown[i]
  <2>1. Matching(Lined, item, words) /\ item \in Instructions
    BY <1>2, <1>4 DEF Matches
  <2> HIDE DEF item, words
  <2>2. DOMAIN item.args = 1 .. Len(item.args)
    BY <2>1 DEF Instructions
  <2>3. ASSUME NEW j \in 1 .. Len(item.args), words[j + 1].kind = "label"
        PROVE  item.args[j] = WrittenBefore(words[j + 1].n)
    <3> DEFINE word == words[j + 1]
    <3>1. item.args[j] = Resolve(Lined, Read(word)) /\ Defines(Lined, word.n) # {}
      BY <2>1, <2>3 DEF Matching
    <3>2. Read(word) = word
      BY <2>3 DEF Read
    <3>3. Resolve(Lined, word) = TargetOf(Lined, word.n)
      BY <2>3 DEF Resolve
    <3>4. TargetOf(Lined, word.n) = WrittenBefore(word.n)
      BY <1>1, <1>3, <3>1, TargetWritten
    <3> QED
      BY <3>1, <3>2, <3>3, <3>4
  <2> QED
    BY <2>2, <2>3 DEF item, words
<1> QED
  BY <1>4, <1>5 DEF BranchesLandOnLabels

(* A line of a listing, typed in again. *)
Row(item) == <<Operation(item.op)>> \o [j \in DOMAIN item.args |-> Number(item.args[j])]

NumberLines == {line \in CodeLines : LabelsOf(line) = {}}

(* It is a line with an operation and a number for each operand. *)
LEMMA RowWords ==
  ASSUME Table, NEW item \in Instructions
  PROVE  /\ Row(item) \in Seq(Words) /\ IsCode(Row(item))
         /\ Row(item)[1].op = item.op
         /\ Len(item.args) \in Nat /\ Len(Row(item)) = Len(item.args) + 1
         /\ \A j \in 1 .. Len(item.args) :
              Row(item)[j + 1] = Number(item.args[j]) /\ item.args[j] \in Halfwords
<1> DEFINE k == Len(item.args)
           numbers == [j \in DOMAIN item.args |-> Number(item.args[j])]
<1>1. item.args \in Seq(Halfwords) /\ item.op \in Mnemonics
  BY DEF Instructions
<1>2. k \in Nat /\ DOMAIN item.args = 1 .. k
  BY <1>1
<1>3. \A j \in 1 .. k : item.args[j] \in Halfwords /\ item.args[j] \in Nat
  BY <1>1 DEF Halfwords
<1>4. \A n \in Nat : Number(n) \in Words
  BY DEF Number, Words
<1>5. Operation(item.op) \in Words
  BY <1>1 DEF Operation, Words
<1>6. /\ numbers \in Seq(Words) /\ Len(numbers) = k
      /\ \A j \in 1 .. k : numbers[j] = Number(item.args[j])
  BY <1>2, <1>3, <1>4
<1> HIDE DEF numbers, k
<1>7. /\ Row(item) \in Seq(Words) /\ Len(Row(item)) = k + 1
      /\ Row(item)[1] = Operation(item.op)
      /\ \A j \in 1 .. k : Row(item)[j + 1] = numbers[j]
  BY <1>2, <1>5, <1>6 DEF Row, numbers
<1>8. Row(item) # <<>>
  BY <1>2, <1>7
<1>9. IsCode(Row(item)) /\ Row(item)[1].op = item.op
  BY <1>7, <1>8 DEF IsCode, Operation
<1> QED
  BY <1>2, <1>3, <1>6, <1>7, <1>9 DEF k

(* parse_line accepts it. *)
LEMMA RowParsed ==
  ASSUME Table, NEW item \in Instructions
  PROVE  ParseLine(Row(item)) \in NumberLines
<1> DEFINE words == Row(item)
           takes == Takes(item.op)
           line == ParseLine(words)
<1>1. /\ words \in Seq(Words) /\ IsCode(words) /\ words[1].op = item.op
      /\ Len(item.args) \in Nat /\ Len(words) = Len(item.args) + 1
      /\ \A j \in 1 .. Len(item.args) : words[j + 1] = Number(item.args[j])
  BY RowWords
<1>2. Len(takes) = Len(item.args) /\ item.op \in Mnemonics
  BY DEF Instructions
<1> HIDE DEF words, takes, line
<1>3. /\ Len(Tail(words)) = Len(takes) /\ DOMAIN Tail(words) = 1 .. Len(item.args)
      /\ \A j \in 1 .. Len(item.args) : Tail(words)[j] = Number(item.args[j])
  BY <1>1, <1>2
<1>4. \A n, as : Readable(Number(n), as)
  BY DEF Readable, Number
<1>5. OperandsReadable(Tail(words), takes)
  BY <1>3, <1>4 DEF OperandsReadable
<1>6. words # <<>> /\ words[1].kind = "operation"
  BY <1>1 DEF IsCode
<1>7. \E operands : line = Line(item.op, operands)
  BY <1>1, <1>5, <1>6 DEF ParseLine, line, takes
<1>8. line.op = item.op
  BY <1>7 DEF Line
<1>9. line # Exit
  BY <1>2, <1>8 DEF Exit, Line, Table
<1>10. line \in CodeLines /\ \A j \in 1 .. Len(takes) : line.operands[j] = Read(words[j + 1])
  BY <1>1, <1>9, ParsedCode DEF line, takes
<1>11. \A n : Read(Number(n)).kind = "number"
  BY DEF Read, Number
<1>12. DOMAIN line.operands = 1 .. Len(takes)
  BY <1>8, <1>10 DEF CodeLines, takes
<1>13. \A j \in DOMAIN line.operands : line.operands[j].kind # "label"
  BY <1>1, <1>2, <1>10, <1>11, <1>12
<1>14. LabelsOf(line) = {}
  BY <1>13 DEF LabelsOf
<1> QED
  BY <1>10, <1>14 DEF NumberLines, line, words

(* A file of such lines assembles, for its branches need no label. *)
LEMMA NumbersAssemble ==
  ASSUME Table, NEW file \in Seq(Seq(Words)),
         \A i \in 1 .. Len(file) : ParseLine(file[i]) \in NumberLines
  PROVE  Assembles(Lines(file))
<1> DEFINE m == Len(file)
<1>1. PICK list : LinesRead(file, list)
  BY LinesLoop
<1>2. m \in Nat
  OBVIOUS
<1> DEFINE S == {n \in Nat : list[n] \in Seq(NumberLines)}
<1>3. 0 \in S
  <2>1. list[0] = <<>>
    BY <1>1 DEF LinesRead
  <2>2. <<>> \in Seq(NumberLines)
    OBVIOUS
  <2>3. list[0] \in Seq(NumberLines)
    BY <2>1, <2>2
  <2> QED
    BY <2>3
<1>4. ASSUME NEW n \in 1 .. m, n - 1 \in S PROVE n \in S
  <2>1. list[n] = list[n - 1] \o Adds(file[n]) /\ list[n - 1] \in Seq(NumberLines)
    BY <1>1, <1>4 DEF LinesRead
  <2>2. Adds(file[n]) \in Seq(NumberLines)
    BY DEF Adds
  <2>3. list[n] \in Seq(NumberLines)
    BY <2>1, <2>2
  <2> QED
    BY <2>3
<1>5. \A n \in 0 .. m : n \in S
  <2> HIDE DEF S, m
  <2> QED
    BY <1>2, <1>3, <1>4, BoundedInduction
<1>6. m \in 0 .. m /\ list[m] = Lines(file)
  BY <1>1, <1>2 DEF LinesRead
<1>7. Lines(file) \in Seq(NumberLines)
  BY <1>5, <1>6
<1>8. \A line \in NumberLines : line # Exit /\ LabelsOf(line) = {}
  BY LineKinds DEF NumberLines
<1> QED
  BY <1>7, <1>8 DEF Assembles

(* The sequence c is the first n lines of the file. *)
Copies(file, c, n) ==
  c \in Seq(Seq(Words)) /\ Len(c) = n /\ \A t \in 1 .. n : c[t] = file[t]

(* Instructions are all that is typed in it. *)
LEMMA AllTyped ==
  ASSUME Table, NEW file \in Seq(Seq(Words)), \A i \in 1 .. Len(file) : IsCode(file[i])
  PROVE  Len(Typed(file)) = Len(file) /\ \A t \in 1 .. Len(file) : Typed(file)[t] = file[t]
<1> DEFINE m == Len(file)
<1>1. PICK code : TypedRead(file, code)
  BY TypedLoop
<1>2. m \in Nat
  OBVIOUS
<1> DEFINE S == {n \in Nat : Copies(file, code[n], n)}
<1>3. 0 \in S
  <2>1. code[0] = <<>>
    BY <1>1 DEF TypedRead
  <2>2. Copies(file, <<>>, 0)
    BY DEF Copies
  <2>3. Copies(file, code[0], 0)
    BY <2>1, <2>2
  <2> QED
    BY <2>3
<1>4. ASSUME NEW n \in 1 .. m, n - 1 \in S PROVE n \in S
  <2> DEFINE c == code[n - 1]
  <2>1. c \in Seq(Seq(Words)) /\ Len(c) = n - 1 /\ \A t \in 1 .. n - 1 : c[t] = file[t]
    BY <1>4 DEF Copies
  <2>2. code[n] = c \o <<file[n]>>
    BY <1>1 DEF TypedRead, AddsTyped
  <2>3. file[n] \in Seq(Words)
    OBVIOUS
  <2> HIDE DEF c
  <2>4. code[n] = Append(c, file[n])
    BY <2>1, <2>2, <2>3, OneMore
  <2>5. /\ Append(c, file[n]) \in Seq(Seq(Words)) /\ Len(Append(c, file[n])) = n
        /\ \A t \in 1 .. n : Append(c, file[n])[t] = file[t]
    BY <2>1, <2>3
  <2>6. Copies(file, Append(c, file[n]), n)
    BY <2>5 DEF Copies
  <2>7. Copies(file, code[n], n) /\ n \in Nat
    BY <2>4, <2>6
  <2> QED
    BY <2>7
<1>5. \A n \in 0 .. m : n \in S
  <2> HIDE DEF S, m
  <2> QED
    BY <1>2, <1>3, <1>4, BoundedInduction
<1>6. m \in 0 .. m /\ code[m] = Typed(file)
  BY <1>1, <1>2 DEF TypedRead
<1> QED
  BY <1>5, <1>6 DEF Copies

(* With the same operations and operands, instructions have the same offsets. *)
LEMMA SameListing ==
  ASSUME NEW x \in Seq(Instructions), NEW y \in Seq(Instructions), Spaced(x), Spaced(y),
         Len(x) = Len(y),
         \A t \in 1 .. Len(x) : x[t].op = y[t].op /\ x[t].args = y[t].args
  PROVE  x = y
<1> DEFINE m == Len(x)
           S == {n \in Nat : n > 0 => x[n].at = y[n].at}
<1>1. m \in Nat /\ DOMAIN x = 1 .. m /\ DOMAIN y = 1 .. m
  OBVIOUS
<1>2. 0 \in S
  OBVIOUS
<1>3. ASSUME NEW n \in 1 .. m, n - 1 \in S PROVE n \in S
  <2>1. CASE n = 1
    <3>1. x[n].at = 0 /\ y[n].at = 0
      BY <1>1, <2>1 DEF Spaced
    <3> QED
      BY <3>1
  <2>2. CASE n # 1
    <3>1. n - 1 \in 1 .. m /\ n - 1 > 0
      BY <2>2
    <3>2. x[n - 1].at = y[n - 1].at /\ x[n - 1].args = y[n - 1].args
      BY <1>3, <3>1
    <3>3. /\ x[n].at = x[n - 1].at + (1 + 2 * Len(x[n - 1].args))
          /\ y[n].at = y[n - 1].at + (1 + 2 * Len(y[n - 1].args))
      BY <2>2 DEF Spaced
    <3>4. x[n].at = y[n].at
      BY <3>2, <3>3
    <3> QED
      BY <3>4
  <2> QED
    BY <2>1, <2>2
<1>4. \A n \in 0 .. m : n \in S
  <2> HIDE DEF S, m
  <2> QED
    BY <1>1, <1>2, <1>3, BoundedInduction
<1>5. ASSUME NEW t \in 1 .. m PROVE x[t] = y[t]
  <2>1. x[t].at = y[t].at
    BY <1>4
  <2>2. x[t] \in Instructions /\ y[t] \in Instructions
    BY <1>1
  <2>3. x[t].op = y[t].op /\ x[t].args = y[t].args
    OBVIOUS
  <2>4. \A item \in Instructions : item = [at |-> item.at, op |-> item.op, args |-> item.args]
    BY DEF Instructions
  <2> QED
    BY <2>1, <2>2, <2>3, <2>4
<1> QED
  BY <1>1, <1>5

(* A listing without ABORT is not cut. *)
LEMMA NotCut ==
  ASSUME NEW x, \A t \in 1 .. Len(x) : x[t].op # "ABORT"
  PROVE  UpToAbort(x) = x
<1> DEFINE I == {t \in 1 .. Len(x) : x[t].op = "ABORT"}
           At(K) == IF K # {} THEN Min(K) ELSE 0
<1>1. UpToAbort(x) = IF At(I) = 0 THEN x ELSE SubSeq(x, 1, At(I) - 1)
  BY DEF UpToAbort, SelectInSeq
<1>2. I = {}
  OBVIOUS
<1> HIDE DEF I
<1>3. At(I) = 0
  BY <1>2
<1> HIDE DEF At
<1> QED
  BY <1>1, <1>3

(* A listing that is typed in again, with numbers for the labels, assembles  *)
(* to bytes whose listing is the same one.                                   *)
THEOREM ListingAssembles == text \in Seq(Seq(Words)) => ListingReassembles
<1> SUFFICES ASSUME text \in Seq(Seq(Words)), Complete PROVE ListingReassembles
  BY DEF ListingReassembles
<1>1. Table /\ Assembles(Lined)
  BY Tables DEF Complete
<1> DEFINE x == Listing
           file == Retyped
           y == Decoded(Assemble(Lines(file)))
<1>2. /\ x \in Seq(Instructions) /\ Spaced(x)
      /\ \A t \in 1 .. Len(x) : x[t].op # "ABORT"
  BY <1>1, ShownListing
<1>3. file = [i \in DOMAIN x |-> Row(x[i])]
  BY DEF Retyped, Row
<1> HIDE DEF x, file
<1>4. Len(x) \in Nat /\ DOMAIN x = 1 .. Len(x) /\ \A i \in 1 .. Len(x) : x[i] \in Instructions
  BY <1>2
<1>5. /\ file \in Seq(Seq(Words)) /\ Len(file) = Len(x)
      /\ \A i \in 1 .. Len(x) : file[i] = Row(x[i]) /\ IsCode(file[i])
  BY <1>1, <1>3, <1>4, RowWords
<1>6. Assembles(Lines(file))
  <2>1. \A i \in 1 .. Len(file) : ParseLine(file[i]) \in NumberLines
    BY <1>1, <1>4, <1>5, RowParsed
  <2> QED
    BY <1>1, <1>5, <2>1, NumbersAssemble
<1>7. y \in Seq(Instructions) /\ Spaced(y) /\ Matches(Lines(file), y, Typed(file))
  BY <1>1, <1>5, <1>6, ProgramListing
<1>8. Len(Typed(file)) = Len(x) /\ \A t \in 1 .. Len(x) : Typed(file)[t] = Row(x[t])
  BY <1>1, <1>5, AllTyped
<1>9. Disassemble(Assemble(Lines(Retyped))) = UpToAbort(y)
  BY DEF Disassemble, file
<1> HIDE DEF y
<1>10. Len(y) = Len(x) /\ \A t \in 1 .. Len(x) : Matching(Lines(file), y[t], Row(x[t]))
  BY <1>7, <1>8 DEF Matches
<1>11. ASSUME NEW t \in 1 .. Len(x) PROVE y[t].op = x[t].op /\ y[t].args = x[t].args
  <2> DEFINE item == x[t]
             again == y[t]
  <2>1. item \in Instructions /\ again \in Instructions /\ Matching(Lines(file), again, Row(item))
    BY <1>4, <1>7, <1>10
  <2> HIDE DEF item, again
  <2>2. /\ Row(item)[1].op = item.op /\ Len(item.args) \in Nat
        /\ Len(Row(item)) = Len(item.args) + 1
        /\ \A j \in 1 .. Len(item.args) :
             Row(item)[j + 1] = Number(item.args[j]) /\ item.args[j] \in Halfwords
    BY <1>1, <2>1, RowWords
  <2>3. /\ again.args \in Seq(Halfwords) /\ item.args \in Seq(Halfwords)
        /\ Len(again.args) \in Nat
    BY <2>1 DEF Instructions
  <2> DEFINE old == item.args
             new == again.args
  <2>4. again.op = item.op /\ Len(new) = Len(old)
    <3>1. again.op = Row(item)[1].op /\ Len(Row(item)) = Len(new) + 1
      BY <2>1 DEF Matching
    <3>2. Len(new) \in Nat /\ Len(old) \in Nat /\ Len(Row(item)) = Len(old) + 1
      BY <2>2, <2>3
    <3> HIDE DEF old, new
    <3> QED
      BY <2>2, <3>1, <3>2
  <2>5. ASSUME NEW j \in 1 .. Len(item.args) PROVE again.args[j] = item.args[j]
    <3>1. again.args[j] = Resolve(Lines(file), Read(Number(item.args[j])))
      BY <2>1, <2>2, <2>4 DEF Matching
    <3>2. item.args[j] \in Nat /\ item.args[j] < 65536
      BY <2>2 DEF Halfwords
    <3>3. item.args[j] % 65536 = item.args[j]
      BY <3>2, Kept
    <3>4. \A n : Resolve(Lines(file), Read(Number(n))) = n % 65536
      BY DEF Resolve, Read, Number
    <3> QED
      BY <3>1, <3>3, <3>4
  <2>6. new = old
    <3>1. new \in Seq(Halfwords) /\ old \in Seq(Halfwords) /\ Len(new) = Len(old)
      BY <2>3, <2>4
    <3>2. \A j \in 1 .. Len(old) : new[j] = old[j]
      BY <2>5
    <3> HIDE DEF old, new
    <3> QED
      BY <3>1, <3>2
  <2> QED
    BY <2>4, <2>6 DEF item, again
<1>12. y = x
  BY <1>2, <1>7, <1>10, <1>11, SameListing
<1>13. UpToAbort(x) = x
  BY <1>2, NotCut
<1> QED
  BY <1>9, <1>12, <1>13 DEF ListingReassembles, x

-----------------------------------------------------------------------------
(* What the loaders make of the bytecode *)

(* The loader of PigletMatcher decodes what its disassembler lists. *)
LEMMA MatcherDecodes ==
  ASSUME M!Opcodes = Opcodes, \A op : M!Takes(op) = Takes(op)
  PROVE  /\ \A bytes : M!File!Decoded(bytes) = Decoded(bytes)
         /\ \A listing, offset : M!File!NumberOf(listing, offset) = NumberOf(listing, offset)
<1>1. \A bytes, offset : M!File!Decode(bytes, offset) = Decode(bytes, offset)
  BY DEF M!File!Decode, Decode, M!File!Byte, Byte, M!File!ReadWord, ReadWord
<1>2. \A listing : M!File!NextOffset(listing) = NextOffset(listing)
  BY DEF M!File!NextOffset, NextOffset, M!File!Last, Last
<1>3. \A bytes : M!File!Decoded(bytes) = Decoded(bytes)
  BY <1>1, <1>2 DEF M!File!Decoded, Decoded
<1>4. \A listing, offset : M!File!NumberOf(listing, offset) = NumberOf(listing, offset)
  BY <1>2 DEF M!File!NumberOf, NumberOf, M!File!Boundaries, Boundaries, M!File!Cardinality, Cardinality
<1> QED
  BY <1>3, <1>4

(* So does the one of PigletVM. *)
LEMMA PigletDecodes ==
  ASSUME V!Opcodes = Opcodes, \A op : V!Takes(op) = Takes(op)
  PROVE  /\ \A bytes : V!File!Decoded(bytes) = Decoded(bytes)
         /\ \A listing, offset : V!File!NumberOf(listing, offset) = NumberOf(listing, offset)
<1>1. \A bytes, offset : V!File!Decode(bytes, offset) = Decode(bytes, offset)
  BY DEF V!File!Decode, Decode, V!File!Byte, Byte, V!File!ReadWord, ReadWord
<1>2. \A listing : V!File!NextOffset(listing) = NextOffset(listing)
  BY DEF V!File!NextOffset, NextOffset, V!File!Last, Last
<1>3. \A bytes : V!File!Decoded(bytes) = Decoded(bytes)
  BY <1>1, <1>2 DEF V!File!Decoded, Decoded
<1>4. \A listing, offset : V!File!NumberOf(listing, offset) = NumberOf(listing, offset)
  BY <1>2 DEF V!File!NumberOf, NumberOf, V!File!Boundaries, Boundaries, V!File!Cardinality, Cardinality
<1> QED
  BY <1>3, <1>4

(* The branches of a listing go to its instructions or to its end. *)
Lands(x) ==
  \A t \in 1 .. Len(x) : \A j \in 1 .. Len(x[t].args) :
    Takes(x[t].op)[j] = "address" => x[t].args[j] \in Boundaries(x)

(* An instruction has a byte at least. *)
LEMMA NumberBound ==
  ASSUME NEW x \in Seq(Instructions), Spaced(x), NEW offset \in Nat, offset \in Boundaries(x)
  PROVE  /\ NumberOf(x, offset) \in Nat
         /\ NumberOf(x, offset) <= Len(x) /\ NumberOf(x, offset) <= offset
<1> DEFINE m == Len(x)
           S == {n \in Nat : n > 0 => n <= x[n].at + 1}
           N == {i \in DOMAIN x : x[i].at < offset}
<1>1. m \in Nat /\ DOMAIN x = 1 .. m
  OBVIOUS
<1>2. \A t \in 1 .. m : x[t].at \in Nat /\ Len(x[t].args) \in Nat
  BY DEF Instructions
<1>3. 0 \in S
  OBVIOUS
<1>4. ASSUME NEW n \in 1 .. m, n - 1 \in S PROVE n \in S
  <2>1. n = 1 => n <= x[n].at + 1
    BY <1>2
  <2>2. ASSUME n # 1 PROVE n <= x[n].at + 1
    <3>1. n - 1 \in 1 .. m /\ n - 1 > 0
      BY <2>2
    <3>2. n - 1 <= x[n - 1].at + 1
      BY <1>4, <3>1
    <3>3. x[n].at = x[n - 1].at + (1 + 2 * Len(x[n - 1].args))
      BY <2>2 DEF Spaced
    <3>4. x[n - 1].at \in Nat /\ Len(x[n - 1].args) \in Nat
      BY <1>2, <3>1
    <3> QED
      BY <3>2, <3>3, <3>4
  <2> QED
    BY <2>1, <2>2
<1>5. \A n \in 0 .. m : n \in S
  <2> HIDE DEF S, m
  <2> QED
    BY <1>1, <1>3, <1>4, BoundedInduction
<1>6. \A i \in N : i \in 1 .. m /\ i \in 1 .. offset
  <2> SUFFICES ASSUME NEW i \in N PROVE i \in 1 .. m /\ i \in 1 .. offset
    OBVIOUS
  <2>1. i \in 1 .. m /\ x[i].at \in Nat /\ x[i].at < offset
    BY <1>1, <1>2
  <2>2. i <= x[i].at + 1
    BY <1>5, <2>1
  <2> QED
    BY <2>1, <2>2
<1> HIDE DEF N, m
<1>7. /\ IsFiniteSet(1 .. m) /\ Cardinality(1 .. m) <= m
      /\ IsFiniteSet(1 .. offset) /\ Cardinality(1 .. offset) <= offset
  <2>1. \A n \in Nat : IsFiniteSet(1 .. n) /\ Cardinality(1 .. n) = IF 1 > n THEN 0 ELSE n - 1 + 1
    BY FS_Interval
  <2>2. \A n \in Nat : Cardinality(1 .. n) <= n
    BY <2>1
  <2> QED
    BY <1>1, <2>1, <2>2
<1>8. /\ IsFiniteSet(N) /\ Cardinality(N) <= Cardinality(1 .. m)
      /\ Cardinality(N) <= Cardinality(1 .. offset)
  BY <1>6, <1>7, FS_Subset
<1>9. Cardinality(N) \in Nat /\ Cardinality(1 .. m) \in Nat /\ Cardinality(1 .. offset) \in Nat
  BY <1>7, <1>8, FS_CardinalityType
<1>10. NumberOf(x, offset) = Cardinality(N)
  BY DEF NumberOf, N
<1> QED
  BY <1>1, <1>7, <1>8, <1>9, <1>10 DEF m

(* The names of the opcodes are those of the instruction set. *)
LEMMA PigletNames ==
  ASSUME V!Opcodes = Opcodes, NEW op \in Mnemonics
  PROVE  op \in V!Ops /\ op # "UNKNOWN"
<1> DEFINE names == {"ABORT", "PUSHI", "LOADI", "LOADADDI", "STOREI", "LOAD", "STORE", "DUP",
                     "DISCARD", "ADD", "ADDI", "SUB", "DIV", "MUL", "JUMP", "JUMP_IF_TRUE",
                     "JUMP_IF_FALSE", "EQUAL", "LESS", "LESS_OR_EQUAL", "GREATER",
                     "GREATER_OR_EQUAL", "GREATER_OR_EQUALI", "POP_RES", "DONE", "PRINT"}
<1>1. Opcodes \in Seq(names)
  <2> DEFINE list ==
        <<"ABORT", "PUSHI", "LOADI", "LOADADDI", "STOREI", "LOAD", "STORE", "DUP", "DISCARD",
          "ADD", "ADDI", "SUB", "DIV", "MUL", "JUMP", "JUMP_IF_TRUE", "JUMP_IF_FALSE",
          "EQUAL", "LESS", "LESS_OR_EQUAL", "GREATER", "GREATER_OR_EQUAL",
          "GREATER_OR_EQUALI", "POP_RES", "DONE", "PRINT">>
  <2>1. list \in Seq(names)
    OBVIOUS
  <2>2. V!Opcodes = list
    BY DEF V!Opcodes
  <2> HIDE DEF list, names
  <2> QED
    BY <2>1, <2>2
<1>2. names \subseteq V!Ops /\ "UNKNOWN" \notin names
  BY DEF V!Ops, V!DataOps, V!PushOps, V!TopOps, V!BinaryOps, V!PopOps, V!BranchOps, V!FinalOps
<1> HIDE DEF names
<1>3. \A i \in DOMAIN Opcodes : Opcodes[i] \in names
  BY <1>1
<1> QED
  BY <1>2, <1>3 DEF Mnemonics

(* The addresses of a memory of 65536 words have 16 bits. *)
LEMMA PigletAddress ==
  ASSUME NEW n \in Nat, n < 65536
  PROVE  n \in V!Address
<1> DEFINE size == 65536
<1>1. size \in Nat /\ n < size
  OBVIOUS
<1>2. V!Address = 0 .. size - 1
  BY DEF V!Address
<1> HIDE DEF size
<1>3. n \in 0 .. size - 1
  BY <1>1
<1> QED
  BY <1>2, <1>3

(* A listing is loaded instruction by instruction, as a program of PigletVM *)
(* when its branches land.                                                 *)
LEMMA PigletLoads ==
  ASSUME V!Opcodes = Opcodes, \A op : V!Takes(op) = Takes(op),
         NEW bytes, NEW x \in Seq(Instructions), Spaced(x), x = Decoded(bytes)
  PROVE  /\ Lands(x) => V!WellFormed(V!Load(bytes))
         /\ DOMAIN V!Load(bytes) = 1 .. Len(x) /\ Len(V!Load(bytes)) = Len(x)
         /\ \A t \in 1 .. Len(x) :
              /\ V!Load(bytes)[t].op = x[t].op /\ V!Known(V!Load(bytes)[t])
              /\ Takes(x[t].op) = <<"address">> =>
                   V!Load(bytes)[t].arg = NumberOf(x, x[t].args[1])
<1> DEFINE code == V!Load(bytes)
           numbered(item) ==
             IF item.args = <<>> THEN V!Op(item.op)
             ELSE V!OpArg(item.op, IF V!Takes(item.op) = <<"address">>
                                     THEN NumberOf(x, item.args[1]) ELSE item.args[1])
<1>1. code = [t \in DOMAIN x |-> numbered(x[t])]
  BY PigletDecodes DEF V!Load
<1>2. Len(x) \in Nat /\ DOMAIN x = 1 .. Len(x)
  OBVIOUS
<1>3. ASSUME NEW item \in Instructions
      PROVE  /\ V!Known(numbered(item)) /\ numbered(item).op = item.op
             /\ Takes(item.op) = <<"address">> => numbered(item).arg = NumberOf(x, item.args[1])
             /\ (Takes(item.op) = <<"address">> => item.args[1] \in Boundaries(x)) =>
                  /\ numbered(item) \in V!Instruction
                  /\ item.op \in {"JUMP"} \cup V!BranchOps => numbered(item).arg \in V!Addresses(x)
  <2> DEFINE first == item.args[1]
  <2>1. /\ item.op \in V!Ops /\ item.op # "UNKNOWN"
        /\ item.args \in Seq(Halfwords) /\ Len(item.args) = Len(Takes(item.op))
    BY PigletNames DEF Instructions
  <2>2. V!Takes(item.op) \in {<<>>, <<"number">>, <<"address">>}
    BY DEF V!Takes
  <2>3. item.op \in {"JUMP"} \cup V!BranchOps => V!Takes(item.op) = <<"address">>
    BY DEF V!Takes, V!BranchOps
  <2>4. CASE V!Takes(item.op) = <<>>
    <3>1. item.args = <<>>
      BY <2>1, <2>4
    <3>2. numbered(item) = [op |-> item.op, arg |-> 0, high |-> FALSE]
      BY <3>1 DEF V!Op
    <3>3. Takes(item.op) # <<"address">>
      BY <2>4
    <3>4. 0 \in V!Address
      BY DEF V!Address
    <3> HIDE DEF numbered
    <3> QED
      BY <2>1, <2>3, <3>2, <3>3, <3>4 DEF V!Instruction, V!Known
  <2>5. CASE V!Takes(item.op) # <<>>
    <3> DEFINE arg == IF V!Takes(item.op) = <<"address">> THEN NumberOf(x, first) ELSE first
    <3>1. Len(item.args) = 1
      BY <2>1, <2>2, <2>5
    <3>2. item.args # <<>> /\ first \in Halfwords
      <4>1. \A args \in Seq(Halfwords) : Len(args) = 1 => args # <<>> /\ args[1] \in Halfwords
        BY SMTT(20)
      <4> QED
        BY <2>1, <3>1, <4>1
    <3>3. numbered(item) = [op |-> item.op, arg |-> arg, high |-> FALSE]
      BY <3>2 DEF V!OpArg
    <3>4. first \in Nat /\ first < 65536
      BY <3>2 DEF Halfwords
    <3> HIDE DEF first
    <3> DEFINE lands == V!Takes(item.op) = <<"address">> => first \in Boundaries(x)
    <3>5. first \in Boundaries(x) =>
            /\ NumberOf(x, first) \in Nat
            /\ NumberOf(x, first) <= Len(x) /\ NumberOf(x, first) <= first
      BY <3>4, NumberBound
    <3>6. \A n \in Nat : n < 65536 => n \in V!Address
      BY PigletAddress
    <3>7. lands => arg \in V!Address
      <4> DEFINE number == NumberOf(x, first)
      <4>1. first \in Boundaries(x) => number \in Nat /\ number < 65536
        <5> HIDE DEF number
        <5> QED
          BY <3>4, <3>5, SMT DEF number
      <4> QED
        BY <3>4, <3>6, <4>1, SMT
    <3>8. V!Takes(item.op) = <<"address">> =>
            arg = NumberOf(x, first) /\ (lands => arg \in V!Addresses(x))
      BY <3>5 DEF V!Addresses
    <3> HIDE DEF numbered, arg
    <3> QED
      BY <2>1, <2>3, <3>3, <3>7, <3>8 DEF V!Instruction, V!Known, first
  <2> QED
    BY <2>4, <2>5
<1> HIDE DEF numbered
<1>4. \A t \in 1 .. Len(x) : code[t] = numbered(x[t]) /\ x[t] \in Instructions
  BY <1>1, <1>2
<1>5. DOMAIN code = 1 .. Len(x) /\ Len(code) = Len(x)
  BY <1>1, <1>2
<1> HIDE DEF code
<1>6. V!Addresses(code) = V!Addresses(x)
  BY <1>5 DEF V!Addresses
<1>7. ASSUME Lands(x) PROVE V!WellFormed(code)
  <2>1. ASSUME NEW t \in 1 .. Len(x), Takes(x[t].op) = <<"address">>
        PROVE  x[t].args[1] \in Boundaries(x)
    <3>1. Len(x[t].args) = 1
      BY <1>4, <2>1 DEF Instructions
    <3> QED
      BY <1>7, <2>1, <3>1 DEF Lands
  <2>2. \A t \in 1 .. Len(x) :
          /\ code[t] \in V!Instruction
          /\ code[t].op \in {"JUMP"} \cup V!BranchOps => code[t].arg \in V!Addresses(x)
    BY <1>3, <1>4, <2>1
  <2>3. code \in Seq(V!Instruction)
    BY <1>1, <1>2, <1>5, <2>2 DEF code
  <2> QED
    BY <1>5, <1>6, <2>2, <2>3 DEF V!WellFormed
<1> QED
  BY <1>3, <1>4, <1>5, <1>7 DEF code

(* The same of PigletMatcher. *)
LEMMA MatcherNames ==
  ASSUME M!Opcodes = Opcodes, NEW op \in Mnemonics
  PROVE  op \in M!Ops
<1> DEFINE list == <<"ABORT", "NAME", "SCREEN", "NEXT", "JUMP", "SPLIT", "MATCH">>
<1>1. list \in Seq(M!Ops)
  BY DEF M!Ops
<1>2. M!Opcodes = list
  BY DEF M!Opcodes
<1> HIDE DEF list
<1>3. \A i \in DOMAIN Opcodes : Opcodes[i] \in M!Ops
  BY <1>1, <1>2
<1> QED
  BY <1>3 DEF Mnemonics

(* A listing is loaded as a program of PigletMatcher. *)
LEMMA MatcherLoads ==
  ASSUME M!Opcodes = Opcodes, \A op : M!Takes(op) = Takes(op),
         NEW bytes, NEW x \in Seq(Instructions), Spaced(x), x = Decoded(bytes)
  PROVE  /\ Lands(x) => M!WellFormed(M!Load(bytes))
         /\ DOMAIN M!Load(bytes) = 1 .. Len(x) /\ Len(M!Load(bytes)) = Len(x)
         /\ \A t \in 1 .. Len(x) :
              /\ M!Load(bytes)[t].op = x[t].op
              /\ x[t].op \in {"JUMP", "SPLIT"} =>
                   M!Load(bytes)[t].a = NumberOf(x, x[t].args[1])
              /\ x[t].op = "SPLIT" => M!Load(bytes)[t].b = NumberOf(x, x[t].args[2])
<1> DEFINE code == M!Load(bytes)
           target(item, n) == NumberOf(x, item.args[n])
           numbered(item) ==
             CASE item.op = "JUMP"   -> M!Jump(target(item, 1))
               [] item.op = "SPLIT"  -> M!Split(target(item, 1), target(item, 2))
               [] item.op = "NAME"   -> M!Name(item.args[1])
               [] item.op = "SCREEN" -> M!Screen(item.args[1])
               [] OTHER              -> [op |-> item.op, a |-> 0, b |-> 0]
<1>1. code = [t \in DOMAIN x |-> numbered(x[t])]
  BY MatcherDecodes DEF M!Load
<1>2. Len(x) \in Nat /\ DOMAIN x = 1 .. Len(x)
  OBVIOUS
<1> DEFINE lands(item) ==
             \A j \in 1 .. Len(item.args) :
               M!Takes(item.op)[j] = "address" => item.args[j] \in Boundaries(x)
<1>3. ASSUME NEW item \in Instructions
      PROVE  /\ numbered(item).op = item.op
             /\ item.op \in {"JUMP", "SPLIT"} => numbered(item).a = target(item, 1)
             /\ item.op = "SPLIT" => numbered(item).b = target(item, 2)
             /\ lands(item) =>
                  /\ numbered(item) \in M!Instruction
                  /\ item.op \in {"JUMP", "SPLIT"} => numbered(item).a \in M!Addresses(x)
                  /\ item.op = "SPLIT" => numbered(item).b \in M!Addresses(x)
  <2>1. /\ item.op \in M!Ops /\ item.args \in Seq(Halfwords)
        /\ Len(item.args) = Len(M!Takes(item.op))
    BY MatcherNames DEF Instructions
  <2>2. \A args \in Seq(Halfwords) :
          /\ Len(args) = 1 => args[1] \in Halfwords
          /\ Len(args) = 2 => args[1] \in Halfwords /\ args[2] \in Halfwords
    OBVIOUS
  <2>3. \A h \in Halfwords :
          /\ h \in Nat
          /\ h \in Boundaries(x) => NumberOf(x, h) \in Nat /\ NumberOf(x, h) \in M!Addresses(x)
    <3>1. \A h \in Halfwords : h \in Nat
      BY DEF Halfwords
    <3>2. ASSUME NEW h \in Halfwords, h \in Boundaries(x)
          PROVE  NumberOf(x, h) \in Nat /\ NumberOf(x, h) \in M!Addresses(x)
      <4>1. NumberOf(x, h) \in Nat /\ NumberOf(x, h) <= Len(x)
        BY <3>1, <3>2, NumberBound
      <4> QED
        BY <1>2, <4>1 DEF M!Addresses
    <3> QED
      BY <3>1, <3>2
  <2>4. CASE item.op = "JUMP"
    <3>1. lands(item) => target(item, 1) \in Nat /\ target(item, 1) \in M!Addresses(x)
      <4>1. Len(M!Takes(item.op)) = 1 /\ M!Takes(item.op)[1] = "address"
        BY <2>4 DEF M!Takes
      <4> QED
        BY <2>1, <2>2, <2>3, <4>1
    <3> HIDE DEF target, lands
    <3>2. numbered(item) = [op |-> "JUMP", a |-> target(item, 1), b |-> 0]
      BY <2>4 DEF M!Jump
    <3> QED
      BY <2>1, <2>4, <3>1, <3>2 DEF M!Instruction
  <2>5. CASE item.op = "SPLIT"
    <3>1. lands(item) =>
            /\ target(item, 1) \in Nat /\ target(item, 1) \in M!Addresses(x)
            /\ target(item, 2) \in Nat /\ target(item, 2) \in M!Addresses(x)
      <4>1. /\ Len(M!Takes(item.op)) = 2
            /\ M!Takes(item.op)[1] = "address" /\ M!Takes(item.op)[2] = "address"
        BY <2>5 DEF M!Takes
      <4> QED
        BY <2>1, <2>2, <2>3, <4>1
    <3> HIDE DEF target, lands
    <3>2. numbered(item) = [op |-> "SPLIT", a |-> target(item, 1), b |-> target(item, 2)]
      BY <2>5 DEF M!Split
    <3> QED
      BY <2>1, <2>5, <3>1, <3>2 DEF M!Instruction
  <2>6. CASE item.op \in {"NAME", "SCREEN"}
    <3> DEFINE value == item.args[1]
    <3>1. value \in Nat
      <4>1. Len(M!Takes(item.op)) = 1
        BY <2>6 DEF M!Takes
      <4> QED
        BY <2>1, <2>2, <2>3, <4>1
    <3> HIDE DEF value
    <3>2. numbered(item) = [op |-> item.op, a |-> value, b |-> 0]
      BY <2>6 DEF M!Name, M!Screen, value
    <3> QED
      BY <2>1, <2>6, <3>1, <3>2 DEF M!Instruction
  <2>7. CASE item.op \notin {"JUMP", "SPLIT", "NAME", "SCREEN"}
    <3>1. numbered(item) = [op |-> item.op, a |-> 0, b |-> 0]
      BY <2>7
    <3> QED
      BY <2>1, <2>7, <3>1 DEF M!Instruction
  <2> QED
    BY <2>4, <2>5, <2>6, <2>7
<1> HIDE DEF numbered, target, lands
<1>4. \A t \in 1 .. Len(x) : code[t] = numbered(x[t]) /\ x[t] \in Instructions
  BY <1>1, <1>2
<1>5. DOMAIN code = 1 .. Len(x) /\ Len(code) = Len(x)
  BY <1>1, <1>2
<1> HIDE DEF code
<1>6. M!Addresses(code) = M!Addresses(x)
  BY <1>5 DEF M!Addresses
<1>7. ASSUME Lands(x) PROVE M!WellFormed(code)
  <2>1. \A t \in 1 .. Len(x) : lands(x[t])
    BY <1>7 DEF Lands, lands
  <2>2. \A t \in 1 .. Len(x) :
          /\ code[t] \in M!Instruction
          /\ code[t].op \in {"JUMP", "SPLIT"} => code[t].a \in M!Addresses(x)
          /\ code[t].op = "SPLIT" => code[t].b \in M!Addresses(x)
    BY <1>3, <1>4, <2>1
  <2>3. code \in Seq(M!Instruction)
    BY <1>1, <1>2, <1>5, <2>2 DEF code
  <2> QED
    BY <1>5, <1>6, <2>2, <2>3 DEF M!WellFormed
<1> QED
  BY <1>3, <1>4, <1>5, <1>7 DEF code, target

(* An instruction of a listing begins behind those before it. *)
LEMMA SpacedRises ==
  ASSUME NEW x \in Seq(Instructions), Spaced(x), NEW t \in 1 .. Len(x), NEW s \in 1 .. t - 1
  PROVE  /\ x[s].at \in Nat /\ Len(x[s].args) \in Nat
         /\ x[s].at + (1 + 2 * Len(x[s].args)) <= x[t].at
<1> DEFINE m == Len(x)
           end == x[s].at + (1 + 2 * Len(x[s].args))
           S == {n \in Nat : s < n => end <= x[n].at}
<1>1. m \in Nat /\ t \in 0 .. m /\ s \in 1 .. m /\ s < t
  OBVIOUS
<1>2. \A n \in 1 .. m : x[n].at \in Nat /\ Len(x[n].args) \in Nat
  BY DEF Instructions
<1>3. end \in Nat
  BY <1>1, <1>2
<1>4. 0 \in S
  BY <1>1
<1>5. ASSUME NEW n \in 1 .. m, n - 1 \in S PROVE n \in S
  <2> SUFFICES ASSUME s < n PROVE end <= x[n].at
    OBVIOUS
  <2>1. n - 1 \in 1 .. m /\ n # 1
    BY <1>1
  <2>2. x[n].at = x[n - 1].at + (1 + 2 * Len(x[n - 1].args))
    BY <2>1 DEF Spaced
  <2>3. CASE s = n - 1
    BY <1>2, <2>1, <2>2, <2>3
  <2>4. CASE s # n - 1
    <3>1. s < n - 1
      BY <1>1, <2>4
    <3>2. end <= x[n - 1].at
      BY <1>5, <3>1
    <3>3. x[n - 1].at \in Nat /\ Len(x[n - 1].args) \in Nat
      BY <1>2, <2>1
    <3> HIDE DEF end
    <3> QED
      BY <1>3, <2>2, <3>2, <3>3
  <2> QED
    BY <2>3, <2>4
<1>6. \A n \in 0 .. m : n \in S
  <2> HIDE DEF S, m
  <2> QED
    BY <1>1, <1>4, <1>5, BoundedInduction
<1> QED
  BY <1>1, <1>2, <1>6

(* The lines with operations up to a line. *)
Operations(lines, i) == {j \in 1 .. i : lines[j].op # "LABEL"}

(* The listing of the first lines has an instruction for each operation. *)
LEMMA ListedCount ==
  ASSUME Table, NEW lines \in Seq(ProgramLines), NEW pc, NEW e, Expected(lines, pc, e)
  PROVE  \A i \in 0 .. Len(lines) : Len(e[i]) = Cardinality(Operations(lines, i))
<1> DEFINE m == Len(lines)
           O(i) == Operations(lines, i)
           S == {i \in Nat : Len(e[i]) = Cardinality(O(i)) /\ IsFiniteSet(O(i))}
<1>1. m \in Nat /\ \A i \in 1 .. m : lines[i] \in ProgramLines
  OBVIOUS
<1>2. 0 \in S
  <2>1. O(0) = {} /\ Len(e[0]) = 0
    BY DEF Operations, Expected
  <2> QED
    BY <2>1, FS_EmptySet
<1>3. ASSUME NEW i \in 1 .. m, i - 1 \in S PROVE i \in S
  <2>1. e[i] = e[i - 1] \o AddsListed(lines, pc, i) /\ e[i - 1] \in Seq(Listed(lines, pc))
    <3>1. i - 1 \in 0 .. m
      OBVIOUS
    <3>2. /\ e \in [0 .. m -> Seq(Listed(lines, pc))]
          /\ \A k \in 1 .. m : e[k] = e[k - 1] \o AddsListed(lines, pc, k)
      BY DEF Expected
    <3> QED
      BY <3>1, <3>2
  <2>2. Len(e[i - 1]) = Cardinality(O(i - 1)) /\ IsFiniteSet(O(i - 1)) /\ Len(e[i - 1]) \in Nat
    BY <1>3, <2>1
  <2>3. CASE lines[i] \in CodeLines
    <3>1. lines[i].op # "LABEL"
      BY <2>3, LineKinds
    <3>2. O(i) = O(i - 1) \cup {i} /\ i \notin O(i - 1)
      BY <3>1 DEF Operations
    <3>3. Len(e[i]) = Len(e[i - 1]) + 1
      BY <2>1, <2>3, OneMore DEF AddsListed, Listed
    <3>4. IsFiniteSet(O(i)) /\ Cardinality(O(i)) = Cardinality(O(i - 1)) + 1
      <4> DEFINE old == O(i - 1)
                 new == O(i)
      <4>1. new = old \cup {i} /\ i \notin old /\ IsFiniteSet(old)
        BY <2>2, <3>2
      <4> HIDE DEF old, new
      <4>2. IsFiniteSet(old \cup {i}) /\ Cardinality(old \cup {i}) = Cardinality(old) + 1
        BY <4>1, FS_AddElement
      <4> QED
        BY <4>1, <4>2 DEF old, new
    <3> HIDE DEF O
    <3> QED
      BY <2>2, <3>3, <3>4
  <2>4. CASE lines[i] \notin CodeLines
    <3>1. lines[i] \in LabelLines
      BY <1>1, <2>4 DEF ProgramLines
    <3>2. lines[i].op = "LABEL"
      BY <3>1, LineKinds
    <3>3. O(i) = O(i - 1)
      BY <3>2 DEF Operations
    <3>4. e[i] = e[i - 1]
      BY <2>1, <2>4, OneMore DEF AddsListed
    <3> HIDE DEF O
    <3> QED
      BY <2>2, <3>3, <3>4
  <2> QED
    BY <2>3, <2>4
<1>4. \A i \in 0 .. m : i \in S
  <2> HIDE DEF S, m
  <2> QED
    BY <1>1, <1>2, <1>3, BoundedInduction
<1> QED
  BY <1>4

(* The offset of a line is one of an instruction or of the end, and as many *)
(* instructions begin before it as there are operations before the line.   *)
LEMMA ListedBefore ==
  ASSUME Table, NEW lines \in Seq(ProgramLines), Assembles(lines), NEW pc, Offsets(lines, pc),
         NEW e, Expected(lines, pc, e), NEW i \in 0 .. Len(lines),
         NEW x, x = e[Len(lines)], x \in Seq(Instructions), Spaced(x)
  PROVE  pc[i] \in Boundaries(x) /\ NumberOf(x, pc[i]) = Cardinality(Operations(lines, i))
<1> DEFINE m == Len(lines)
           a == [k \in 1 .. m |-> AddsListed(lines, pc, k)]
           n == Len(e[i])
<1>1. m \in Nat /\ m \in i .. m
  OBVIOUS
<1>2. Prefix(e[i], x)
  <2>1. e \in [0 .. m -> Seq(Listed(lines, pc))]
    BY DEF Expected
  <2>2. ASSUME NEW k \in 1 .. m
        PROVE  a[k] \in Seq(Listed(lines, pc)) /\ e[k] = e[k - 1] \o a[k]
    <3>1. a[k] = AddsListed(lines, pc, k) /\ e[k] = e[k - 1] \o AddsListed(lines, pc, k)
      BY DEF Expected
    <3>2. AddsListed(lines, pc, k) \in Seq(Listed(lines, pc))
      <4> DEFINE L == Listed(lines, pc)
                 new == Instruct(lines, lines[k], pc[k - 1])
      <4>1. lines[k] \in CodeLines => new \in L
        BY DEF Listed
      <4>2. AddsListed(lines, pc, k) = IF lines[k] \in CodeLines THEN <<new>> ELSE <<>>
        BY DEF AddsListed
      <4> HIDE DEF L, new
      <4> QED
        BY <4>1, <4>2 DEF L
    <3> QED
      BY <3>1, <3>2
  <2> HIDE DEF a
  <2>3. \A k \in i .. m : Prefix(e[i], e[k])
    BY <1>1, <2>1, <2>2, Collected
  <2> QED
    BY <1>1, <2>3
<1>3. Laid(e[i], pc[i])
  BY ExpectedLaid
<1>4. n \in Nat /\ (e[i] = <<>> <=> n = 0)
  BY DEF Expected
<1>5. n <= Len(x) /\ \A t \in 1 .. n : x[t] = e[i][t]
  BY <1>2 DEF Prefix
<1>6. \A t \in 1 .. Len(x) : x[t].at \in Nat /\ Len(x[t].args) \in Nat
  BY DEF Instructions
<1>7. pc[i] = IF n = 0 THEN 0 ELSE x[n].at + (1 + 2 * Len(x[n].args))
  <2>1. pc[i] = IF n = 0 THEN 0 ELSE e[i][n].at + (1 + 2 * Len(e[i][n].args))
    BY <1>3, <1>4 DEF Laid
  <2> HIDE DEF n
  <2>2. n # 0 => n \in 1 .. n
    BY <1>4
  <2> QED
    BY <1>5, <2>1, <2>2
<1> HIDE DEF n
<1>8. ASSUME NEW t \in 1 .. Len(x) PROVE x[t].at < pc[i] <=> t \in 1 .. n
  <2>1. CASE n = 0
    BY <1>6, <1>7, <2>1
  <2>2. CASE n # 0 /\ t <= n
    <3>1. n \in 1 .. Len(x) /\ t \in 1 .. n
      BY <1>4, <1>5, <2>2
    <3>2. t # n => t \in 1 .. n - 1
      BY <1>4, <3>1
    <3>3. t # n => x[t].at + (1 + 2 * Len(x[t].args)) <= x[n].at
      BY <3>1, <3>2, SpacedRises
    <3>4. x[t].at \in Nat /\ Len(x[t].args) \in Nat /\ x[n].at \in Nat /\ Len(x[n].args) \in Nat
      BY <1>6, <3>1
    <3>5. pc[i] = x[n].at + (1 + 2 * Len(x[n].args))
      BY <1>7, <2>2
    <3>6. x[t].at < pc[i]
      <4>1. CASE t = n
        BY <3>4, <3>5, <4>1
      <4>2. CASE t # n
        <5> DEFINE p == x[t].at
                   q == x[n].at
                   v == Len(x[t].args)
                   w == Len(x[n].args)
        <5>1. /\ p \in Nat /\ q \in Nat /\ v \in Nat /\ w \in Nat
              /\ p + (1 + 2 * v) <= q /\ pc[i] = q + (1 + 2 * w)
          BY <3>3, <3>4, <3>5, <4>2
        <5> HIDE DEF p, q, v, w
        <5>2. p < pc[i]
          BY <5>1
        <5> QED
          BY <5>2 DEF p
      <4> QED
        BY <4>1, <4>2
    <3> QED
      BY <3>1, <3>6
  <2>3. CASE n # 0 /\ t > n
    <3>1. n \in 1 .. t - 1 /\ n \in 1 .. Len(x) /\ t \notin 1 .. n
      BY <1>4, <1>5, <2>3
    <3>2. x[n].at + (1 + 2 * Len(x[n].args)) <= x[t].at
      BY <3>1, SpacedRises
    <3>3. x[t].at \in Nat /\ x[n].at \in Nat /\ Len(x[n].args) \in Nat
      BY <1>6, <3>1
    <3> QED
      BY <1>7, <2>3, <3>1, <3>2, <3>3, SMTT(20)
  <2> QED
    BY <1>4, <2>1, <2>2, <2>3
<1>9. {t \in DOMAIN x : x[t].at < pc[i]} = 1 .. n
  <2>1. DOMAIN x = 1 .. Len(x) /\ Len(x) \in Nat
    OBVIOUS
  <2>2. 1 .. n \subseteq 1 .. Len(x)
    BY <1>4, <1>5, <2>1
  <2> QED
    BY <1>8, <2>1, <2>2
<1>10. Cardinality(1 .. n) = n
  <2>1. Cardinality(1 .. n) = IF 1 > n THEN 0 ELSE n - 1 + 1
    BY <1>4, FS_Interval
  <2> QED
    BY <1>4, <2>1
<1>11. n = Cardinality(Operations(lines, i))
  BY ListedCount DEF n
<1>12. pc[i] \in Boundaries(x)
  <2>1. Len(x) \in Nat /\ DOMAIN x = 1 .. Len(x)
    OBVIOUS
  <2>2. CASE n = Len(x)
    <3>1. NextOffset(x) = IF n = 0 THEN 0 ELSE x[n].at + 1 + 2 * Len(x[n].args)
      BY <2>2 DEF NextOffset, Last
    <3>2. n # 0 => x[n].at \in Nat /\ Len(x[n].args) \in Nat
      BY <1>4, <1>6, <2>2
    <3>3. pc[i] = NextOffset(x)
      <4>1. CASE n = 0
        BY <1>7, <3>1, <4>1
      <4>2. CASE n # 0
        <5> DEFINE p == x[n].at
                   w == Len(x[n].args)
        <5>1. /\ p \in Nat /\ w \in Nat
              /\ pc[i] = p + (1 + 2 * w) /\ NextOffset(x) = p + 1 + 2 * w
          BY <1>7, <3>1, <3>2, <4>2
        <5> HIDE DEF p, w
        <5> QED
          BY <5>1
      <4> QED
        BY <4>1, <4>2
    <3> QED
      BY <3>3 DEF Boundaries
  <2>3. CASE n # Len(x)
    <3>1. n + 1 \in 1 .. Len(x)
      BY <1>4, <1>5, <2>1, <2>3
    <3>2. x[n + 1].at = IF n = 0 THEN 0 ELSE x[n].at + (1 + 2 * Len(x[n].args))
      <4> DEFINE next == n + 1
      <4>1. x[next].at = IF next = 1 THEN 0 ELSE x[next - 1].at + (1 + 2 * Len(x[next - 1].args))
        <5> HIDE DEF next
        <5> QED
          BY <3>1 DEF Spaced, next
      <4>2. next - 1 = n /\ (next = 1 <=> n = 0)
        BY <1>4
      <4> HIDE DEF next
      <4>3. x[next].at = IF n = 0 THEN 0 ELSE x[n].at + (1 + 2 * Len(x[n].args))
        BY <4>1, <4>2
      <4> QED
        BY <4>3 DEF next
    <3>3. x[n + 1].at = pc[i]
      BY <1>7, <3>2
    <3> QED
      BY <2>1, <3>1, <3>3 DEF Boundaries
  <2> QED
    BY <2>2, <2>3
<1> QED
  BY <1>9, <1>10, <1>11, <1>12 DEF NumberOf

(* A label is resolved to the offset of an instruction or of the end, with as *)
(* many instructions before it as there are before the label.                *)
LEMMA TargetNumber ==
  ASSUME Table, text \in Seq(Seq(Words)), Assembles(Lined), Addressable,
         NEW k, Defines(Lined, k) # {}, NEW x, x = Decoded(Assemble(Lined))
  PROVE  /\ TargetOf(Lined, k) \in Boundaries(x)
         /\ NumberOf(x, TargetOf(Lined, k)) = InstructionsBefore(k)
<1> DEFINE lines == Lined
           first == FirstDefinition(lines, k)
<1>1. lines \in Seq(ProgramLines) /\ Assembles(lines)
  BY NoExit DEF Lined
<1>2. x \in Seq(Instructions) /\ Spaced(x)
  BY ProgramListing DEF Lined
<1>3. PICK pc : Offsets(lines, pc)
  BY <1>1, OffsetLoop
<1>4. PICK e : Expected(lines, pc, e)
  BY <1>1, ExpectedLoop
<1>5. x = e[Len(lines)]
  BY <1>1, <1>3, <1>4, DecodedLines
<1>6. /\ first \in 1 .. Len(lines)
      /\ OffsetOf(lines, first) = Len(Joined(Emits(lines), first))
      /\ OffsetOf(lines, first) \in Nat
      /\ OffsetOf(lines, first) <= Len(Assemble(lines))
      /\ Len(Assemble(lines)) \in Nat
  BY <1>1, LabelOffset
<1> HIDE DEF first
<1>7. first \in 0 .. Len(lines)
  BY <1>6
<1>8. Len(Joined(Emits(lines), first)) = pc[first]
  BY <1>1, <1>3, <1>7, Written
<1>9. TargetOf(lines, k) = pc[first]
  <2>1. pc[first] \in Nat /\ pc[first] < 65536
    BY <1>6, <1>8 DEF Addressable
  <2>2. pc[first] % 65536 = pc[first]
    BY <2>1, Kept
  <2> QED
    BY <1>6, <1>8, <2>2 DEF TargetOf, first
<1>10. /\ pc[first] \in Boundaries(x)
       /\ NumberOf(x, pc[first]) = Cardinality(Operations(lines, first))
  BY <1>1, <1>2, <1>3, <1>4, <1>5, <1>7, ListedBefore
<1> QED
  BY <1>9, <1>10 DEF InstructionsBefore, Operations, first

(* The branches of an assembled file land when the numbers typed as addresses do. *)
LEMMA BranchesLandInside ==
  ASSUME Table, text \in Seq(Seq(Words)), Assembles(Lined), Addressable, NumbersLand(Lined),
         NEW x, x = Decoded(Assemble(Lined))
  PROVE  Lands(x)
<1> DEFINE lines == Lined
<1>1. lines \in Seq(ProgramLines) /\ Assembles(lines)
  BY NoExit DEF Lined
<1>2. x \in Seq(Instructions) /\ Spaced(x)
  BY ProgramListing DEF Lined
<1>3. PICK pc : Offsets(lines, pc)
  BY <1>1, OffsetLoop
<1>4. PICK e : Expected(lines, pc, e)
  BY <1>1, ExpectedLoop
<1>5. x = e[Len(lines)] /\ x \in Seq(Listed(lines, pc))
  BY <1>1, <1>3, <1>4, DecodedLines
<1>6. ASSUME NEW i \in 1 .. Len(lines) + 1 PROVE OffsetOf(lines, i) \in Boundaries(x)
  <2>1. i - 1 \in 0 .. Len(lines)
    BY <1>1
  <2>2. OffsetOf(lines, i) = pc[i - 1]
    BY <1>3 DEF Offsets
  <2> QED
    BY <1>1, <1>2, <1>3, <1>4, <1>5, <2>1, <2>2, ListedBefore
<1>7. ASSUME NEW t \in 1 .. Len(x), NEW j \in 1 .. Len(x[t].args), Takes(x[t].op)[j] = "address"
      PROVE  x[t].args[j] \in Boundaries(x)
  <2>1. PICK i \in 1 .. Len(lines) :
          lines[i] \in CodeLines /\ x[t] = Instruct(lines, lines[i], pc[i - 1])
    <3>1. x[t] \in Listed(lines, pc)
      BY <1>5
    <3> QED
      BY <3>1 DEF Listed
  <2> DEFINE operand == lines[i].operands[j]
  <2>2. /\ x[t].op = lines[i].op /\ j \in DOMAIN lines[i].operands /\ operand \in Operands
        /\ x[t].args[j] = Resolve(lines, operand)
    <3>1. lines[i].operands \in Seq(Operands)
      BY <2>1 DEF CodeLines
    <3>2. Len(lines[i].operands) \in Nat /\ DOMAIN lines[i].operands = 1 .. Len(lines[i].operands)
      BY <3>1
    <3>3. /\ x[t].op = lines[i].op
          /\ x[t].args = [n \in 1 .. Len(lines[i].operands) |-> Resolve(lines, lines[i].operands[n])]
      BY <2>1 DEF Instruct
    <3>4. Len(x[t].args) = Len(lines[i].operands)
      BY <3>2, <3>3
    <3> QED
      BY <3>1, <3>2, <3>3, <3>4
  <2>3. CASE operand.kind = "number"
    <3>1. i \in DOMAIN lines
      BY <1>1
    <3>2. PICK place \in 1 .. Len(lines) + 1 : operand.n = OffsetOf(lines, place)
      BY <1>7, <2>2, <2>3, <3>1 DEF NumbersLand
    <3>3. x[t].args[j] = operand.n
      BY <2>2, <2>3 DEF Resolve
    <3> QED
      BY <1>6, <3>2, <3>3
  <2>4. CASE operand.kind = "label"
    <3>1. i \in DOMAIN lines /\ operand.n \in LabelsOf(lines[i])
      BY <1>1, <2>2, <2>4 DEF LabelsOf
    <3>2. Defines(lines, operand.n) # {}
      BY <1>1, <3>1 DEF Assembles
    <3>3. x[t].args[j] = TargetOf(lines, operand.n)
      BY <2>2, <2>4 DEF Resolve
    <3> QED
      BY <3>2, <3>3, TargetNumber
  <2> QED
    BY <2>2, <2>3, <2>4 DEF Operands
<1> QED
  BY <1>7 DEF Lands

(* Whatever file is assembled, provided that the addresses have 16 bits and   *)
(* that those typed as numbers are offsets of instructions or of the end, the *)
(* loader makes a program of it that the interpreters are defined for, with   *)
(* the operations of the file and branches to instructions: what the modules  *)
(* of the interpreters assume of their programs.                              *)
THEOREM ProgramsLoad == text \in Seq(Seq(Words)) /\ Addressable => LoadsWellFormed
<1> SUFFICES ASSUME text \in Seq(Seq(Words)), Addressable, Complete, NumbersLand(Lined)
             PROVE  LoadsWellFormed
  BY Zenon DEF LoadsWellFormed
<1> DEFINE bytes == Assemble(Lined)
           x == Decoded(bytes)
           typed == Typed(text)
<1>1. Table /\ Assembles(Lined)
  BY Tables DEF Complete
<1>2. x \in Seq(Instructions) /\ Spaced(x) /\ Matches(Lined, x, typed)
  BY <1>1, ProgramListing DEF Lined
<1>3. Lands(x)
  BY <1>1, BranchesLandInside
<1>4. kind \in {"matcher asm", "vm asm"}
  BY Zenon DEF Complete
<1>5. kind = "matcher asm" =>
        /\ Loaded = M!Load(bytes)
        /\ M!Opcodes = Opcodes /\ \A op : M!Takes(op) = Takes(op)
  BY Zenon DEF Loaded, Opcodes, Takes
<1>6. kind = "vm asm" =>
        /\ Loaded = V!Load(bytes) /\ kind # "matcher asm"
        /\ V!Opcodes = Opcodes /\ \A op : V!Takes(op) = Takes(op)
  BY Zenon DEF Loaded, Opcodes, Takes
<1> HIDE DEF bytes, x, typed
<1>7. Len(x) = Len(typed) /\ \A t \in 1 .. Len(x) : x[t].op = typed[t][1].op
  BY <1>2 DEF Matches, Matching
<1>8. CASE kind = "matcher asm"
  <2>1. /\ M!WellFormed(Loaded) /\ Len(Loaded) = Len(x)
        /\ \A t \in 1 .. Len(x) : Loaded[t].op = x[t].op
    <3>1. /\ Loaded = M!Load(bytes)
          /\ M!Opcodes = Opcodes /\ \A op : M!Takes(op) = Takes(op)
      BY <1>5, <1>8, Zenon
    <3> QED
      BY <1>2, <1>3, <3>1, MatcherLoads DEF x
  <2>2. DOMAIN Loaded = 1 .. Len(Loaded)
    BY <2>1 DEF M!WellFormed
  <2>3. /\ Len(Loaded) = Len(typed)
        /\ \A t \in DOMAIN Loaded : Loaded[t].op = typed[t][1].op
    BY <1>7, <2>1, <2>2
  <2> QED
    BY <1>6, <1>8, <2>1, <2>3, Zenon DEF LoadsWellFormed, typed
<1>9. CASE kind = "vm asm"
  <2>1. /\ V!WellFormed(Loaded) /\ Len(Loaded) = Len(x)
        /\ \A t \in 1 .. Len(x) : Loaded[t].op = x[t].op /\ V!Known(Loaded[t])
    <3>1. /\ Loaded = V!Load(bytes)
          /\ V!Opcodes = Opcodes /\ \A op : V!Takes(op) = Takes(op)
      BY <1>6, <1>9, Zenon
    <3> QED
      BY <1>2, <1>3, <3>1, PigletLoads DEF x
  <2>2. DOMAIN Loaded = 1 .. Len(Loaded)
    BY <2>1 DEF V!WellFormed
  <2>3. /\ Len(Loaded) = Len(typed)
        /\ \A t \in DOMAIN Loaded : Loaded[t].op = typed[t][1].op /\ V!Known(Loaded[t])
    BY <1>7, <2>1, <2>2
  <2> QED
    BY <1>6, <1>9, <2>1, <2>3, Zenon DEF LoadsWellFormed, typed
<1> QED
  BY <1>4, <1>8, <1>9, Zenon

(* A branch to a label reaches the instruction in front of which the label   *)
(* stands, in every program whose addresses have 16 bits: the machines may   *)
(* count instructions where the bytecode counts bytes.                       *)
THEOREM BranchesReach ==
  text \in Seq(Seq(Words)) /\ Addressable => BranchesLandOnInstructions
<1> SUFFICES ASSUME text \in Seq(Seq(Words)), Addressable, Complete
             PROVE  BranchesLandOnInstructions
  BY Zenon DEF BranchesLandOnInstructions
<1> DEFINE bytes == Assemble(Lined)
           x == Decoded(bytes)
           typed == Typed(text)
<1>1. Table /\ Assembles(Lined)
  BY Tables DEF Complete
<1>2. x \in Seq(Instructions) /\ Spaced(x) /\ Matches(Lined, x, typed)
  BY <1>1, ProgramListing DEF Lined
<1>3. kind \in {"matcher asm", "vm asm"}
  BY Zenon DEF Complete
<1>4. kind = "matcher asm" =>
        /\ Loaded = M!Load(bytes)
        /\ M!Opcodes = Opcodes /\ \A op : M!Takes(op) = Takes(op)
        /\ \A i, j : Operand(i, j) = IF j = 1 THEN Loaded[i].a ELSE Loaded[i].b
  BY Zenon DEF Loaded, Opcodes, Takes, Operand
<1>5. kind = "vm asm" =>
        /\ Loaded = V!Load(bytes) /\ kind # "matcher asm"
        /\ V!Opcodes = Opcodes /\ \A op : V!Takes(op) = Takes(op)
        /\ \A i, j : Operand(i, j) = Loaded[i].arg
  BY Zenon DEF Loaded, Opcodes, Takes, Operand
<1> HIDE DEF bytes, x, typed
(* Every operand typed as a label is an address of its instruction. *)
<1>6. ASSUME NEW t \in 1 .. Len(x), NEW j \in DOMAIN Takes(x[t].op),
             typed[t][j + 1].kind = "label"
      PROVE  /\ Takes(x[t].op)[j] = "address"
             /\ NumberOf(x, x[t].args[j]) = InstructionsBefore(typed[t][j + 1].n)
  <2> DEFINE words == typed[t]
             word == words[j + 1]
             item == x[t]
  <2>1. /\ Matching(Lined, item, words) /\ item \in Instructions
        /\ j \in DOMAIN Takes(item.op) /\ words[j + 1].kind = "label"
    BY <1>2, <1>6 DEF Matches
  <2> HIDE DEF words, item
  <2>2. j \in 1 .. Len(item.args)
    BY <1>1, <2>1, SMTT(20) DEF Instructions, Table
  <2>3. /\ word.kind = "label" /\ item.args[j] = Resolve(Lined, Read(word))
        /\ Defines(Lined, word.n) # {} /\ Takes(item.op)[j] = "address"
    <3>1. /\ item.op = words[1].op
          /\ \A i \in 1 .. Len(item.args) :
               /\ item.args[i] = Resolve(Lined, Read(words[i + 1]))
               /\ words[i + 1].kind = "label" =>
                    Defines(Lined, words[i + 1].n) # {} /\ Takes(words[1].op)[i] = "address"
      BY <2>1 DEF Matching
    <3>2. /\ item.args[j] = Resolve(Lined, Read(words[j + 1]))
          /\ words[j + 1].kind = "label" =>
               Defines(Lined, words[j + 1].n) # {} /\ Takes(words[1].op)[j] = "address"
      BY <2>2, <3>1
    <3>3. Takes(item.op) = Takes(words[1].op)
      BY <3>1
    <3> QED
      BY <2>1, <3>2, <3>3
  <2> HIDE DEF word
  <2>4. item.args[j] = TargetOf(Lined, word.n)
    BY <2>3 DEF Read, Resolve
  <2>5. NumberOf(x, TargetOf(Lined, word.n)) = InstructionsBefore(word.n)
    BY <1>1, <2>3, TargetNumber DEF x, bytes
  <2> QED
    BY <2>3, <2>4, <2>5 DEF word, words, item
<1>7. CASE kind = "matcher asm"
  <2>1. /\ Loaded = M!Load(bytes)
        /\ M!Opcodes = Opcodes /\ \A op : M!Takes(op) = Takes(op)
        /\ \A i, j : Operand(i, j) = IF j = 1 THEN Loaded[i].a ELSE Loaded[i].b
    BY <1>4, <1>7, Zenon
  <2>2. /\ DOMAIN Loaded = 1 .. Len(x) /\ Len(Loaded) = Len(x)
        /\ \A t \in 1 .. Len(x) :
             /\ Loaded[t].op = x[t].op
             /\ x[t].op \in {"JUMP", "SPLIT"} => Loaded[t].a = NumberOf(x, x[t].args[1])
             /\ x[t].op = "SPLIT" => Loaded[t].b = NumberOf(x, x[t].args[2])
    BY <1>2, <2>1, MatcherLoads DEF x
  <2>3. ASSUME NEW t \in 1 .. Len(x), NEW j \in DOMAIN Takes(x[t].op),
               Takes(x[t].op)[j] = "address"
        PROVE  Operand(t, j) = NumberOf(x, x[t].args[j])
    <3>1. \/ x[t].op = "JUMP" /\ j = 1
          \/ x[t].op = "SPLIT" /\ j \in {1, 2}
      <4>1. Takes(x[t].op) = M!Takes(x[t].op)
        BY <2>1
      <4> QED
        BY <2>3, <4>1 DEF M!Takes
    <3> QED
      BY <2>1, <2>2, <3>1
  <2> QED
    BY <1>6, <2>2, <2>3 DEF BranchesLandOnInstructions, typed
<1>8. CASE kind = "vm asm"
  <2>1. /\ Loaded = V!Load(bytes)
        /\ V!Opcodes = Opcodes /\ \A op : V!Takes(op) = Takes(op)
        /\ \A i, j : Operand(i, j) = Loaded[i].arg
    BY <1>5, <1>8, Zenon
  <2>2. /\ DOMAIN Loaded = 1 .. Len(x) /\ Len(Loaded) = Len(x)
        /\ \A t \in 1 .. Len(x) :
             /\ Loaded[t].op = x[t].op
             /\ Takes(x[t].op) = <<"address">> => Loaded[t].arg = NumberOf(x, x[t].args[1])
    BY <1>2, <2>1, PigletLoads DEF x
  <2>3. ASSUME NEW t \in 1 .. Len(x), NEW j \in DOMAIN Takes(x[t].op),
               Takes(x[t].op)[j] = "address"
        PROVE  Operand(t, j) = NumberOf(x, x[t].args[j])
    <3>1. Takes(x[t].op) = <<"address">> /\ j = 1
      <4>1. Takes(x[t].op) = V!Takes(x[t].op)
        BY <2>1
      <4> QED
        BY <2>3, <4>1 DEF V!Takes
    <3> QED
      BY <2>1, <2>2, <3>1
  <2> QED
    BY <1>6, <2>2, <2>3 DEF BranchesLandOnInstructions, typed
<1> QED
  BY <1>3, <1>7, <1>8, Zenon

=============================================================================
