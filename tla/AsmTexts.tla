------------------------------ MODULE AsmTexts -------------------------------
(***************************************************************************)
(* What holds of an asm file, its bytecode, and the listing of its bytecode, *)
(* for either of the two assemblers.                                         *)
(***************************************************************************)
EXTENDS AsmText

VARIABLES
  kind,  \* which assembler reads the text
  text

M == INSTANCE MatcherAsm
V == INSTANCE PigletAsm WITH WordMod <- 65536, MemorySize <- 65536, StackMax <- 256

Opcodes == IF kind = "matcher asm" THEN M!Opcodes ELSE V!Opcodes
Takes(op) == IF kind = "matcher asm" THEN M!Takes(op) ELSE V!Takes(op)

INSTANCE AsmFile

Lined == Lines(text)

Complete == kind \in {"matcher asm", "vm asm"} /\ Assembles(Lined)

Listing == Disassemble(Assemble(Lined))

(* The instructions of a file, as typed. *)
Typed(file) ==
  LET code[i \in 0 .. Len(file)] ==
        IF i = 0 THEN <<>>
        ELSE IF file[i] # <<>> /\ file[i][1].kind = "operation" THEN Append(code[i - 1], file[i])
        ELSE code[i - 1]
  IN  code[Len(file)]

(* They are listed up to an ABORT, whose zero byte ends the listing. *)
Shown ==
  LET code == Typed(text)
      abort == SelectInSeq(code, LAMBDA words : words[1].op = "ABORT")
  IN  IF abort = 0 THEN code ELSE SubSeq(code, 1, abort - 1)

(* A listing typed in again, without its offsets. *)
Retyped ==
  [i \in DOMAIN Listing |->
     <<Operation(Listing[i].op)>> \o [j \in DOMAIN Listing[i].args |-> Number(Listing[i].args[j])]]

(* The bytes written before the place that a label names. *)
WrittenBefore(k) ==
  LET before == SubSeq(Lined, 1, FirstDefinition(Lined, k))
  IN  Len(FlattenSeq([i \in DOMAIN before |-> Emit(Lined, before[i])]))

(* What the interpreters are given. *)
Loaded == IF kind = "matcher asm" THEN M!Load(Assemble(Lined)) ELSE V!Load(Assemble(Lined))

(* The instructions in front of the place that a label names. *)
InstructionsBefore(k) ==
  Cardinality({i \in 1 .. FirstDefinition(Lined, k) : Lined[i].op # "LABEL"})

(* An operand as the interpreters have it. *)
Operand(i, j) ==
  CASE kind = "vm asm" -> Loaded[i].arg
    [] kind = "matcher asm" /\ j = 1 -> Loaded[i].a
    [] OTHER -> Loaded[i].b

(* What the listing shows is what was typed: the same operations in the same *)
(* order, with the numbers that were typed, of which 16 bits are kept.        *)
RoundTrip ==
  Complete =>
    /\ Len(Listing) = Len(Shown)
    /\ \A i \in DOMAIN Shown :
         /\ Listing[i].op = Shown[i][1].op
         /\ \A j \in DOMAIN Listing[i].args :
              Shown[i][j + 1].kind = "number" => Listing[i].args[j] = Shown[i][j + 1].n % 65536

(* What the first pass expects is what the second pass writes, so a branch   *)
(* lands on the instruction that follows its label in the file.              *)
BranchesLandOnLabels ==
  Complete =>
    \A i \in DOMAIN Listing : \A j \in DOMAIN Listing[i].args :
      Shown[i][j + 1].kind = "label" => Listing[i].args[j] = WrittenBefore(Shown[i][j + 1].n)

(* What is loaded is a program for the interpreters: it has the operations   *)
(* that were typed, opcodes that the interpreters know, operands of 16 bits, *)
(* and branches that go to its instructions or to its end.  That is so of    *)
(* labels, and of numbers when the one who typed them has counted well.      *)
LoadsWellFormed ==
  Complete /\ NumbersLand(Lined) =>
    /\ Len(Loaded) = Len(Typed(text))
    /\ \A i \in DOMAIN Loaded : Loaded[i].op = Typed(text)[i][1].op
    /\ kind = "matcher asm" => M!WellFormed(Loaded)
    /\ kind = "vm asm" => /\ V!WellFormed(Loaded)
                          /\ \A i \in DOMAIN Loaded : V!Known(Loaded[i])

(* Bytes and instructions are counted alike: a branch to a label goes to the *)
(* instruction in front of which the label stands.                           *)
BranchesLandOnInstructions ==
  Complete =>
    \A i \in DOMAIN Loaded : \A j \in DOMAIN Takes(Loaded[i].op) :
      LET word == Typed(text)[i][j + 1]
      IN  word.kind = "label" => Operand(i, j) = InstructionsBefore(word.n)

(* A listing, whose branches go to numbers, assembles to the listed program. *)
ListingReassembles == Complete => Disassemble(Assemble(Lines(Retyped))) = Listing

=============================================================================
