------------------------------- MODULE AsmFile -------------------------------
(***************************************************************************)
(* The assembler and the disassembler that piglet-matcher-exec.c and        *)
(* pigletvm-exec.c have each a copy of, given the table of instructions.    *)
(* Addresses are byte offsets, as in the bytecode file.                     *)
(***************************************************************************)
EXTENDS AsmText, SequencesExt

CONSTANTS
  Opcodes,  \* the names of the instructions in the order of their opcodes
  Takes(_)  \* the operands of an instruction, each a "number" or an "address"

Mnemonics == {Opcodes[i] : i \in DOMAIN Opcodes}

OpcodeOf(op) == (CHOOSE i \in DOMAIN Opcodes : Opcodes[i] = op) - 1

(* What the words of a file are. *)
Words ==
  [kind : {"definition", "label", "number"}, n : Nat] \cup [kind : {"operation"}, op : Mnemonics]
    \cup {Blank}

-----------------------------------------------------------------------------
(* parse_line *)

(* A label name only serves as an address; a number serves as either. *)
Readable(word, as) == word.kind = "number" \/ (as = "address" /\ word.kind = "label")

(* sscanf into an uint16_t. *)
Read(word) == IF word.kind = "number" THEN Number(word.n % 65536) ELSE word

OperandsReadable(words, takes) ==
  /\ Len(words) = Len(takes)
  /\ \A i \in DOMAIN words : Readable(words[i], takes[i])

(* The operands of SPLIT as they are collected, the last one first. *)
ParseLine_Reversed(words) ==
  IF words = <<>> THEN Ignored
  ELSE CASE words[1].kind = "definition" /\ Len(words) = 1 -> Label(words[1].n)
         [] words[1].kind = "operation" /\ OperandsReadable(Tail(words), Takes(words[1].op)) ->
              Line(words[1].op, Reverse([i \in DOMAIN Tail(words) |-> Read(words[i + 1])]))
         [] OTHER -> Exit

ParseLine(words) ==
  IF words = <<>> THEN Ignored
  ELSE CASE words[1].kind = "definition" /\ Len(words) = 1 -> Label(words[1].n)
         [] words[1].kind = "operation" /\ OperandsReadable(Tail(words), Takes(words[1].op)) ->
              Line(words[1].op, [i \in DOMAIN Tail(words) |-> Read(words[i + 1])])
         [] OTHER -> Exit

(* The loop over the file: the list of lines. *)
Lines(file) ==
  LET lines[i \in 0 .. Len(file)] ==
        IF i = 0 THEN <<>>
        ELSE LET line == ParseLine(file[i])
             IN  IF line = Ignored THEN lines[i - 1] ELSE Append(lines[i - 1], line)
  IN  lines[Len(file)]

-----------------------------------------------------------------------------
(* collect_labelinfo and resolve_jumps *)

(* The bytes the first pass expects of a line. *)
Width_ShortJump(line) ==
  IF line.op = "LABEL" THEN 0
  ELSE 1 + 2 * Len(SelectSeq(Takes(line.op), LAMBDA as : as = "number"))

Width(line) == IF line.op = "LABEL" THEN 0 ELSE 1 + 2 * Len(Takes(line.op))

(* pc before the line i, of which there is one more than lines. *)
OffsetOf(lines, i) ==
  LET pc[j \in 1 .. Len(lines) + 1] == IF j = 1 THEN 0 ELSE pc[j - 1] + Width(lines[j - 1])
  IN  pc[i]

Defines(lines, k) == {i \in DOMAIN lines : lines[i] = Label(k)}

(* The first definition of a name counts. *)
FirstDefinition(lines, k) == CHOOSE i \in Defines(lines, k) : \A j \in Defines(lines, k) : i <= j

(* The last one does. *)
TargetOf_LastDefinition(lines, k) ==
  OffsetOf(lines, CHOOSE i \in Defines(lines, k) : \A j \in Defines(lines, k) : j <= i) % 65536

TargetOf(lines, k) == OffsetOf(lines, FirstDefinition(lines, k)) % 65536

LabelsOf(line) == {line.operands[i].n : i \in {j \in DOMAIN line.operands : line.operands[j].kind = "label"}}

(* Else the program ends: an unreadable line, or a label that cannot be resolved. *)
Assembles(lines) ==
  \A i \in DOMAIN lines :
    /\ lines[i] # Exit
    /\ \A k \in LabelsOf(lines[i]) : Defines(lines, k) # {}

(* What an operand is in the bytecode. *)
Resolve(lines, word) == IF word.kind = "label" THEN TargetOf(lines, word.n) ELSE word.n

-----------------------------------------------------------------------------
(* assemble_line and assemble *)

Bytes_LittleEndian(w) == <<w % 256, (w \div 256) % 256>>

Bytes(w) == <<(w \div 256) % 256, w % 256>>

Emit(lines, line) ==
  IF line.op = "LABEL" THEN <<>>
  ELSE <<OpcodeOf(line.op)>>
         \o FlattenSeq([i \in DOMAIN line.operands |-> Bytes(Resolve(lines, line.operands[i]))])

Assemble(lines) == FlattenSeq([i \in DOMAIN lines |-> Emit(lines, lines[i])])

(* write_file: an empty program cannot be written. *)
Writes(bytes) == bytes # <<>>

-----------------------------------------------------------------------------
(* Bytes behind the code read as zero: both readers put one there. *)
Byte(bytes, offset) == IF offset < Len(bytes) THEN bytes[offset + 1] ELSE 0

ReadWord(bytes, offset) == Byte(bytes, offset) * 256 + Byte(bytes, offset + 1)

(* print_instruction, which reads what NEXT_OP and NEXT_ARG of the interpreters read. *)
Decode(bytes, offset) ==
  LET op == Opcodes[Byte(bytes, offset) + 1]
  IN  [at |-> offset, op |-> op,
       args |-> [i \in DOMAIN Takes(op) |-> ReadWord(bytes, offset + 2 * i - 1)]]

NextOffset(listing) ==
  IF listing = <<>> THEN 0 ELSE Last(listing).at + 1 + 2 * Len(Last(listing).args)

(* What the interpreters see of a file when no jump leads into an instruction.  *)
(* An instruction has a byte at least, so as many turns as bytes are enough.    *)
Decoded(bytes) ==
  LET listing[turn \in 0 .. Len(bytes)] ==
        IF turn = 0 THEN <<>>
        ELSE LET before == listing[turn - 1]
             IN  IF NextOffset(before) >= Len(bytes) THEN before
                 ELSE Append(before, Decode(bytes, NextOffset(before)))
  IN  listing[Len(bytes)]

UpToAbort(code) ==
  LET abort == SelectInSeq(code, LAMBDA i : i.op = "ABORT")
  IN  IF abort = 0 THEN code ELSE SubSeq(code, 1, abort - 1)

(* disassemble: a listing of offsets and instructions, up to a zero byte. *)
Disassemble(bytes) == UpToAbort(Decoded(bytes))

(* The offsets of the instructions and the end, where the readers put a zero byte. *)
Boundaries(listing) == {listing[i].at : i \in DOMAIN listing} \cup {NextOffset(listing)}

(* The number of the instruction at an offset.  An offset inside an instruction *)
(* or behind the end has none: it gets a number that no program branches to.    *)
NumberOf(listing, offset) ==
  IF offset \in Boundaries(listing)
    THEN Cardinality({i \in DOMAIN listing : listing[i].at < offset})
    ELSE Len(listing) + 1

-----------------------------------------------------------------------------
(* A number typed as an address is taken as it is, and can name any byte.  This *)
(* holds of a file in which each is the offset of an instruction or of the end. *)
NumbersLand(lines) ==
  \A i \in DOMAIN lines : \A j \in DOMAIN lines[i].operands :
    lines[i].operands[j].kind = "number" /\ Takes(lines[i].op)[j] = "address" =>
      \E place \in 1 .. Len(lines) + 1 : lines[i].operands[j].n = OffsetOf(lines, place)

=============================================================================
