------------------------------ MODULE PigletAsm ------------------------------
(* The assembler, the disassembler and the files of pigletvm-exec.c.        *)
EXTENDS PigletISA, AsmText

(* enum opcode, in order. *)
Opcodes == <<
  "ABORT", "PUSHI", "LOADI", "LOADADDI", "STOREI", "LOAD", "STORE", "DUP", "DISCARD",
  "ADD", "ADDI", "SUB", "DIV", "MUL", "JUMP", "JUMP_IF_TRUE", "JUMP_IF_FALSE",
  "EQUAL", "LESS", "LESS_OR_EQUAL", "GREATER", "GREATER_OR_EQUAL", "GREATER_OR_EQUALI",
  "POP_RES", "DONE", "PRINT">>

(* opcode_to_disinfo: the instructions with has_arg; jumps take addresses. *)
Takes(op) ==
  CASE op \in BranchOps \cup {"JUMP"} -> <<"address">>
    [] op \in {"PUSHI", "LOADI", "LOADADDI", "STOREI", "ADDI", "GREATER_OR_EQUALI"} -> <<"number">>
    [] OTHER -> <<>>

File == INSTANCE AsmFile

ParseLine(words) == File!ParseLine(words)

(* parse, collect_labelinfo, resolve_jumps and assemble_line in turn. *)
Assemble(file) == File!Assemble(File!Lines(file))

Disassemble(bytes) == File!Disassemble(bytes)

(* A bytecode file with instruction numbers for addresses, as in PigletISA. *)
Load(bytes) ==
  LET listing == File!Decoded(bytes)
      numbered(i) == IF i.args = <<>> THEN Op(i.op)
                     ELSE OpArg(i.op, IF Takes(i.op) = <<"address">>
                                        THEN File!NumberOf(listing, i.args[1])
                                        ELSE i.args[1])
  IN  [i \in DOMAIN listing |-> numbered(listing[i])]

=============================================================================
