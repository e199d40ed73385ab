----------------------------- MODULE MatcherAsm ------------------------------
(* The assembler and the disassembler of piglet-matcher-exec.c.             *)
EXTENDS MatcherCode, AsmText

(* enum matcher_opcode, in order. *)
Opcodes == <<"ABORT", "NAME", "SCREEN", "NEXT", "JUMP", "SPLIT", "MATCH">>

(* opcode_to_disinfo *)
Takes(op) ==
  CASE op \in {"NAME", "SCREEN"} -> <<"number">>
    [] op = "JUMP"  -> <<"address">>
    [] op = "SPLIT" -> <<"address", "address">>
    [] OTHER        -> <<>>

File == INSTANCE AsmFile

(* A bytecode file with instruction numbers for addresses, as in MatcherCode. *)
Load(bytes) ==
  LET listing == File!Decoded(bytes)
      target(i, n) == File!NumberOf(listing, i.args[n])
      numbered(i) == CASE i.op = "JUMP"   -> Jump(target(i, 1))
                       [] i.op = "SPLIT"  -> Split(target(i, 1), target(i, 2))
                       [] i.op = "NAME"   -> Name(i.args[1])
                       [] i.op = "SCREEN" -> Screen(i.args[1])
                       [] OTHER           -> [op |-> i.op, a |-> 0, b |-> 0]
  IN  [i \in DOMAIN listing |-> numbered(listing[i])]

=============================================================================
