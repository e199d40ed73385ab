---------------------------- MODULE MCPigletExec -----------------------------
(***************************************************************************)
(* The commands on asm files of the programs that keep to the stack.        *)
(***************************************************************************)
EXTENDS PigletExec, MCPigletPrograms

(* A program as text: every instruction behind a label, every address a label. *)
TextOf(code) ==
  LET operand(i) == IF Takes(i.op) = <<>> THEN <<>>
                    ELSE IF Takes(i.op) = <<"address">> THEN <<LabelName(i.arg)>>
                    ELSE <<Number(i.arg)>>
  IN  FlattenSeq([n \in DOMAIN code |->
        << <<Definition(n - 1)>>, <<Operation(code[n].op)>> \o operand(code[n]) >>])

(* Not the ones that jump for ever. *)
Ending(code) == \A i \in DOMAIN code : code[i].op = "JUMP" => code[i].arg >= i

(* Not the ones that load from a difference, which may lie above the memory. *)
Loading(code) == \E i \in DOMAIN code \ {1} : code[i - 1].op = "SUB" /\ code[i].op = "LOAD"

Runnable ==
  {code \in Calculations \cup Sessions : Disciplined(code) /\ Ending(code) /\ ~Loading(code)}

(* An empty file, a label nobody defines, an operand too many. *)
Unassembled == {
  <<>>, <<<<Operation("JUMP"), LabelName(1)>>, <<Operation("DONE")>>>>,
  <<<<Operation("DONE"), Number(1)>>>> }

AsmFiles == {TextOf(code) : code \in Runnable} \cup Unassembled

=============================================================================
