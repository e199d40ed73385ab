------------------------------- MODULE AsmText -------------------------------
(***************************************************************************)
(* Asm text, which the two assemblers read alike.  A line is the sequence   *)
(* of its words, none for a comment or an empty line.  Names are numbered:  *)
(* LabelName(3) is an alphanumeric word that starts with a letter, such as  *)
(* L3, and Definition(3) the word "L3:".                                    *)
(***************************************************************************)
EXTENDS Naturals, Sequences

Operation(op) == [kind |-> "operation", op |-> op]
Definition(k) == [kind |-> "definition", n |-> k]
LabelName(k) == [kind |-> "label", n |-> k]
Number(n) == [kind |-> "number", n |-> n]

(* What a space before the end of a line leaves: a word that is a newline. *)
Blank == [kind |-> "blank"]

(* struct asm_line: an instruction with the words of its operands, or a label. *)
Line(op, operands) == [op |-> op, operands |-> operands]
Label(k) == Line("LABEL", <<LabelName(k)>>)

(* parse_line returns NULL, or ends the program. *)
Ignored == Line("IGNORED", <<>>)
Exit == Line("EXIT", <<>>)

=============================================================================
