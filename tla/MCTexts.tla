------------------------------- MODULE MCTexts -------------------------------
(***************************************************************************)
(* Texts typed in, line by line or token by token: asm files for the two     *)
(* assemblers, and patterns.                                                 *)
(***************************************************************************)
EXTENDS AsmTexts, RegexpGrammar

CONSTANTS MaxLines, MaxTokens

(* An empty line, a label and one with an operand, a space behind a line. *)
CommonLines == {
  <<>>, <<Definition(1)>>, <<Definition(2)>>, <<Definition(1), Number(3)>>,
  <<Operation("ABORT")>>, <<Operation("JUMP"), LabelName(1)>>, <<Operation("JUMP"), Blank>> }

(* 258 has different high and low bytes, 98306 a bit too many and the high one of 16. *)
MatcherLines == CommonLines \cup {
  <<Operation("NAME"), Number(258)>>, <<Operation("NAME")>>, <<Operation("NEXT")>>,
  <<Operation("MATCH")>>, <<Operation("JUMP"), Number(3)>>,
  <<Operation("SPLIT"), LabelName(1), LabelName(2)>>, <<Operation("SPLIT"), LabelName(2), Number(5)>> }

PigletLines == CommonLines \cup {
  <<Operation("PUSHI"), Number(258)>>, <<Operation("PUSHI"), Number(98306)>>,
  <<Operation("PUSHI"), LabelName(1)>>, <<Operation("ADD")>>, <<Operation("DONE")>>,
  <<Operation("JUMP_IF_TRUE"), LabelName(2)>>, <<Operation("JUMP_IF_FALSE"), Number(3)>> }

Tokens == {IntToken(1)} \cup {OpToken(op) : op \in {":", "|", "+", "(", ")", "."}}

Alphabet ==
  CASE kind = "matcher asm" -> MatcherLines
    [] kind = "vm asm"  -> PigletLines
    [] kind = "pattern" -> Tokens

Init == kind \in {"matcher asm", "vm asm", "pattern"} /\ text = <<>>

Type ==
  /\ Len(text) < (IF kind = "pattern" THEN MaxTokens ELSE MaxLines)
  /\ \E item \in Alphabet : text' = Append(text, item)
  /\ UNCHANGED kind

Spec == Init /\ [][Type]_<<kind, text>>

-----------------------------------------------------------------------------
(* The parser, which tries alternatives in order and never goes back, accepts *)
(* the sentences of the grammar, and gives them the term that was written,    *)
(* grouped as precedence says.                                                *)
GrammarFaithful ==
  kind = "pattern" =>
    /\ Parses(text) <=> IsSentence(text)
    /\ Parses(text) => /\ Shaped(Parse(text))
                       /\ Written(Parse(text)) = <<OpToken("(")>> \o text \o <<OpToken(")")>>

=============================================================================
