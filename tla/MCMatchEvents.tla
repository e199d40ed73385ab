---------------------------- MODULE MCMatchEvents ----------------------------
(* Small instances of MatchEvents. *)
EXTENDS MatchEvents

One == IntToken(1)
Two == IntToken(2)
Three == IntToken(3)
Dot == OpToken(".")
Bar == OpToken("|")
Many == OpToken("*")
Some == OpToken("+")
Perhaps == OpToken("?")
Open == OpToken("(")
Close == OpToken(")")

(* "1 2 1", "1:2 .", "1+ 2", "1* 2", "1 2? 3", "(1 2)+ 3", "(1 2?)* 3", "1*". *)
ChoiceFreePatterns == {
  <<One, Two, One>>, <<One, OpToken(":"), Two, Dot>>, <<One, Some, Two>>, <<One, Many, Two>>,
  <<One, Two, Perhaps, Three>>, <<Open, One, Two, Close, Some, Three>>,
  <<Open, One, Two, Perhaps, Close, Many, Three>>, <<One, Many>> }

(* "1 (2|3)* 1", whose threads multiply. *)
MultiplyingPatterns == { <<One, Open, Two, Bar, Three, Close, Many, One>> }

(* "1 (2|3) 1", "1 | 2 | 3", "((1 2)|(2 1))+ 3", and the one above. *)
ChoicePatterns == MultiplyingPatterns \cup {
  <<One, Open, Two, Bar, Three, Close, One>>, <<One, Bar, Two, Bar, Three>>,
  <<Open, Open, One, Two, Close, Bar, Open, Two, One, Close, Close, Some, Three>> }

AllPatterns == ChoiceFreePatterns \cup ChoicePatterns

(* "257". *)
WidePatterns == { <<IntToken(257)>> }

Bytecodes == {Compile(p) : p \in Patterns}

(* An empty line, three names, and a name with a screen. *)
EventFile == {<<>>, <<1>>, <<2>>, <<3>>, <<1, 2>>}

TwoNames == {<<1>>, <<2>>}

WideNames == {<<1>>, <<257>>}

EventWords == {MakeEvent(EventOf(line)) : line \in {l \in FileLines : IsEvent(l)}}

=============================================================================
