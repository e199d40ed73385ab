--------------------------- MODULE MCPigletMatcher ---------------------------
(* Small instances of PigletMatcher. *)
EXTENDS PigletMatcher

(* make_event(name, screen) of the tests. *)
Event(name, screen) == screen * 65536 + name

(* "1 2", "1:2 1 1", ". 1", and a file cut off before its MATCH. *)
LinearPrograms == {
  <<NextEvent, Name(1), NextEvent, Name(2), Match>>,
  <<NextEvent, Name(1), Screen(2), NextEvent, Name(1), NextEvent, Name(1), Match>>,
  <<NextEvent, NextEvent, Name(1), Match>>,
  <<NextEvent, Name(1), NextEvent>> }

(* "1|2 3" of the tests, "1 2? 1", "1+ 2", and a loop that consumes nothing. *)
BranchingPrograms == {
  <<Split(1, 4), NextEvent, Name(1), Jump(6), NextEvent, Name(2), NextEvent, Name(3), Match>>,
  <<NextEvent, Name(1), Split(3, 5), NextEvent, Name(2), NextEvent, Name(1), Match>>,
  <<NextEvent, Name(1), Split(0, 3), NextEvent, Name(2), Match>>,
  <<NextEvent, Split(2, 3), Jump(1), NextEvent, Name(2), Match>> }

AllPrograms == LinearPrograms \cup BranchingPrograms

SmallEvents == {0, Event(1, 2), Event(2, 0), Event(3, 0)}

=============================================================================
