----------------------------- MODULE RegexpParse -----------------------------
(***************************************************************************)
(* The terms of the pattern language (terms.py) and its parser              *)
(* (regexp_parse.py), on the tokens of the scanner.                         *)
(*                                                                          *)
(* The parser never goes back on an alternative that succeeded.  A parsing  *)
(* operator returns the set of its results: one, with its term and the      *)
(* place behind it, or none.                                                *)
(***************************************************************************)
EXTENDS Naturals, Sequences

(* Tokens. *)
IntToken(n) == [tag |-> "Int", n |-> n]
OpToken(op) == [tag |-> "Op", op |-> op]

(* AST terms. *)
Event(n, s) == [tag |-> "Event", n |-> n, s |-> s]
AnyEvent == [tag |-> "Any"]
Concat(ts) == [tag |-> "Concat", ts |-> ts]
Plus(t) == [tag |-> "Plus", t |-> t]
Star(t) == [tag |-> "Star", t |-> t]
Maybe(t) == [tag |-> "Maybe", t |-> t]
Choice(l, r) == [tag |-> "Choice", l |-> l, r |-> r]

ScreenUnspecified == 0

-----------------------------------------------------------------------------
IsOp(ts, i, op) == i <= Len(ts) /\ ts[i] = OpToken(op)
IsInt(ts, i) == i <= Len(ts) /\ ts[i].tag = "Int"

Result(term, next) == [term |-> term, next |-> next]

(* The two ways to write an event tried in the other order. *)
EventExp_UnspecifiedFirst(ts, i) == {Result(Event(ts[i].n, ScreenUnspecified), i + 1)}

EventExp(ts, i) ==
  IF IsOp(ts, i + 1, ":") /\ IsInt(ts, i + 2)
    THEN {Result(Event(ts[i].n, ts[i + 2].n), i + 3)}
    ELSE {Result(Event(ts[i].n, ScreenUnspecified), i + 1)}

(* At most one postfix operator. *)
Postfix(ts, e) ==
  CASE IsOp(ts, e.next, "+") -> Result(Plus(e.term), e.next + 1)
    [] IsOp(ts, e.next, "*") -> Result(Star(e.term), e.next + 1)
    [] IsOp(ts, e.next, "?") -> Result(Maybe(e.term), e.next + 1)
    [] OTHER -> e

RECURSIVE SimpleExp(_, _), UnionExp(_, _), Sequence(_, _, _)

SimpleExp(ts, i) ==
  LET inner == Sequence(ts, i + 1, <<>>)
  IN  CASE IsInt(ts, i) -> EventExp(ts, i)
        [] IsOp(ts, i, ".") -> {Result(AnyEvent, i + 1)}
        [] IsOp(ts, i, "(") /\ IsOp(ts, inner.next, ")") ->
             {Result(Concat(inner.term), inner.next + 1)}
        [] OTHER -> {}

RepeatExp(ts, i) == {Postfix(ts, e) : e \in SimpleExp(ts, i)}

(* The right side takes every further "|" before the loop around it can.      *)
UnionExp(ts, i) ==
  UNION {LET rights == IF IsOp(ts, l.next, "|") THEN UnionExp(ts, l.next + 1) ELSE {}
         IN  IF rights = {} THEN {l} ELSE {Result(Choice(l.term, r.term), r.next) : r \in rights}
         : l \in RepeatExp(ts, i)}

(* many(unionexp), behind the terms parsed before. *)
Sequence(ts, i, terms) ==
  LET us == UnionExp(ts, i)
  IN  IF us = {} THEN Result(terms, i)
      ELSE LET u == CHOOSE u \in us : TRUE IN Sequence(ts, u.next, Append(terms, u.term))

(* regexp: a sequence up to the end, or the program ends with an error. *)
Parses(ts) == Sequence(ts, 1, <<>>).next = Len(ts) + 1

Parse(ts) == Concat(Sequence(ts, 1, <<>>).term)

=============================================================================
