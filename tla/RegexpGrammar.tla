---------------------------- MODULE RegexpGrammar ----------------------------
(* The pattern language by its grammar, and the terms its sentences stand for. *)
EXTENDS RegexpParse, SequencesExt

PostfixOps == {OpToken("+"), OpToken("*"), OpToken("?")}

UpTo(ts, n) == SubSeq(ts, 1, n)
Behind(ts, n) == SubSeq(ts, n + 1, Len(ts))

IsEventText(ts) ==
  /\ Len(ts) \in {1, 3} /\ ts[1].tag = "Int"
  /\ Len(ts) = 3 => ts[2] = OpToken(":") /\ ts[3].tag = "Int"

RECURSIVE IsSimple(_), IsUnion(_), IsSentence(_)

IsSimple(ts) ==
  \/ IsEventText(ts)
  \/ ts = <<OpToken(".")>>
  \/ /\ Len(ts) >= 2 /\ ts[1] = OpToken("(") /\ ts[Len(ts)] = OpToken(")")
     /\ IsSentence(SubSeq(ts, 2, Len(ts) - 1))

IsRepeat(ts) ==
  \/ IsSimple(ts)
  \/ ts # <<>> /\ ts[Len(ts)] \in PostfixOps /\ IsSimple(UpTo(ts, Len(ts) - 1))

IsUnion(ts) ==
  \/ IsRepeat(ts)
  \/ \E n \in 2 .. Len(ts) :
       ts[n] = OpToken("|") /\ IsRepeat(UpTo(ts, n - 1)) /\ IsUnion(Behind(ts, n))

IsSentence(ts) ==
  \/ ts = <<>>
  \/ \E n \in 1 .. Len(ts) : IsUnion(UpTo(ts, n)) /\ IsSentence(Behind(ts, n))

-----------------------------------------------------------------------------
(* A term as it is written; a Concat stands in parentheses. *)
RECURSIVE Written(_)
Written(t) ==
  CASE t.tag = "Event" -> <<IntToken(t.n)>>
                            \o (IF t.s = ScreenUnspecified THEN <<>> ELSE <<OpToken(":"), IntToken(t.s)>>)
    [] t.tag = "Any"    -> <<OpToken(".")>>
    [] t.tag = "Concat" -> <<OpToken("(")>> \o FlattenSeq([i \in DOMAIN t.ts |-> Written(t.ts[i])])
                             \o <<OpToken(")")>>
    [] t.tag = "Plus"   -> Append(Written(t.t), OpToken("+"))
    [] t.tag = "Star"   -> Append(Written(t.t), OpToken("*"))
    [] t.tag = "Maybe"  -> Append(Written(t.t), OpToken("?"))
    [] t.tag = "Choice" -> Written(t.l) \o <<OpToken("|")>> \o Written(t.r)

(* The shape that precedence and grouping give a term: postfix operators bind *)
(* tightest, and "|" groups to the right.                                     *)
RECURSIVE Shaped(_)
Shaped(t) ==
  CASE t.tag = "Concat" -> \A i \in DOMAIN t.ts : Shaped(t.ts[i])
    [] t.tag = "Choice" -> t.l.tag # "Choice" /\ Shaped(t.l) /\ Shaped(t.r)
    [] t.tag \in {"Plus", "Star", "Maybe"} -> t.t.tag \in {"Event", "Any", "Concat"} /\ Shaped(t.t)
    [] OTHER -> TRUE

=============================================================================
