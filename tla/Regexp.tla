------------------------------- MODULE Regexp --------------------------------
(***************************************************************************)
(* The asm text that the translator makes of the terms of a pattern         *)
(* (regexp_trans.py, regexp.py), and what a pattern means.                  *)
(***************************************************************************)
EXTENDS RegexpParse, MatcherAsm, SequencesExt

(* A flat term: the lines so far, and label_cnt, the next unused label. *)
Flat(code, label_cnt) == [code |-> code, label_cnt |-> label_cnt]

(* Lines as dump_asm prints them; a label gets the name L<label_cnt>. *)
NextLine == <<Operation("NEXT")>>
JumpLine(n) == <<Operation("JUMP"), LabelName(n)>>
SplitLine(m, n) == <<Operation("SPLIT"), LabelName(m), LabelName(n)>>
LabelLine(n) == <<Definition(n)>>

EventLines(t) ==
  <<NextLine, <<Operation("NAME"), Number(t.n)>>>>
    \o (IF t.s = ScreenUnspecified THEN <<>> ELSE <<<<Operation("SCREEN"), Number(t.s)>>>>)

(* The operands are translated before the labels of the operator are taken. *)
PlusLines(e, n) == <<LabelLine(n)>> \o e \o <<SplitLine(n, n + 1), LabelLine(n + 1)>>

StarLines_NoRepeat(e, n) ==
  <<LabelLine(n), SplitLine(n + 1, n + 2), LabelLine(n + 1)>> \o e
    \o <<JumpLine(n + 2), LabelLine(n + 2)>>

StarLines(e, n) ==
  <<LabelLine(n), SplitLine(n + 1, n + 2), LabelLine(n + 1)>> \o e
    \o <<JumpLine(n), LabelLine(n + 2)>>

MaybeLines_NoSkip(e, n) == <<SplitLine(n, n), LabelLine(n)>> \o e \o <<LabelLine(n + 1)>>

MaybeLines(e, n) == <<SplitLine(n, n + 1), LabelLine(n)>> \o e \o <<LabelLine(n + 1)>>

ChoiceLines(l, r, n) ==
  <<SplitLine(n, n + 1), LabelLine(n)>> \o l \o <<JumpLine(n + 2), LabelLine(n + 1)>> \o r
    \o <<LabelLine(n + 2)>>

RECURSIVE Expr(_, _)
Expr(t, label_cnt) ==
  CASE t.tag = "Event" -> Flat(EventLines(t), label_cnt)
    [] t.tag = "Any"   -> Flat(<<NextLine>>, label_cnt)
    [] t.tag = "Concat" ->
         FoldLeft(LAMBDA flat, u : LET e == Expr(u, flat.label_cnt)
                                   IN  Flat(flat.code \o e.code, e.label_cnt),
                  Flat(<<>>, label_cnt), t.ts)
    [] t.tag = "Plus"  -> LET e == Expr(t.t, label_cnt)
                          IN  Flat(PlusLines(e.code, e.label_cnt), e.label_cnt + 2)
    [] t.tag = "Star"  -> LET e == Expr(t.t, label_cnt)
                          IN  Flat(StarLines(e.code, e.label_cnt), e.label_cnt + 3)
    [] t.tag = "Maybe" -> LET e == Expr(t.t, label_cnt)
                          IN  Flat(MaybeLines(e.code, e.label_cnt), e.label_cnt + 2)
    [] t.tag = "Choice" -> LET l == Expr(t.l, label_cnt)
                               r == Expr(t.r, l.label_cnt)
                           IN  Flat(ChoiceLines(l.code, r.code, r.label_cnt), r.label_cnt + 3)

(* translate and dump_asm: the asm file of a pattern. *)
Translate(pattern) == Append(Expr(pattern, 0).code, <<Operation("MATCH")>>)

(* From the tokens of a pattern to the program of the matcher: regexp.py, the *)
(* assembler, and the loader.                                                *)
Compile(tokens) == Load(File!Assemble(File!Lines(Translate(Parse(tokens)))))

-----------------------------------------------------------------------------
(* What a pattern means: where its matches that begin behind event i end.  An  *)
(* event is what a line of the file says: a name and a screen.                *)
Fits(t, event) == event.n = t.n /\ (t.s # ScreenUnspecified => event.s = t.s)

RECURSIVE Ends(_, _, _), Repeat(_, _, _)
Ends(t, events, i) ==
  CASE t.tag = "Event" -> {j \in {i + 1} : i < Len(events) /\ Fits(t, events[j])}
    [] t.tag = "Any"   -> {j \in {i + 1} : i < Len(events)}
    [] t.tag = "Concat" ->
         FoldLeft(LAMBDA js, u : UNION {Ends(u, events, j) : j \in js}, {i}, t.ts)
    [] t.tag = "Plus"  -> Repeat(t.t, events, Ends(t.t, events, i))
    [] t.tag = "Star"  -> Repeat(t.t, events, {i})
    [] t.tag = "Maybe" -> {i} \cup Ends(t.t, events, i)
    [] t.tag = "Choice" -> Ends(t.l, events, i) \cup Ends(t.r, events, i)

Repeat(t, events, js) ==
  LET more == js \cup UNION {Ends(t, events, j) : j \in js}
  IN  IF more = js THEN js ELSE Repeat(t, events, more)

(* The pattern occurs somewhere in the stream. *)
Occurs(pattern, events) == \E i \in 0 .. Len(events) : Ends(pattern, events, i) # {}

RECURSIVE ChoiceFree(_)
ChoiceFree(t) ==
  CASE t.tag \in {"Event", "Any"} -> TRUE
    [] t.tag = "Concat" -> \A i \in DOMAIN t.ts : ChoiceFree(t.ts[i])
    [] t.tag = "Choice" -> FALSE
    [] OTHER -> ChoiceFree(t.t)

=============================================================================
