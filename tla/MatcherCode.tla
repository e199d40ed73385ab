----------------------------- MODULE MatcherCode -----------------------------
(***************************************************************************)
(* The bytecode of PigletMatcher (piglet-matcher.h, piglet-matcher.c): its  *)
(* instructions, what an instruction asks of an event, and where the        *)
(* threads that execute it continue within the same event.                  *)
(*                                                                          *)
(* Code is a sequence of decoded instructions and an address is the number  *)
(* of instructions before it; the byte layout belongs to the assembler.     *)
(* Every instruction has two operands, a and b, unused ones being 0.        *)
(***************************************************************************)
EXTENDS Naturals, Sequences

Ops == {"ABORT", "NAME", "SCREEN", "NEXT", "JUMP", "SPLIT", "MATCH"}

Instruction == [op : Ops, a : Nat, b : Nat]

Abort == [op |-> "ABORT", a |-> 0, b |-> 0]
Name(n) == [op |-> "NAME", a |-> n, b |-> 0]
Screen(s) == [op |-> "SCREEN", a |-> s, b |-> 0]
NextEvent == [op |-> "NEXT", a |-> 0, b |-> 0]
Jump(t) == [op |-> "JUMP", a |-> t, b |-> 0]
Split(l, r) == [op |-> "SPLIT", a |-> l, b |-> r]
Match == [op |-> "MATCH", a |-> 0, b |-> 0]

(* Both loaders leave a zero byte, OP_ABORT, behind the last instruction. *)
At(code, ip) == IF ip < Len(code) THEN code[ip + 1] ELSE Abort

Addresses(code) == 0 .. Len(code)

(* Branches go to instructions or to the end, as those to labels do. *)
WellFormed(code) ==
  /\ code \in Seq(Instruction)
  /\ \A i \in 1 .. Len(code) :
       /\ code[i].op \in {"JUMP", "SPLIT"} => code[i].a \in Addresses(code)
       /\ code[i].op = "SPLIT" => code[i].b \in Addresses(code)

(* A pattern without alternatives, options and repetitions. *)
Linear(code) == \A i \in 1 .. Len(code) : code[i].op \notin {"JUMP", "SPLIT"}

-----------------------------------------------------------------------------
EventName(event) == event % 256
EventScreen(event) == (event \div 65536) % 256

(* Does the event satisfy a NAME or SCREEN test? *)
Passes(i, event) ==
  \/ i.op = "NAME" /\ EventName(event) = i.a
  \/ i.op = "SCREEN" /\ EventScreen(event) = i.a

(***************************************************************************)
(* Where threads stand, within the same event, after one of them executed   *)
(* the instruction at ip.  JUMP and SPLIT spawn threads at their targets,   *)
(* and the thread that executed them goes on behind them.                   *)
(***************************************************************************)
Successors(code, ip, event) ==
  LET i == At(code, ip)
  IN  CASE i.op \in {"NAME", "SCREEN"} -> {p \in {ip + 1} : Passes(i, event)}
        [] i.op = "JUMP"  -> {ip + 1, i.a}
        [] i.op = "SPLIT" -> {ip + 1, i.a, i.b}
        [] OTHER -> {}

=============================================================================
