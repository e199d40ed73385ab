-------------------------- MODULE MCPigletPrograms --------------------------
(***************************************************************************)
(* Programs of PigletVM for model checking.                                 *)
(***************************************************************************)
EXTENDS PigletISA, SequencesExt

(* Every program of at most three of these instructions: most take operands   *)
(* that are not there, run into an unknown opcode, or loop.                   *)
Alphabet ==
  {OpArg("PUSHI", 0), OpArg("PUSHI", 3), OpArg("LOADI", 1), OpArg("ADDI", 3), Op("LOAD"),
   Op("DUP"), Op("SUB"), Op("DIV"), Op("PRINT"), Op("DONE")}
  \cup {OpArg(op, a) : op \in {"JUMP", "JUMP_IF_TRUE", "JUMP_IF_FALSE"}, a \in 0 .. 3}
  \cup {Op("UNKNOWN"), [Op("DUP") EXCEPT !.high = TRUE]}

ShortPrograms == {code \in SeqOf(Alphabet, 3) : WellFormed(code)}

(* Each instruction with operands that tell its argument order and its wrapping. *)
Calculations ==
  {<<OpArg("PUSHI", a), OpArg("PUSHI", b), Op(op), Op("POP_RES"), Op("DONE")>> :
     a \in {0, 2, 15}, b \in {0, 2, 15}, op \in BinaryOps}
  \cup {<<OpArg("PUSHI", a), OpArg("STOREI", 1), OpArg("PUSHI", 2), OpArg(op, 1), Op("PRINT"), Op("DONE")>> :
     a \in {1, 3}, op \in {"ADDI", "LOADADDI", "GREATER_OR_EQUALI"}}
  \cup {<<OpArg("PUSHI", a), OpArg("PUSHI", 3), Op("STORE"), OpArg("PUSHI", 2), Op("DISCARD"),
          OpArg("PUSHI", a), Op("LOAD"), Op("POP_RES"), Op("DONE")>> : a \in {0, 2}}
  \cup {<<OpArg("PUSHI", 7), OpArg("STOREI", 14), OpArg("PUSHI", a), OpArg("PUSHI", 3), Op("SUB"),
          Op("LOAD"), Op("POP_RES"), Op("DONE")>> : a \in {1, 2}}

(* Counts down from n, printing. *)
Countdown(n) ==
  <<OpArg("PUSHI", n), OpArg("STOREI", 2),
    OpArg("LOADI", 2), Op("PRINT"), OpArg("LOADI", 2), OpArg("PUSHI", 1), Op("SUB"),
    Op("DUP"), OpArg("STOREI", 2), OpArg("JUMP_IF_TRUE", 2),
    OpArg("LOADI", 2), Op("POP_RES"), Op("DONE")>>

(* Two values computed on the sides of a branch, behind chains of jumps; all    *)
(* of them go forward.                                                         *)
Diamond(c) ==
  <<OpArg("PUSHI", c), OpArg("JUMP", 3), Op("DONE"), OpArg("JUMP_IF_FALSE", 6),
    OpArg("PUSHI", 2), OpArg("JUMP", 8),
    OpArg("PUSHI", 3), OpArg("JUMP", 8),
    OpArg("STOREI", 0), OpArg("LOADI", 0), Op("DUP"), Op("MUL"), Op("POP_RES"), Op("DONE")>>

(* Programs to be run after one another.  The pairs differ in one place each;  *)
(* the others stop with an error, wrap around, jump back, and jump forever.    *)
Sessions ==
  {Countdown(2), Countdown(3), Diamond(0), Diamond(1),
   <<OpArg("PUSHI", 1), OpArg("LOADI", 2), Op("DIV"), Op("POP_RES"), Op("DONE")>>,
   <<OpArg("PUSHI", 1), OpArg("ADDI", 2), Op("STORE"), Op("DONE")>>,
   <<OpArg("PUSHI", 1), OpArg("PUSHI", 2), Op("SUB"), Op("POP_RES"), Op("DONE")>>,
   <<OpArg("JUMP", 2), Op("DONE"), OpArg("PUSHI", 1), Op("PRINT"), OpArg("JUMP", 1)>>,
   <<OpArg("PUSHI", 1), Op("PRINT"), OpArg("JUMP", 2)>>}

RunPrograms == ShortPrograms \cup Calculations \cup Sessions

(* Adds up to an address past the memory and loads from it. *)
WrappedLoad ==
  {<<OpArg("PUSHI", 15), OpArg("ADDI", a), Op("LOAD"), Op("POP_RES"), Op("DONE")>> : a \in 0 .. 3}

=============================================================================
