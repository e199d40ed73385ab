--------------------------- MODULE MCPigletRcache ---------------------------
(***************************************************************************)
(* A client of the four interpreters of pigletvm-rcache.c, three of which   *)
(* share one static structure; the fourth has one of its own.               *)
(***************************************************************************)
EXTENDS PigletRcache, MCPigletPrograms

CONSTANT MaxTraceLen

VARIABLES
  t_bytecode, t_pc, t_status, t_cache, t_mode, t_head, t_at, t_k,
  t_array, t_saved, t_top, t_regs

tracer == <<t_bytecode, t_pc, t_status, t_cache, t_mode, t_head, t_at, t_k,
            t_array, t_saved, t_top, t_regs>>

Tracer == INSTANCE PigletRcacheTrace WITH
  bytecode <- t_bytecode, pc <- t_pc, status <- t_status, trace_cache <- t_cache,
  mode <- t_mode, head <- t_head, at <- t_at, k <- t_k,
  array <- t_array, saved_top <- t_saved, stack_top <- t_top, regs <- t_regs

MCInit == Init /\ Tracer!Init

Unused == status = "off" /\ t_status = "off"

(* Every program is run once on fresh structures; only those of Sessions are   *)
(* run after one another, in every order.                                     *)
MCStart ==
  /\ t_status # "running"
  /\ \/ Unused
     \/ {bytecode, t_bytecode} \subseteq Sessions \cup {<<>>} /\ bytecode' \in Sessions
  /\ Start
  /\ UNCHANGED tracer

MCStartTracer ==
  /\ status # "running"
  /\ \/ Unused
     \/ {bytecode, t_bytecode} \subseteq Sessions \cup {<<>>} /\ t_bytecode' \in Sessions
  /\ Tracer!Start
  /\ UNCHANGED vars

MCRun == Run /\ UNCHANGED tracer

MCStep == Tracer!Step /\ UNCHANGED vars

MCSpec == MCInit /\ [][MCStart \/ MCStartTracer \/ MCRun \/ MCStep]_<<vars, tracer>>

(* The same claim as PigletRcacheTrace makes, about the structure used here:   *)
(* the top that is handed from handler to handler is the top PigletTrace       *)
(* keeps in its structure, whichever rows and runs came before.               *)
ImplementsPigletTrace == Tracer!ImplementsPigletTrace

=============================================================================
