----------------------------- MODULE MCPigletVM -----------------------------
EXTENDS PigletVM, MCPigletPrograms

(* Every program is run once on a fresh structure; only those of Sessions are *)
(* run after one another, in every order.                                     *)
MCStart ==
  \/ status = "off" /\ Start
  \/ bytecode \in Sessions /\ bytecode' \in Sessions /\ Start

MCSpec == Init /\ [][MCStart \/ Run]_vars

=============================================================================
