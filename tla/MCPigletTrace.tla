---------------------------- MODULE MCPigletTrace ----------------------------
EXTENDS PigletTrace, MCPigletPrograms

(* Every program is run once on a fresh structure; only those of Sessions are *)
(* run after one another, in every order.                                     *)
MCStart ==
  \/ status = "off" /\ Start
  \/ bytecode \in Sessions /\ bytecode' \in Sessions /\ Start

MCSpec == Init /\ [][MCStart \/ Step]_vars

MCFairSpec == MCSpec /\ WF_vars(Step)

=============================================================================
