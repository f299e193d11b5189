-------------------------- MODULE MCAgentReconciler --------------------------
(***************************************************************************)
(* Sets of specs to check AgentReconciler with, each as small as the       *)
(* question of a run allows.                                               *)
(***************************************************************************)
EXTENDS AgentReconciler

ReadOnly == {[write |-> FALSE, history |-> FALSE]}
OffAndOn == {[write |-> b, history |-> b] : b \in BOOLEAN}
FullSpec == {[write |-> TRUE, history |-> TRUE]}
=============================================================================
