--------------------------- MODULE MCRoleBindings ---------------------------
(***************************************************************************)
(* Small instances of RoleBindings: two Agents of different names, or of   *)
(* one name in two namespaces.                                             *)
(***************************************************************************)
EXTENDS RoleBindings

CONSTANTS a1, a2, m1, m2

TwoAgents == {a1, a2}
TwoManagers == {m1, m2}
TwoNames == {"demo", "other"}
Distinct == [a \in TwoAgents |-> IF a = a1 THEN "demo" ELSE "other"]
Shared == [a \in TwoAgents |-> "demo"]
=============================================================================
