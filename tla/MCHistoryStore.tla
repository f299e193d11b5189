---------------------------- MODULE MCHistoryStore ----------------------------
(***************************************************************************)
(* The two pods of a rolling update, interchangeable.                      *)
(***************************************************************************)
EXTENDS HistoryStore, TLC

CONSTANTS old, new

Pods == {old, new}
PodSymmetry == Permutations(Pods)
=============================================================================
