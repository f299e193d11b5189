----------------------------- MODULE MCChatSystem -----------------------------
(***************************************************************************)
(* Small instances of ChatSystem: two sessions.                            *)
(***************************************************************************)
EXTENDS ChatSystem

TwoSessions == {1, 2}
=============================================================================
