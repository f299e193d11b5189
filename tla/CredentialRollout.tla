-------------------------- MODULE CredentialRollout --------------------------
(***************************************************************************)
(* What credential rotation promises to the pods of one Agent              *)
(* (rollIfCredentialsChanged, and "a kubectl edit secret is enough to      *)
(* rotate creds", agent_types.go:92): the pod template carries a version   *)
(* of the Secret that has been published, a roll only ever moves it        *)
(* forward, and it starts over only with a new Deployment.                 *)
(***************************************************************************)
EXTENDS Naturals

VARIABLES published,  \* the last version of the Secret
          deployed,   \* there is a Deployment
          stamped     \* the version its pod template carries (0: none yet)

vars == <<published, deployed, stamped>>

Init == published \in Nat /\ deployed = FALSE /\ stamped = 0

Publish == published' = published + 1 /\ UNCHANGED <<deployed, stamped>>

Deploy == /\ ~deployed
          /\ deployed' = TRUE /\ stamped' = 0 /\ UNCHANGED published

Remove == /\ deployed
          /\ deployed' = FALSE /\ stamped' = 0 /\ UNCHANGED published

Roll == /\ deployed
        /\ stamped' \in (stamped + 1)..published
        /\ UNCHANGED <<published, deployed>>

Next == Publish \/ Deploy \/ Remove \/ Roll

Spec == Init /\ [][Next]_vars
=============================================================================
