------------------------------ MODULE SessionLog ------------------------------
(***************************************************************************)
(* What HistoryStore promises of one session: a list of messages to which  *)
(* the turns handed over are appended, each one whole, the oldest messages *)
(* falling off beyond Cap.  A turn may only be dropped once something has  *)
(* failed, and recorded messages may only be forgotten once something      *)
(* excuses it: an unreadable file, or two pods with turns at once.         *)
(***************************************************************************)
EXTENDS Naturals, Sequences

CONSTANTS Cap, Turns          \* the turns that may be recorded
VARIABLES log, pending, failed, excused

Newest(messages) ==
  IF Len(messages) > Cap
  THEN SubSeq(messages, Len(messages) - Cap + 1, Len(messages))
  ELSE messages

Init == log = <<>> /\ pending = <<>> /\ failed = FALSE /\ excused = FALSE

Hand == /\ pending = <<>> /\ pending' \in Turns
        /\ UNCHANGED <<log, failed, excused>>

Record == /\ pending # <<>> /\ pending' = <<>>
          /\ log' = Newest(log \o pending)
          /\ UNCHANGED <<failed, excused>>

Fail == failed' = TRUE /\ UNCHANGED <<log, pending, excused>>

Drop == /\ failed' = TRUE /\ pending' = <<>>
        /\ UNCHANGED <<log, excused>>

Forget == excused' = TRUE /\ Len(log') <= Cap

Next == Hand \/ Record \/ Fail \/ Drop \/ Forget

Spec == Init /\ [][Next]_<<log, pending, failed, excused>>
=============================================================================
