----------------------------- MODULE HistoryStore -----------------------------
(***************************************************************************)
(* The file of one session in the history volume: runtime/src/             *)
(* agent_runtime/history.py, called by _persist_turn of server.py, one     *)
(* step per system call.                                                   *)
(*                                                                         *)
(* The writers are the pods that mount the volume: one, or the old and the *)
(* new one while the Deployment rolls.  In each pod the event loop runs    *)
(* _persist_turn to its end before anything else, so that a pod has at     *)
(* most one turn in its hands, but nothing locks the file against the      *)
(* other pod.  Sessions do not share files; one is enough.                 *)
(***************************************************************************)
EXTENDS Filter

CONSTANTS
  Writers,     \* the pods
  Cap,         \* _MAX_PERSISTED_MESSAGES: 200 in the code
  MaxTurns,    \* bound: turns handed to _persist_turn
  MaxFaults,   \* bound: failing system calls, damage to the file
  MaxAccidents \* bound: deaths of a pod or of the node, answers with no
               \*   encoding

ASSUME CapAssumption == Cap \in Nat \ {0}
ASSUME BoundsAssumption ==
  MaxTurns \in Nat /\ MaxFaults \in Nat /\ MaxAccidents \in Nat

VARIABLES
  file,        \* the session's file
  tmp,         \* per pod: the temporary file of the save under way
  littered,    \* a temporary file was left that nobody will remove
  pc, enabled, \* per pod: where _persist_turn is; whether self._dir is set
  turn,        \* per pod: the turn to persist
  combined,    \* per pod: the list to write
  turns,       \* turns handed out so far
  faults, accidents,
  damaged,     \* history: the file was damaged or could not be read
  overlapped   \* history: two pods have had a turn in their hands at once

locals == <<turn, combined>>
ghosts == <<damaged, overlapped>>
vars == <<file, tmp, littered, pc, enabled, locals, turns, faults, accidents, ghosts>>

-----------------------------------------------------------------------------
(* Data. *)

Roles    == {"user", "assistant", "system", "tool", "other"}
Messages == [role : Roles, turn : Nat]
Message(role, n) == [role |-> role, turn |-> n]

\* A file holds a whole list; or is not JSON (malformed: load starts empty);
\* or is no JSON object, or not UTF-8 (misshapen: load raises).  synced: its
\* bytes are on the disk.
States == {"absent", "whole", "malformed", "misshapen"}
Files  == [state : States, messages : Seq(Messages), synced : BOOLEAN]
Absent == [state |-> "absent", messages |-> <<>>, synced |-> TRUE]

Tmps == {"none", "empty", "partial", "written", "synced"}

\* Mutant of Newest: what is kept beyond the cap is the oldest.
OldestKept(messages) ==
  IF Len(messages) > Cap THEN SubSeq(messages, 1, Cap) ELSE messages

\* Mutant of Newest: nothing is trimmed.
Untrimmed(messages) == messages

\* messages[-_MAX_PERSISTED_MESSAGES:]
Newest(messages) ==
  IF Len(messages) > Cap
  THEN SubSeq(messages, Len(messages) - Cap + 1, Len(messages))
  ELSE messages

\* load's filter on what the file holds.
Usable(messages) ==
  WithRoles(messages, {"user", "assistant", "system", "tool"})

\* _persist_turn's filter on the messages of the request.
Conversational(messages) ==
  WithRoles(messages, {"user", "assistant", "system"})

\* What a request may carry as turn n: the question, or what a client that
\* replays a tool message sends.
Requests(n) == {<<Message("user", n)>>,
                <<Message("tool", n), Message("user", n)>>}
\* The agent's answer; none when it failed while streaming.
Answers(n) == {<<>>, <<Message("assistant", n)>>}

\* The turns that may be recorded, for the abstract specification.
Recorded == UNION {{<<Message("user", n)>>,
                   <<Message("user", n), Message("assistant", n)>>} :
                     n \in 1..MaxTurns}

-----------------------------------------------------------------------------
(* Building blocks. *)

Goto(w, step) == pc' = [pc EXCEPT ![w] = step]
SetTmp(w, t)  == tmp' = [tmp EXCEPT ![w] = t]

\* The variables of _persist_turn go out of scope.
Return(w) ==
  /\ Goto(w, "idle")
  /\ turn' = [turn EXCEPT ![w] = <<>>]
  /\ combined' = [combined EXCEPT ![w] = <<>>]

NoFault  == UNCHANGED faults
Fault    == faults < MaxFaults /\ faults' = faults + 1
Accident == accidents < MaxAccidents /\ accidents' = accidents + 1

Init ==
  /\ file = Absent /\ littered = FALSE
  /\ tmp = [w \in Writers |-> "none"]
  /\ pc = [w \in Writers |-> "down"]
  /\ enabled = [w \in Writers |-> FALSE]
  /\ turn = [w \in Writers |-> <<>>] /\ combined = [w \in Writers |-> <<>>]
  /\ turns = 0 /\ faults = 0 /\ accidents = 0
  /\ damaged = FALSE /\ overlapped = FALSE

-----------------------------------------------------------------------------
(* A pod starts: HistoryStore's constructor.  A directory that cannot be made
   disables persistence for the life of the process. *)
Start(w) ==
  /\ pc[w] = "down" /\ Goto(w, "idle")
  /\ \/ enabled' = [enabled EXCEPT ![w] = TRUE] /\ NoFault
     \/ enabled' = [enabled EXCEPT ![w] = FALSE] /\ Fault
  /\ UNCHANGED <<file, tmp, littered, locals, turns, accidents, ghosts>>

\* _persist_turn is called with a request and its answer.
PersistTurn(w) ==
  /\ pc[w] = "idle" /\ turns < MaxTurns
  /\ turns' = turns + 1
  /\ IF enabled[w]
     THEN /\ \E request \in Requests(turns + 1), answer \in Answers(turns + 1) :
               turn' = [turn EXCEPT ![w] = Conversational(request) \o answer]
          /\ Goto(w, "load")
          /\ overlapped' = (overlapped \/ \E v \in Writers :
                                            pc[v] \notin {"down", "idle"})
     ELSE UNCHANGED <<turn, pc, overlapped>>
  /\ UNCHANGED <<file, tmp, littered, enabled, combined, faults, accidents, damaged>>

\* load, and the list that save trims.  A file that cannot be read is an empty
\* session; an exception that load does not catch ends _persist_turn.
Load(w) ==
  LET Then(prior) == /\ combined' = [combined EXCEPT
                                       ![w] = Newest(prior \o turn[w])]
                     /\ Goto(w, "mkstemp") /\ UNCHANGED turn
  IN  /\ pc[w] = "load"
      /\ \/ /\ file.state \in {"absent", "whole"}
            /\ Then(Usable(file.messages)) /\ NoFault /\ UNCHANGED damaged
         \/ file.state = "malformed" /\ Then(<<>>) /\ NoFault
            /\ UNCHANGED damaged
         \/ file.state = "misshapen" /\ Return(w) /\ NoFault
            /\ UNCHANGED damaged
         \/ file.state # "absent" /\ Then(<<>>) /\ Fault /\ damaged' = TRUE
         \/ Return(w) /\ Fault /\ UNCHANGED damaged
      /\ UNCHANGED <<file, tmp, littered, enabled, turns, accidents, overlapped>>

\* mkstemp and fdopen.  Their errors leave save; fdopen's removes the file.
Mkstemp(w) ==
  /\ pc[w] = "mkstemp"
  /\ \/ SetTmp(w, "empty") /\ Goto(w, "write") /\ UNCHANGED locals /\ NoFault
     \/ UNCHANGED tmp /\ Return(w) /\ Fault
  /\ UNCHANGED <<file, littered, enabled, turns, accidents, ghosts>>

\* write and flush; a full disk raises OSError, a text with no encoding an
\* exception that save does not catch and that leaves the temporary file.
Write(w) ==
  /\ pc[w] = "write"
  /\ \/ SetTmp(w, "written") /\ Goto(w, "fsync") /\ NoFault
        /\ UNCHANGED <<locals, littered, accidents>>
     \/ SetTmp(w, "partial") /\ Goto(w, "unlink") /\ Fault
        /\ UNCHANGED <<locals, littered, accidents>>
     \/ /\ Accident
        /\ SetTmp(w, "none") /\ littered' = TRUE /\ Return(w) /\ NoFault
  /\ UNCHANGED <<file, enabled, turns, ghosts>>

\* Mutant of Fsync: nothing is forced to the disk.
NoFsync(w) ==
  /\ pc[w] = "fsync" /\ Goto(w, "replace")
  /\ UNCHANGED <<file, tmp, littered, enabled, locals, turns, faults, accidents,
                 ghosts>>

\* fsync is best effort.
Fsync(w) ==
  /\ pc[w] = "fsync" /\ Goto(w, "replace")
  /\ \/ SetTmp(w, "synced") /\ NoFault /\ UNCHANGED damaged
     \/ UNCHANGED tmp /\ Fault /\ damaged' = TRUE
  /\ UNCHANGED <<file, littered, enabled, locals, turns, accidents, overlapped>>

\* os.replace: the temporary file becomes the session's.
Replace(w) ==
  /\ pc[w] = "replace"
  /\ \/ /\ file' = [state |-> "whole", messages |-> combined[w],
                    synced |-> tmp[w] = "synced"]
        /\ SetTmp(w, "none") /\ Return(w) /\ NoFault
     \/ UNCHANGED <<file, tmp, locals>> /\ Goto(w, "unlink") /\ Fault
  /\ UNCHANGED <<littered, enabled, turns, accidents, ghosts>>

\* Mutant of Unlink: the temporary file of a failed save stays.
NoUnlink(w) ==
  /\ pc[w] = "unlink" /\ SetTmp(w, "none") /\ littered' = TRUE /\ Return(w)
  /\ UNCHANGED <<file, enabled, turns, faults, accidents, ghosts>>

\* save's except clause removes the temporary file.
Unlink(w) ==
  /\ pc[w] = "unlink" /\ SetTmp(w, "none") /\ Return(w)
  /\ UNCHANGED <<file, littered, enabled, turns, faults, accidents, ghosts>>

-----------------------------------------------------------------------------
(* The surroundings. *)

\* A pod is killed (rolled, evicted, out of memory) between any two calls.
Die(w) ==
  /\ pc[w] # "down" /\ Accident
  /\ Goto(w, "down") /\ SetTmp(w, "none")
  /\ littered' = (littered \/ tmp[w] # "none")
  /\ enabled' = [enabled EXCEPT ![w] = FALSE]
  /\ turn' = [turn EXCEPT ![w] = <<>>]
  /\ combined' = [combined EXCEPT ![w] = <<>>]
  /\ UNCHANGED <<file, turns, faults, ghosts>>

\* The node dies with all its pods: bytes that were not forced to the disk are
\* gone, the names (the file system's journal) stay.
NodeDies ==
  /\ \E w \in Writers : pc[w] # "down"
  /\ Accident
  /\ pc' = [w \in Writers |-> "down"] /\ tmp' = [w \in Writers |-> "none"]
  /\ littered' = (littered \/ \E w \in Writers : tmp[w] # "none")
  /\ enabled' = [w \in Writers |-> FALSE]
  /\ turn' = [w \in Writers |-> <<>>] /\ combined' = [w \in Writers |-> <<>>]
  /\ file' = IF file.synced THEN file
             ELSE [state |-> "malformed", messages |-> <<>>, synced |-> TRUE]
  /\ UNCHANGED <<turns, faults, ghosts>>

\* Somebody edits the file, or the disk spoils it.
Damage ==
  /\ file.state # "absent" /\ Fault /\ damaged' = TRUE
  /\ \/ \E s \in {"malformed", "misshapen"} :
          file' = [state |-> s, messages |-> <<>>, synced |-> TRUE]
     \/ /\ file.state = "whole"
        /\ file' = [file EXCEPT !.messages = <<Message("other", 0)>> \o @]
  /\ UNCHANGED <<tmp, littered, pc, enabled, locals, turns, accidents,
                 overlapped>>

Next ==
  \/ \E w \in Writers :
       \/ Start(w) \/ PersistTurn(w) \/ Load(w) \/ Mkstemp(w) \/ Write(w)
       \/ Fsync(w) \/ Replace(w) \/ Unlink(w) \/ Die(w)
  \/ NodeDies \/ Damage

Spec == Init /\ [][Next]_vars

-----------------------------------------------------------------------------
(* Properties. *)

\* Type correctness; no list that is written is longer than the cap.
TypeOK ==
  /\ file \in Files /\ tmp \in [Writers -> Tmps] /\ littered \in BOOLEAN
  /\ pc \in [Writers -> {"down", "idle", "load", "mkstemp", "write", "fsync",
                         "replace", "unlink"}]
  /\ enabled \in [Writers -> BOOLEAN]
  /\ turn \in [Writers -> Seq(Messages)]
  /\ combined \in [Writers -> Seq(Messages)]
  /\ \A w \in Writers : Len(combined[w]) <= Cap
  /\ turns \in Nat /\ faults \in Nat /\ accidents \in Nat
  /\ damaged \in BOOLEAN /\ overlapped \in BOOLEAN

\* save is atomic (history.py:118): whatever call fails and whenever a pod or
\* the node dies, and with two pods saving at once, the file is a whole list,
\* unless it was damaged from outside or the disk refused the fsync.
FileIsWhole == ~damaged => file.state \in {"absent", "whole"}

\* A save that fails by itself removes its temporary file: only a death, or an
\* answer that cannot be encoded, leaves one in the volume.
FailedSavesCleanUp == littered => accidents > 0

\* The turn in the hands of a pod, the only one unless two overlap.
InHand ==
  IF overlapped \/ \A w \in Writers : turn[w] = <<>> THEN <<>>
  ELSE turn[CHOOSE w \in Writers : turn[w] # <<>>]

\* The refinement: while the file stays readable and one pod writes at a time,
\* a turn given to _persist_turn is appended whole, without its tool messages,
\* and only the cap trims what was recorded; a turn is lost only after a
\* system call failed or something died, and takes no earlier turn with it.
Log == INSTANCE SessionLog
         WITH Turns <- Recorded,
              log <- IF file.state = "whole" THEN Usable(file.messages)
                     ELSE <<>>,
              pending <- InHand,
              failed <- faults + accidents > 0,
              excused <- damaged \/ overlapped
LogSpec == Log!Spec

-----------------------------------------------------------------------------
(* What the code's comments say of it, and it does not do. *)

\* "We do NOT delete the file (the human can inspect/recover it)"
\* (history.py:100): a file that load could not read stays as it is.
UnreadableFileIsKept ==
  [][file.state = "malformed" /\ faults' = faults => file' = file]_vars
=============================================================================
