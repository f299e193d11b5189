-------------------------- MODULE HistoryStoreProofs --------------------------
(***************************************************************************)
(* HistoryStore for any number of pods, any cap and any bounds: a save is  *)
(* atomic and cleans up after itself, and the store is a SessionLog.       *)
(*                                                                         *)
(* FileIsWhole is not inductive: it needs that what is not yet in place is *)
(* on the disk when it is put there (SavedIsSynced), and that what is in   *)
(* place is on the disk, so that the node may die (FileIsSynced).  For the *)
(* types and the refinement RInv adds what each pod has loaded and is      *)
(* about to write, and which of them has its turn.                         *)
(***************************************************************************)
EXTENDS HistoryStore, FilterTheorems, TLAPS

Locations == {"down", "idle", "load", "mkstemp", "write", "fsync", "replace",
              "unlink"}

\* Of the types, what the proofs need.
Shape == /\ pc \in [Writers -> Locations] /\ tmp \in [Writers -> Tmps]
         /\ accidents \in Nat /\ damaged \in BOOLEAN /\ littered \in BOOLEAN

FileIsSynced  == ~damaged => file.synced
SavedIsSynced == ~damaged => \A w \in Writers : pc[w] = "replace" =>
                                                  tmp[w] = "synced"

IInv == Shape /\ FileIsWhole /\ FileIsSynced /\ SavedIsSynced
        /\ FailedSavesCleanUp

\* A step of one pod that leaves the file alone, and enters "replace" only with
\* a synced temporary file or a warning that the disk refused, keeps what the
\* file needs.
LEMMA Elsewhere ==
  ASSUME IInv, NEW w \in Writers, NEW step \in Locations, NEW t \in Tmps,
         pc' = [pc EXCEPT ![w] = step], tmp' = [tmp EXCEPT ![w] = t],
         UNCHANGED file, damaged' \in BOOLEAN, damaged => damaged',
         step = "replace" => damaged' \/ t = "synced"
  PROVE  /\ FileIsWhole' /\ FileIsSynced' /\ SavedIsSynced'
         /\ pc' \in [Writers -> Locations] /\ tmp' \in [Writers -> Tmps]
  BY DEF IInv, Shape, FileIsWhole, FileIsSynced, SavedIsSynced

\* The invariant holds initially.
LEMMA InitIInv == Init => IInv
<1> SUFFICES ASSUME Init PROVE IInv
  OBVIOUS
<1>1. Shape
  BY DEF Init, Shape, Locations, Tmps
<1>2. file.state = "absent" /\ file.synced
  BY DEF Init, Absent
<1>3. SavedIsSynced /\ FailedSavesCleanUp
  BY DEF Init, SavedIsSynced, FailedSavesCleanUp
<1> QED BY <1>1, <1>2, <1>3 DEF IInv, FileIsWhole, FileIsSynced

\* And every step preserves it.
LEMMA NextIInv == IInv /\ [Next]_vars => IInv'
<1> SUFFICES ASSUME IInv, [Next]_vars PROVE IInv'
  OBVIOUS
<1> USE DEF Goto, SetTmp, Return, NoFault, Fault, Accident, ghosts, locals
<1>1. ASSUME NEW w \in Writers, Start(w) PROVE IInv'
  <2>1. /\ pc' = [pc EXCEPT ![w] = "idle"] /\ tmp' = [tmp EXCEPT ![w] = tmp[w]]
        /\ tmp[w] \in Tmps /\ "idle" \in Locations
    BY <1>1 DEF Start, IInv, Shape, Locations
  <2> QED BY <1>1, <2>1, Elsewhere DEF Start, IInv, Shape, FailedSavesCleanUp
<1>2. ASSUME NEW w \in Writers, PersistTurn(w) PROVE IInv'
  <2>1. PICK step \in Locations \ {"replace"} : pc' = [pc EXCEPT ![w] = step]
    <3>1. CASE enabled[w]
      BY <1>2, <3>1 DEF PersistTurn, Locations
    <3>2. CASE ~enabled[w]
      <4>1. pc[w] = "idle" /\ pc' = pc BY <1>2, <3>2 DEF PersistTurn
      <4>2. pc' = [pc EXCEPT ![w] = "idle"] BY <4>1 DEF IInv, Shape
      <4> QED BY <4>2 DEF Locations
    <3> QED BY <3>1, <3>2
  <2>2. tmp' = [tmp EXCEPT ![w] = tmp[w]] /\ tmp[w] \in Tmps
    BY <1>2 DEF PersistTurn, IInv, Shape
  <2> QED BY <1>2, <2>1, <2>2, Elsewhere
          DEF PersistTurn, IInv, Shape, FailedSavesCleanUp
<1>3. ASSUME NEW w \in Writers, Load(w) PROVE IInv'
  <2>1. PICK step \in Locations \ {"replace"} : pc' = [pc EXCEPT ![w] = step]
    BY <1>3 DEF Load, Locations
  <2>2. tmp' = [tmp EXCEPT ![w] = tmp[w]] /\ tmp[w] \in Tmps
    BY <1>3 DEF Load, IInv, Shape
  <2>3. damaged' \in BOOLEAN /\ (damaged => damaged')
    BY <1>3 DEF Load, IInv, Shape
  <2> QED BY <1>3, <2>1, <2>2, <2>3, Elsewhere
          DEF Load, IInv, Shape, FailedSavesCleanUp
<1>4. ASSUME NEW w \in Writers, Mkstemp(w) PROVE IInv'
  <2>1. PICK step \in Locations \ {"replace"} : pc' = [pc EXCEPT ![w] = step]
    BY <1>4 DEF Mkstemp, Locations
  <2>2. PICK t \in Tmps : tmp' = [tmp EXCEPT ![w] = t]
    <3>1. tmp' = [tmp EXCEPT ![w] = "empty"] \/ tmp' = [tmp EXCEPT ![w] = tmp[w]]
      BY <1>4 DEF Mkstemp, IInv, Shape
    <3> QED BY <3>1 DEF IInv, Shape, Tmps
  <2> QED BY <1>4, <2>1, <2>2, Elsewhere
          DEF Mkstemp, IInv, Shape, FailedSavesCleanUp
<1>5. ASSUME NEW w \in Writers, Write(w) PROVE IInv'
  <2>1. PICK step \in Locations \ {"replace"}, t \in Tmps :
          pc' = [pc EXCEPT ![w] = step] /\ tmp' = [tmp EXCEPT ![w] = t]
    BY <1>5 DEF Write, Locations, Tmps
  <2>2. /\ accidents' \in Nat /\ littered' \in BOOLEAN
        /\ littered' => accidents' > 0
    <3>1. CASE UNCHANGED <<locals, littered, accidents>>
      BY <3>1 DEF IInv, Shape, FailedSavesCleanUp
    <3>2. CASE Accident /\ littered' = TRUE
      BY <3>2 DEF IInv, Shape
    <3> QED BY <1>5, <3>1, <3>2 DEF Write
  <2> QED BY <1>5, <2>1, <2>2, Elsewhere
          DEF Write, IInv, Shape, FailedSavesCleanUp
<1>6. ASSUME NEW w \in Writers, Fsync(w) PROVE IInv'
  <2>1. PICK t \in Tmps : /\ tmp' = [tmp EXCEPT ![w] = t]
                          /\ damaged' \/ t = "synced"
    <3>1. CASE SetTmp(w, "synced")
      BY <3>1 DEF Tmps
    <3>2. CASE UNCHANGED tmp /\ damaged' = TRUE
      BY <3>2 DEF IInv, Shape
    <3> QED BY <1>6, <3>1, <3>2 DEF Fsync
  <2>2. /\ pc' = [pc EXCEPT ![w] = "replace"] /\ "replace" \in Locations
        /\ damaged' \in BOOLEAN /\ (damaged => damaged')
    BY <1>6 DEF Fsync, Locations, IInv, Shape
  <2> QED BY <1>6, <2>1, <2>2, Elsewhere
          DEF Fsync, IInv, Shape, FailedSavesCleanUp
<1>7. ASSUME NEW w \in Writers, Replace(w) PROVE IInv'
  <2>1. CASE UNCHANGED <<file, tmp, locals>> /\ Goto(w, "unlink")
    <3>1. /\ tmp' = [tmp EXCEPT ![w] = tmp[w]] /\ tmp[w] \in Tmps
          /\ "unlink" \in Locations
      BY <2>1 DEF IInv, Shape, Locations
    <3> QED BY <1>7, <2>1, <3>1, Elsewhere
            DEF Replace, IInv, Shape, FailedSavesCleanUp
  <2>2. CASE /\ file' = [state |-> "whole", messages |-> combined[w],
                         synced |-> tmp[w] = "synced"]
             /\ SetTmp(w, "none") /\ Return(w)
    <3>1. file'.state = "whole" /\ file'.synced = (tmp[w] = "synced")
      BY <2>2
    <3>2. pc[w] = "replace" /\ UNCHANGED <<damaged, littered, accidents>>
      BY <1>7 DEF Replace
    <3>3. FileIsSynced' /\ FileIsWhole'
      BY <3>1, <3>2 DEF IInv, SavedIsSynced, FileIsSynced, FileIsWhole
    <3>4. Shape' /\ SavedIsSynced'
      BY <2>2, <3>2 DEF IInv, Shape, SavedIsSynced, Locations, Tmps
    <3> QED BY <3>2, <3>3, <3>4 DEF IInv, FailedSavesCleanUp
  <2> QED BY <1>7, <2>1, <2>2 DEF Replace
<1>8. ASSUME NEW w \in Writers, Unlink(w) PROVE IInv'
  <2>1. "idle" \in Locations /\ "none" \in Tmps
    BY DEF Locations, Tmps
  <2> QED BY <1>8, <2>1, Elsewhere
          DEF Unlink, IInv, Shape, FailedSavesCleanUp
<1>9. ASSUME NEW w \in Writers, Die(w) PROVE IInv'
  <2>1. "down" \in Locations /\ "none" \in Tmps
    BY DEF Locations, Tmps
  <2>2. /\ accidents' \in Nat /\ accidents' > 0 /\ littered' \in BOOLEAN
    BY <1>9 DEF Die, IInv, Shape
  <2> QED BY <1>9, <2>1, <2>2, Elsewhere
          DEF Die, IInv, Shape, FailedSavesCleanUp
<1>10. CASE NodeDies
  <2>1. Shape' /\ accidents' > 0
    BY <1>10 DEF NodeDies, IInv, Shape, Locations, Tmps
  <2>2. SavedIsSynced'
    BY <1>10 DEF NodeDies, SavedIsSynced
  <2>3. FileIsWhole' /\ FileIsSynced'
    BY <1>10 DEF NodeDies, IInv, FileIsWhole, FileIsSynced
  <2> QED BY <2>1, <2>2, <2>3 DEF IInv, FailedSavesCleanUp
<1>11. CASE Damage
  BY <1>11 DEF Damage, IInv, Shape, FileIsWhole, FileIsSynced, SavedIsSynced,
               FailedSavesCleanUp
<1>12. CASE UNCHANGED vars
  BY <1>12 DEF vars, IInv, Shape, FileIsWhole, FileIsSynced, SavedIsSynced,
               FailedSavesCleanUp
<1> QED BY <1>1, <1>2, <1>3, <1>4, <1>5, <1>6, <1>7, <1>8, <1>9, <1>10, <1>11,
           <1>12 DEF Next

\* The invariant holds always.
THEOREM StoreInvariance == Spec => []IInv
<1>1. IInv /\ [Next]_vars => IInv' BY NextIInv
<1> QED BY InitIInv, <1>1, PTL DEF Spec

\* Whatever fails and whoever dies, the session's file is a whole list
\* (save's tmp + fsync + rename), unless it was damaged from outside or the disk
\* refused the fsync.
THEOREM SaveIsAtomic == Spec => []FileIsWhole
<1>1. IInv => FileIsWhole BY DEF IInv
<1> QED BY StoreInvariance, <1>1, PTL

\* Only a death, or an answer that cannot be encoded, leaves a temporary file.
THEOREM SavesCleanUp == Spec => []FailedSavesCleanUp
<1>1. IInv => FailedSavesCleanUp BY DEF IInv
<1> QED BY StoreInvariance, <1>1, PTL

-----------------------------------------------------------------------------
(* The lists that are read, put together and written. *)

\* The roles that load accepts.
Accepted == {"user", "assistant", "system", "tool"}

\* The newest messages of a list are messages of it, Cap at most.
LEMMA NewestIs ==
  ASSUME NEW s \in Seq(Messages)
  PROVE  /\ Newest(s) \in Seq(Messages) /\ Len(Newest(s)) <= Cap
         /\ \A i \in 1..Len(Newest(s)) : \E j \in 1..Len(s) :
              Newest(s)[i] = s[j]
<1>1. Len(s) \in Nat /\ \A j \in 1..Len(s) : s[j] \in Messages
  BY LenProperties, ElementOfSeq
<1>2. CASE Len(s) > Cap
  <2> DEFINE m == Len(s) - Cap + 1
  <2>1. /\ Newest(s) = SubSeq(s, m, Len(s)) /\ m \in Int /\ m >= 1
        /\ Len(s) - m + 1 = Cap /\ m <= Len(s) /\ Len(s) \in Int
    BY <1>1, <1>2, CapAssumption DEF Newest
  <2>2. \A j \in m..Len(s) : s[j] \in Messages
    BY <1>1, <2>1
  <2> HIDE DEF m
  <2>3. /\ Newest(s) \in Seq(Messages) /\ Len(Newest(s)) = Cap
        /\ \A i \in 1..Cap : Newest(s)[i] = s[m + i - 1]
    BY <2>1, <2>2, SubSeqProperties
  <2>4. \A i \in 1..Cap : m + i - 1 \in 1..Len(s)
    BY <1>1, <2>1, CapAssumption
  <2> QED BY <2>3, <2>4, CapAssumption
<1>3. CASE Len(s) <= Cap
  BY <1>1, <1>3, CapAssumption DEF Newest
<1> QED BY <1>1, <1>2, <1>3, CapAssumption

\* What load returns are accepted messages of the file.
LEMMA UsableIs ==
  ASSUME NEW s \in Seq(Messages)
  PROVE  /\ Usable(s) \in Seq(Messages) /\ Len(Usable(s)) <= Len(s)
         /\ \A i \in 1..Len(Usable(s)) : Usable(s)[i].role \in Accepted
<1>1. Usable(s) \in Seq(Messages) /\ Len(Usable(s)) <= Len(s)
  BY WithRolesType DEF Usable
<1>2. \A m \in Range(Usable(s)) : m.role \in Accepted
  BY WithRolesKeeps DEF Usable, Accepted
<1>3. \A i \in 1..Len(Usable(s)) : Usable(s)[i] \in Range(Usable(s))
  BY <1>1, RangeEquality
<1> QED BY <1>1, <1>2, <1>3

\* A list of accepted messages is read as it was written.
LEMMA UsableOfUsable ==
  ASSUME NEW s \in Seq(Messages),
         \A i \in 1..Len(s) : s[i].role \in Accepted
  PROVE  Usable(s) = s
  BY WithRolesOfWhole DEF Usable, Accepted

\* An empty list has no usable message.
LEMMA UsableOfNone == Usable(<<>>) = <<>>
  BY WithRolesOfNone DEF Usable

\* An entry that load drops changes nothing of what it returns.
LEMMA UsableIgnores ==
  ASSUME NEW s \in Seq(Messages)
  PROVE  /\ <<Message("other", 0)>> \o s \in Seq(Messages)
         /\ Usable(<<Message("other", 0)>> \o s) = Usable(s)
<1> DEFINE m == Message("other", 0)
           roles == {"user", "assistant", "system", "tool"}
<1>1. m \in Messages /\ m.role \notin roles
  BY DEF Message, Messages, Roles
<1>2. Usable(<<m>> \o s) = WithRoles(<<m>> \o s, roles)
      /\ Usable(s) = WithRoles(s, roles)
  BY DEF Usable
<1> HIDE DEF m, roles
<1>3. <<m>> \in Seq(Messages) /\ <<m>> = Append(<<>>, m)
      /\ <<>> \in Seq(Messages)
  BY <1>1
<1>4. WithRoles(Append(<<>>, m), roles) = WithRoles(<<>>, roles)
  BY <1>1, <1>3, WithRolesOfAppend
<1>5. WithRoles(<<m>>, roles) = <<>>
  BY <1>3, <1>4, WithRolesOfNone
<1>6. WithRoles(<<m>> \o s, roles) =
        WithRoles(<<m>>, roles) \o WithRoles(s, roles)
  BY <1>3, WithRolesOfConcat
<1>7. <<>> \o Usable(s) = Usable(s) /\ <<m>> \o s \in Seq(Messages)
  BY <1>3, UsableIs, ConcatEmptySeq, ConcatProperties
<1> QED BY <1>2, <1>5, <1>6, <1>7 DEF m

\* A turn that may be recorded is a list of accepted messages, and not empty.
LEMMA RecordedIs ==
  ASSUME NEW t \in Recorded
  PROVE  /\ t \in Seq(Messages) /\ t # <<>>
         /\ \A i \in 1..Len(t) : t[i].role \in Accepted
<1>1. PICK n \in 1..MaxTurns :
        t \in {<<Message("user", n)>>,
              <<Message("user", n), Message("assistant", n)>>}
  BY DEF Recorded
<1> DEFINE user == Message("user", n)
           assistant == Message("assistant", n)
<1>2. /\ user \in Messages /\ assistant \in Messages
      /\ user.role \in Accepted /\ assistant.role \in Accepted
  BY BoundsAssumption DEF Message, Messages, Roles, Accepted
<1>3. t = <<user>> \/ t = <<user, assistant>>
  BY <1>1
<1> HIDE DEF user, assistant
<1>4. CASE t = <<user>>
  <2>1. Len(t) = 1 /\ t[1] = user /\ t \in Seq(Messages) /\ t # <<>>
    BY <1>2, <1>4
  <2>2. \A i \in 1..Len(t) : i = 1
    BY <2>1
  <2> QED BY <1>2, <2>1, <2>2
<1>5. CASE t = <<user, assistant>>
  <2>1. /\ Len(t) = 2 /\ t[1] = user /\ t[2] = assistant
        /\ t \in Seq(Messages) /\ t # <<>>
    BY <1>2, <1>5
  <2>2. \A i \in 1..Len(t) : i = 1 \/ i = 2
    BY <2>1
  <2> QED BY <1>2, <2>1, <2>2
<1> QED BY <1>3, <1>4, <1>5

\* What _persist_turn makes of a request and its answer: without the tool
\* message, a turn that may be recorded.
LEMMA TurnIsRecorded ==
  ASSUME NEW n \in 1..MaxTurns, NEW request \in Requests(n),
         NEW answer \in Answers(n)
  PROVE  Conversational(request) \o answer \in Recorded
<1> DEFINE user == Message("user", n)
           tool == Message("tool", n)
           assistant == Message("assistant", n)
           roles == {"user", "assistant", "system"}
<1>1. /\ user \in Messages /\ tool \in Messages /\ assistant \in Messages
      /\ user.role \in roles /\ tool.role \notin roles
  BY BoundsAssumption DEF Message, Messages, Roles
<1>2. /\ request \in {<<user>>, <<tool, user>>}
      /\ answer \in {<<>>, <<assistant>>}
      /\ Conversational(request) = WithRoles(request, roles)
      /\ <<user>> \in Recorded /\ <<user, assistant>> \in Recorded
  BY DEF Requests, Answers, Conversational, Recorded
<1> HIDE DEF user, tool, assistant, roles
<1>3. /\ <<>> \in Seq(Messages)
      /\ <<user>> = Append(<<>>, user) /\ <<tool>> = Append(<<>>, tool)
      /\ <<tool>> \in Seq(Messages)
      /\ <<tool, user>> = Append(<<tool>>, user)
  BY <1>1
<1>4. WithRoles(<<>>, roles) = <<>>
  BY WithRolesOfNone
<1>5. WithRoles(<<tool>>, roles) = <<>>
  <2>1. WithRoles(Append(<<>>, tool), roles) = WithRoles(<<>>, roles)
    BY <1>1, <1>3, WithRolesOfAppend
  <2> QED BY <1>3, <1>4, <2>1
<1>6. WithRoles(Append(<<>>, user), roles) = Append(<<>>, user)
  BY <1>1, <1>3, <1>4, WithRolesOfAppend
<1>7. WithRoles(Append(<<tool>>, user), roles) = Append(<<>>, user)
  <2>1. WithRoles(Append(<<tool>>, user), roles) =
          Append(WithRoles(<<tool>>, roles), user)
    BY <1>1, <1>3, WithRolesOfAppend
  <2> QED BY <1>5, <2>1
<1>8. Conversational(request) = <<user>>
  BY <1>2, <1>3, <1>6, <1>7
<1>9. <<user>> \in Seq(Messages)
      /\ <<user, assistant>> = Append(<<user>>, assistant)
  BY <1>1
<1>10. /\ <<user>> \o <<>> = <<user>>
       /\ <<user>> \o <<assistant>> = <<user, assistant>>
  BY <1>1, <1>9, ConcatEmptySeq, AppendIsConcat
<1> QED BY <1>2, <1>8, <1>10

-----------------------------------------------------------------------------
(* Types, and what the refinement needs: what is in the hands of each pod   *)
(* is a turn that may be recorded, and what it is about to write is what    *)
(* the file holds and this turn.                                            *)

Busy(w) == pc[w] \notin {"down", "idle"}

\* Where _persist_turn has read the file and has still to replace it.
Saving == {"mkstemp", "write", "fsync", "replace"}

\* Of one pod: its turn, the list it writes, and why it would clean up.
PodInv(w) ==
  /\ IF Busy(w) THEN turn[w] \in Recorded ELSE turn[w] = <<>>
  /\ combined[w] \in Seq(Messages) /\ Len(combined[w]) <= Cap
  /\ \A i \in 1..Len(combined[w]) : combined[w][i].role \in Accepted
  /\ ~damaged /\ ~overlapped /\ pc[w] \in Saving =>
       combined[w] = Newest(Usable(file.messages) \o turn[w])
  /\ pc[w] = "unlink" => faults > 0

OneAtATime ==
  ~overlapped => \A v, w \in Writers : Busy(v) /\ Busy(w) => v = w

\* What the file holds fits the cap, as load counts it.
FileFits == /\ file.state # "whole" => file.messages = <<>>
            /\ Len(Usable(file.messages)) <= Cap

\* The types of the pods' variables, as far as PodInv does not give them.
Arrays ==
  /\ pc \in [Writers -> Locations]
  /\ DOMAIN turn = Writers /\ turn = [w \in Writers |-> turn[w]]
  /\ DOMAIN combined = Writers
  /\ combined = [w \in Writers |-> combined[w]]

PodsInv == Arrays /\ FileFits /\ OneAtATime /\ \A w \in Writers : PodInv(w)

\* The rest of the types.
Rest ==
  /\ file \in Files /\ tmp \in [Writers -> Tmps] /\ littered \in BOOLEAN
  /\ enabled \in [Writers -> BOOLEAN]
  /\ turns \in Nat /\ faults \in Nat /\ accidents \in Nat
  /\ damaged \in BOOLEAN /\ overlapped \in BOOLEAN

RInv == IInv /\ PodsInv /\ Rest

\* The types follow.
LEMMA RInvTypes == RInv => TypeOK
<1> SUFFICES ASSUME RInv PROVE TypeOK
  OBVIOUS
<1>1. \A w \in Writers : /\ turn[w] \in Seq(Messages)
                         /\ combined[w] \in Seq(Messages)
                         /\ Len(combined[w]) <= Cap
  <2> SUFFICES ASSUME NEW w \in Writers
               PROVE  /\ turn[w] \in Seq(Messages)
                      /\ combined[w] \in Seq(Messages)
                      /\ Len(combined[w]) <= Cap
    OBVIOUS
  <2>1. PodInv(w)
    BY DEF RInv, PodsInv
  <2>2. turn[w] \in Seq(Messages)
    BY <2>1, RecordedIs, EmptySeq DEF PodInv
  <2> QED BY <2>1, <2>2 DEF PodInv
<1>2. /\ turn \in [Writers -> Seq(Messages)]
      /\ combined \in [Writers -> Seq(Messages)]
  BY <1>1 DEF RInv, PodsInv, Arrays
<1> QED BY <1>1, <1>2 DEF RInv, PodsInv, Arrays, Rest, TypeOK, Locations

\* A step of pod w that leaves the file alone: the others stay as they are,
\* it is enough to look at w.
LEMMA PodMoves ==
  ASSUME RInv, NEW w \in Writers, NEW step \in Locations, NEW t, NEW c,
         pc' = [pc EXCEPT ![w] = step], turn' = [turn EXCEPT ![w] = t],
         combined' = [combined EXCEPT ![w] = c],
         file' = file, faults' \in Nat, faults <= faults',
         damaged => damaged', overlapped => overlapped',
         /\ pc'[w] = step /\ turn'[w] = t /\ combined'[w] = c => PodInv(w)',
         ~overlapped' /\ step \notin {"down", "idle"} =>
           Busy(w) \/ \A v \in Writers : ~Busy(v)
  PROVE  PodsInv'
<1>0. /\ pc'[w] = step /\ turn'[w] = t /\ combined'[w] = c
      /\ \A v \in Writers : v # w => pc'[v] = pc[v]
  BY DEF RInv, PodsInv, Arrays
<1>1. FileFits' /\ PodInv(w)'
  BY <1>0 DEF RInv, PodsInv, FileFits
<1>2. ASSUME NEW v \in Writers, v # w
      PROVE  PodInv(v)'
  <2>1. /\ pc'[v] = pc[v] /\ turn'[v] = turn[v]
        /\ combined'[v] = combined[v] /\ PodInv(v)
    BY <1>2 DEF RInv, PodsInv, Arrays
  <2>2. faults > 0 => faults' > 0
    BY DEF RInv, Rest
  <2> QED BY <2>1, <2>2 DEF PodInv, Busy
<1>3. OneAtATime'
  <2> SUFFICES ASSUME ~overlapped', NEW u \in Writers, NEW v \in Writers,
                      Busy(u)', Busy(v)', u # v
               PROVE  FALSE
    BY DEF OneAtATime
  <2>1. \A x, y \in Writers : Busy(x) /\ Busy(y) => x = y
    BY DEF RInv, PodsInv, OneAtATime
  <2> QED BY <1>0, <2>1 DEF Busy
<1>4. Arrays'
  BY DEF RInv, PodsInv, Arrays
<1> QED BY <1>1, <1>2, <1>3, <1>4 DEF PodsInv

\* A pod with nothing in its hands.
LEMMA AtRest ==
  ASSUME NEW w \in Writers, pc'[w] \in {"down", "idle"}, turn'[w] = <<>>,
         combined'[w] = <<>>
  PROVE  PodInv(w)'
<1>1. <<>> \in Seq(Messages) /\ Len(<<>>) = 0 /\ 0 <= Cap
  BY EmptySeq, CapAssumption
<1>2. \A i \in 1..Len(<<>>) : FALSE
  BY <1>1
<1> QED BY <1>1, <1>2 DEF PodInv, Busy, Saving

\* _persist_turn ends and the file is as it was.
LEMMA Returns ==
  ASSUME RInv, NEW w \in Writers, Return(w), file' = file,
         faults' \in Nat, faults <= faults', damaged => damaged',
         overlapped => overlapped'
  PROVE  PodsInv'
<1>1. /\ pc' = [pc EXCEPT ![w] = "idle"] /\ "idle" \in Locations
      /\ turn' = [turn EXCEPT ![w] = <<>>]
      /\ combined' = [combined EXCEPT ![w] = <<>>]
  BY DEF Return, Goto, Locations
<1>2. pc'[w] = "idle" /\ turn'[w] = <<>> /\ combined'[w] = <<>> => PodInv(w)'
  BY AtRest
<1> QED BY <1>1, <1>2, PodMoves

\* _persist_turn goes on with the turn and the list it has.
LEMMA GoesOn ==
  ASSUME RInv, NEW w \in Writers, NEW step \in Locations, Goto(w, step),
         UNCHANGED <<turn, combined, file, overlapped>>,
         faults' \in Nat, faults <= faults', damaged => damaged',
         pc[w] \in Saving, step \in Saving \cup {"unlink"},
         step = "unlink" => faults' > 0
  PROVE  PodsInv'
<1>1. /\ pc' = [pc EXCEPT ![w] = step]
      /\ turn' = [turn EXCEPT ![w] = turn[w]]
      /\ combined' = [combined EXCEPT ![w] = combined[w]]
      /\ Busy(w) /\ PodInv(w)
  BY DEF Goto, RInv, PodsInv, Arrays, Saving, Busy
<1>2. pc'[w] = step /\ turn'[w] = turn[w] /\ combined'[w] = combined[w]
      => PodInv(w)'
  BY <1>1 DEF PodInv, Busy, Saving
<1> QED BY <1>1, <1>2, PodMoves

\* No file, and no pod at work.
LEMMA InitRInv == Init => RInv
<1> SUFFICES ASSUME Init PROVE RInv
  OBVIOUS
<1>1. IInv
  BY InitIInv
<1>2. \A i \in 1..Len(<<>>) : FALSE
  BY EmptySeq
<1>3. <<>> \in Seq(Messages) /\ Len(<<>>) <= Cap
  BY EmptySeq, CapAssumption
<1>4. Arrays /\ Rest
  BY <1>1, <1>3 DEF Init, Arrays, Rest, IInv, Shape, Files, Absent, States
<1>5. FileFits
  BY <1>3, UsableOfNone DEF Init, Absent, FileFits
<1>6. \A w \in Writers : PodInv(w)
  BY <1>2, <1>3 DEF Init, PodInv, Busy, Saving
<1>7. OneAtATime
  BY DEF Init, OneAtATime, Busy
<1> QED BY <1>1, <1>4, <1>5, <1>6, <1>7 DEF RInv, PodsInv

\* What is to be written is what load returns and the turn.
LEMMA ListIs ==
  ASSUME NEW s \in Seq(Messages), NEW t \in Recorded,
         \A i \in 1..Len(s) : s[i].role \in Accepted
  PROVE  LET c == Newest(s \o t)
         IN  /\ c \in Seq(Messages) /\ Len(c) <= Cap
             /\ \A i \in 1..Len(c) : c[i].role \in Accepted
<1> DEFINE u == s \o t
<1>1. /\ t \in Seq(Messages) /\ Len(s) \in Nat /\ Len(t) \in Nat
      /\ \A i \in 1..Len(t) : t[i].role \in Accepted
  BY RecordedIs, LenProperties
<1>2. /\ u \in Seq(Messages) /\ Len(u) = Len(s) + Len(t)
      /\ \A i \in 1..Len(s) + Len(t) :
           u[i] = IF i <= Len(s) THEN s[i] ELSE t[i - Len(s)]
  BY <1>1, ConcatProperties
<1> HIDE DEF u
<1>3. ASSUME NEW i \in 1..Len(u) PROVE u[i].role \in Accepted
  <2>1. CASE i <= Len(s)
    <3>1. i \in 1..Len(s) /\ u[i] = s[i]
      BY <1>1, <1>2, <2>1
    <3> QED BY <3>1
  <2>2. CASE i > Len(s)
    <3>1. i - Len(s) \in 1..Len(t) /\ u[i] = t[i - Len(s)]
      BY <1>1, <1>2, <2>2
    <3> QED BY <1>1, <3>1
  <2> QED BY <1>1, <1>2, <2>1, <2>2
<1>4. /\ Newest(u) \in Seq(Messages) /\ Len(Newest(u)) <= Cap
      /\ \A i \in 1..Len(Newest(u)) : \E j \in 1..Len(u) :
           Newest(u)[i] = u[j]
  BY <1>2, NewestIs
<1> QED BY <1>3, <1>4 DEF u

\* Every step preserves the invariant.
LEMMA NextRInv == RInv /\ [Next]_vars => RInv'
<1> SUFFICES ASSUME RInv, [Next]_vars PROVE RInv'
  OBVIOUS
<1>0. IInv'
  BY NextIInv DEF RInv
<1>r. PodsInv /\ Arrays /\ Rest /\ \A w \in Writers : PodInv(w)
  BY DEF RInv, PodsInv
<1> USE DEF Goto, SetTmp, Return, NoFault, Fault, Accident, ghosts, locals
<1>1. ASSUME NEW w \in Writers, Start(w) PROVE RInv'
  <2>1. Rest'
    <3>1. enabled' \in [Writers -> BOOLEAN]
      BY <1>1, <1>r DEF Start, Rest
    <3>2. faults' \in Nat
      BY <1>1, <1>r DEF Start, Rest
    <3>3. UNCHANGED <<file, tmp, littered, turns, accidents, damaged, overlapped>>
      BY <1>1 DEF Start
    <3> QED BY <1>r, <3>1, <3>2, <3>3 DEF Rest
  <2>2. /\ pc' = [pc EXCEPT ![w] = "idle"] /\ "idle" \in Locations
        /\ turn' = [turn EXCEPT ![w] = turn[w]]
        /\ combined' = [combined EXCEPT ![w] = combined[w]]
        /\ file' = file /\ pc[w] = "down" /\ UNCHANGED <<damaged, overlapped>>
    BY <1>1, <1>r DEF Start, Arrays, Locations
  <2>3. faults' \in Nat /\ faults <= faults'
    BY <1>1, <1>r DEF Start, Rest
  <2>4. pc'[w] = "idle" /\ turn'[w] = turn[w] /\ combined'[w] = combined[w]
        => PodInv(w)'
    BY <1>r, <2>2 DEF PodInv, Busy, Saving
  <2>5. PodsInv'
    BY <2>2, <2>3, <2>4, PodMoves
  <2> QED BY <1>0, <2>1, <2>5 DEF RInv
<1>2. ASSUME NEW w \in Writers, PersistTurn(w) PROVE RInv'
  <2>1. Rest'
    <3>1. overlapped' \in BOOLEAN
      BY <1>2, <1>r DEF PersistTurn, Rest
    <3>2. /\ UNCHANGED <<file, tmp, littered, enabled, faults, accidents,
                         damaged>>
          /\ turns' = turns + 1
      BY <1>2 DEF PersistTurn
    <3>3. turns' \in Nat /\ accidents' \in Nat /\ damaged' \in BOOLEAN
      BY <1>r, <3>2 DEF Rest
    <3> QED BY <1>r, <3>1, <3>2, <3>3 DEF Rest
  <2>2. CASE ~enabled[w]
    <3>1. UNCHANGED <<file, turn, pc, combined, faults, damaged, overlapped>>
      BY <1>2, <2>2 DEF PersistTurn
    <3>2. PodsInv'
      BY <1>r, <3>1 DEF PodsInv, Arrays, FileFits, OneAtATime, PodInv, Busy
    <3> QED BY <1>0, <2>1, <3>2 DEF RInv
  <2>3. CASE enabled[w]
    <3>1. PICK request \in Requests(turns + 1), answer \in Answers(turns + 1) :
            turn' = [turn EXCEPT ![w] = Conversational(request) \o answer]
      BY <1>2, <2>3 DEF PersistTurn
    <3> DEFINE t == Conversational(request) \o answer
    <3>2. turns + 1 \in 1..MaxTurns
      BY <1>2, <1>r, BoundsAssumption DEF PersistTurn, Rest
    <3>3. t \in Recorded
      BY <3>2, TurnIsRecorded
    <3>4. turn' = [turn EXCEPT ![w] = t]
      BY <3>1
    <3> HIDE DEF t
    <3>5. /\ pc' = [pc EXCEPT ![w] = "load"] /\ "load" \in Locations
          /\ combined' = [combined EXCEPT ![w] = combined[w]]
          /\ file' = file /\ faults' = faults /\ damaged' = damaged
          /\ pc[w] = "idle"
      BY <1>2, <1>r, <2>3 DEF PersistTurn, Arrays, Locations
    <3>6. overlapped' = (overlapped \/ \E v \in Writers : Busy(v))
      BY <1>2, <2>3 DEF PersistTurn, Busy
    <3>7. pc'[w] = "load" /\ turn'[w] = t /\ combined'[w] = combined[w]
          => PodInv(w)'
      BY <1>r, <3>3 DEF PodInv, Busy, Saving
    <3>8. faults' \in Nat /\ faults <= faults'
      BY <1>r, <3>5 DEF Rest
    <3>9. PodsInv'
      BY <3>4, <3>5, <3>6, <3>7, <3>8, PodMoves
    <3> QED BY <1>0, <2>1, <3>9 DEF RInv
  <2> QED BY <2>2, <2>3
<1>3. ASSUME NEW w \in Writers, Load(w) PROVE RInv'
  <2>0. /\ UNCHANGED <<file, tmp, littered, enabled, turns, accidents, overlapped>>
        /\ pc[w] = "load" /\ (damaged' = damaged \/ damaged' = TRUE)
        /\ (UNCHANGED faults \/ Fault)
    BY <1>3 DEF Load
  <2>1. /\ UNCHANGED <<file, overlapped>> /\ pc[w] = "load"
        /\ (damaged => damaged') /\ faults' \in Nat /\ faults <= faults'
    BY <1>r, <2>0 DEF Rest
  <2>2. Rest'
    BY <1>r, <2>0, <2>1 DEF Rest
  <2>3. CASE Return(w)
    <3>1. PodsInv'
      BY <2>1, <2>3, Returns
    <3> QED BY <1>0, <2>2, <3>1 DEF RInv
  <2>4. ASSUME NEW prior \in {Usable(file.messages), <<>>},
               /\ combined' = [combined EXCEPT ![w] = Newest(prior \o turn[w])]
               /\ Goto(w, "mkstemp") /\ UNCHANGED turn,
               prior = Usable(file.messages) \/ damaged'
        PROVE  RInv'
    <3> DEFINE c == Newest(prior \o turn[w])
    <3>1. /\ prior \in Seq(Messages)
          /\ \A i \in 1..Len(prior) : prior[i].role \in Accepted
      <4>1. CASE prior = <<>>
        BY <4>1, EmptySeq
      <4>2. CASE prior = Usable(file.messages)
        <5>1. file.messages \in Seq(Messages)
          BY <1>r DEF Rest, Files
        <5> QED BY <4>2, <5>1, UsableIs
      <4> QED BY <4>1, <4>2
    <3>2. turn[w] \in Recorded /\ Busy(w)
      BY <1>r, <2>1 DEF PodInv, Busy
    <3>3. /\ c \in Seq(Messages) /\ Len(c) <= Cap
          /\ \A i \in 1..Len(c) : c[i].role \in Accepted
      BY <3>1, <3>2, ListIs
    <3>4. /\ ~damaged' => c = Newest(Usable(file.messages) \o turn[w])
          /\ combined' = [combined EXCEPT ![w] = c]
      BY <2>4
    <3> HIDE DEF c
    <3>5. /\ pc' = [pc EXCEPT ![w] = "mkstemp"] /\ "mkstemp" \in Locations
          /\ turn' = [turn EXCEPT ![w] = turn[w]]
      BY <1>r, <2>4 DEF Arrays, Locations
    <3>6. pc'[w] = "mkstemp" /\ turn'[w] = turn[w] /\ combined'[w] = c
          => PodInv(w)'
      BY <2>1, <3>2, <3>3, <3>4 DEF PodInv, Busy, Saving
    <3>7. PodsInv'
      BY <2>1, <3>2, <3>4, <3>5, <3>6, PodMoves
    <3> QED BY <1>0, <2>2, <3>7 DEF RInv
  <2>5. file.state = "malformed" => damaged
    BY DEF RInv, IInv, FileIsWhole
  <2> QED BY <1>3, <2>1, <2>3, <2>4, <2>5 DEF Load
<1>4. ASSUME NEW w \in Writers, Mkstemp(w) PROVE RInv'
  <2>1. /\ UNCHANGED <<file, damaged, overlapped>>
        /\ pc[w] = "mkstemp" /\ faults' \in Nat /\ faults <= faults'
    BY <1>4, <1>r DEF Mkstemp, Rest
  <2>2. tmp' \in [Writers -> Tmps]
    BY <1>4, <1>r DEF Mkstemp, Rest, Tmps
  <2>3. Rest'
    BY <1>4, <1>r, <2>1, <2>2 DEF Mkstemp, Rest
  <2>4. CASE Return(w)
    BY <1>0, <2>1, <2>3, <2>4, Returns DEF RInv
  <2>5. CASE Goto(w, "write") /\ UNCHANGED locals
    <3>1. PodsInv'
      BY <2>1, <2>5, GoesOn DEF Saving, Locations
    <3> QED BY <1>0, <2>3, <3>1 DEF RInv
  <2> QED BY <1>4, <2>4, <2>5 DEF Mkstemp
<1>5. ASSUME NEW w \in Writers, Write(w) PROVE RInv'
  <2>1. /\ UNCHANGED <<file, enabled, turns, damaged, overlapped>>
        /\ pc[w] = "write" /\ faults' \in Nat /\ faults <= faults'
    BY <1>5, <1>r DEF Write, Rest
  <2>2. tmp' \in [Writers -> Tmps]
    BY <1>5, <1>r DEF Write, Rest, Tmps
  <2>3. accidents' \in Nat /\ littered' \in BOOLEAN
    <3>1. UNCHANGED <<littered, accidents>> \/ (Accident /\ littered' = TRUE)
      BY <1>5 DEF Write
    <3>2. accidents' \in Nat
      BY <1>r, <3>1 DEF Rest
    <3>3. littered' \in BOOLEAN
      BY <1>r, <3>1 DEF Rest
    <3> QED BY <3>2, <3>3
  <2>4. Rest'
    BY <1>r, <2>1, <2>2, <2>3 DEF Rest
  <2>5. CASE Return(w)
    BY <1>0, <2>1, <2>4, <2>5, Returns DEF RInv
  <2>6. CASE Goto(w, "fsync") /\ UNCHANGED locals
    <3>1. PodsInv'
      BY <2>1, <2>6, GoesOn DEF Saving, Locations
    <3> QED BY <1>0, <2>4, <3>1 DEF RInv
  <2>7. CASE Goto(w, "unlink") /\ Fault /\ UNCHANGED locals
    <3>1. faults' > 0
      BY <1>r, <2>7 DEF Rest
    <3>2. PodsInv'
      BY <2>1, <2>7, <3>1, GoesOn DEF Saving, Locations
    <3> QED BY <1>0, <2>4, <3>2 DEF RInv
  <2> QED BY <1>5, <2>5, <2>6, <2>7 DEF Write
<1>6. ASSUME NEW w \in Writers, Fsync(w) PROVE RInv'
  <2>1. /\ UNCHANGED <<file, littered, enabled, turn, combined, turns, accidents,
                       overlapped>>
        /\ Goto(w, "replace") /\ pc[w] = "fsync"
    BY <1>6 DEF Fsync
  <2>2. /\ tmp' \in [Writers -> Tmps] /\ faults' \in Nat /\ faults <= faults'
    BY <1>6, <1>r DEF Fsync, Rest, Tmps
  <2>3. damaged' = damaged \/ damaged' = TRUE
    BY <1>6 DEF Fsync
  <2>4. Rest'
    BY <1>r, <2>1, <2>2, <2>3 DEF Rest
  <2>5. PodsInv'
    <3>1. damaged => damaged'
      BY <2>3
    <3>2. "replace" \in Locations /\ pc[w] \in Saving /\ "replace" \in Saving
      BY <2>1 DEF Saving, Locations
    <3> QED BY <2>1, <2>2, <3>1, <3>2, GoesOn
  <2> QED BY <1>0, <2>4, <2>5 DEF RInv
<1>7. ASSUME NEW w \in Writers, Replace(w) PROVE RInv'
  <2>1. /\ UNCHANGED <<littered, enabled, turns, accidents, damaged, overlapped>>
        /\ pc[w] = "replace" /\ faults' \in Nat /\ faults <= faults'
    BY <1>7, <1>r DEF Replace, Rest
  <2>2. CASE UNCHANGED <<file, tmp, locals>> /\ Goto(w, "unlink") /\ Fault
    <3>1. Rest' /\ faults' > 0
      BY <1>r, <2>1, <2>2 DEF Rest
    <3>2. PodsInv'
      BY <2>1, <2>2, <3>1, GoesOn DEF Saving, Locations
    <3> QED BY <1>0, <3>1, <3>2 DEF RInv
  <2>3. CASE /\ file' = [state |-> "whole", messages |-> combined[w],
                         synced |-> tmp[w] = "synced"]
             /\ SetTmp(w, "none") /\ Return(w) /\ NoFault
    <3>1. /\ combined[w] \in Seq(Messages) /\ Len(combined[w]) <= Cap
          /\ Usable(combined[w]) = combined[w]
      <4>1. /\ combined[w] \in Seq(Messages) /\ Len(combined[w]) <= Cap
            /\ \A i \in 1..Len(combined[w]) : combined[w][i].role \in Accepted
        BY <1>r DEF PodInv
      <4> QED BY <4>1, UsableOfUsable
    <3>2. file' \in Files /\ tmp' \in [Writers -> Tmps]
      BY <1>r, <2>3, <3>1 DEF Rest, Files, States, Tmps
    <3>3. Rest'
      BY <1>r, <2>1, <3>2 DEF Rest
    <3>4. FileFits'
      BY <2>3, <3>1 DEF FileFits
    <3>5. /\ pc'[w] = "idle" /\ turn'[w] = <<>> /\ combined'[w] = <<>>
          /\ \A v \in Writers : v # w => /\ pc'[v] = pc[v]
                                         /\ turn'[v] = turn[v]
                                         /\ combined'[v] = combined[v]
      BY <1>r, <2>3 DEF Arrays
    <3>6. PodInv(w)'
      BY <3>5, AtRest
    <3>7. ASSUME NEW v \in Writers, v # w PROVE PodInv(v)'
      <4>1. PodInv(v) /\ faults' = faults
        BY <1>r, <2>3
      <4>2. ~overlapped' => ~Busy(v)
        BY <1>r, <2>1, <3>7 DEF PodsInv, OneAtATime, Busy
      <4>3. ~overlapped' => pc[v] \notin Saving
        BY <4>2 DEF Busy, Saving
      <4> QED BY <3>5, <3>7, <4>1, <4>3 DEF PodInv, Busy
    <3>8. OneAtATime'
      BY <1>r, <2>1, <3>5 DEF PodsInv, OneAtATime, Busy
    <3>9. Arrays'
      BY <1>r, <2>3 DEF Arrays, Locations
    <3> QED BY <1>0, <3>3, <3>4, <3>6, <3>7, <3>8, <3>9 DEF RInv, PodsInv
  <2> QED BY <1>7, <2>2, <2>3 DEF Replace
<1>8. ASSUME NEW w \in Writers, Unlink(w) PROVE RInv'
  <2>1. Rest'
    BY <1>8, <1>r DEF Unlink, Rest, Tmps
  <2>2. faults' \in Nat /\ faults <= faults'
    BY <1>8, <1>r DEF Unlink, Rest
  <2>3. PodsInv'
    BY <1>8, <2>2, Returns DEF Unlink
  <2> QED BY <1>0, <2>1, <2>3 DEF RInv
<1>9. ASSUME NEW w \in Writers, Die(w) PROVE RInv'
  <2>1. littered' \in BOOLEAN
    BY <1>9, <1>r DEF Die, Rest
  <2>2. /\ UNCHANGED <<file, turns, faults, damaged, overlapped>>
        /\ accidents' \in Nat /\ tmp' \in [Writers -> Tmps]
        /\ enabled' \in [Writers -> BOOLEAN]
    BY <1>9, <1>r DEF Die, Rest, Tmps
  <2>3. Rest'
    BY <1>r, <2>1, <2>2 DEF Rest
  <2>4. /\ pc' = [pc EXCEPT ![w] = "down"] /\ "down" \in Locations
        /\ turn' = [turn EXCEPT ![w] = <<>>]
        /\ combined' = [combined EXCEPT ![w] = <<>>]
    BY <1>9 DEF Die, Locations
  <2>5. pc'[w] = "down" /\ turn'[w] = <<>> /\ combined'[w] = <<>>
        => PodInv(w)'
    BY AtRest
  <2>6. faults' \in Nat /\ faults <= faults'
    BY <1>r, <2>2 DEF Rest
  <2>7. PodsInv'
    BY <2>2, <2>4, <2>5, <2>6, PodMoves
  <2> QED BY <1>0, <2>3, <2>7 DEF RInv
<1>10. CASE NodeDies
  <2>1. littered' \in BOOLEAN
    BY <1>10, <1>r DEF NodeDies, Rest
  <2>2. <<>> \in Seq(Messages)
    BY EmptySeq
  <2>3. file' \in Files
    BY <1>10, <1>r, <2>2 DEF NodeDies, Rest, Files, States
  <2>4. /\ UNCHANGED <<turns, faults, damaged, overlapped>>
        /\ accidents' \in Nat /\ tmp' \in [Writers -> Tmps]
        /\ enabled' \in [Writers -> BOOLEAN]
    BY <1>10, <1>r DEF NodeDies, Rest, Tmps
  <2>5. Rest'
    BY <1>r, <2>1, <2>3, <2>4 DEF Rest
  <2>6. FileFits'
    <3>1. CASE file' = file
      BY <1>r, <3>1 DEF PodsInv, FileFits
    <3>2. CASE file' = [state |-> "malformed", messages |-> <<>>,
                        synced |-> TRUE]
      BY <3>2, UsableOfNone, EmptySeq, CapAssumption DEF FileFits
    <3> QED BY <1>10, <3>1, <3>2 DEF NodeDies
  <2>7. \A w \in Writers : /\ pc'[w] = "down" /\ turn'[w] = <<>>
                           /\ combined'[w] = <<>>
    BY <1>10 DEF NodeDies
  <2>8. \A w \in Writers : PodInv(w)'
    BY <2>7, AtRest
  <2>9. OneAtATime'
    BY <2>7 DEF OneAtATime, Busy
  <2>10. Arrays'
    BY <1>10 DEF NodeDies, Arrays, Locations
  <2> QED BY <1>0, <2>5, <2>6, <2>8, <2>9, <2>10 DEF RInv, PodsInv
<1>11. CASE Damage
  <2>1. /\ UNCHANGED <<tmp, littered, pc, enabled, turn, combined, turns,
                       accidents, overlapped>>
        /\ damaged' = TRUE /\ faults' \in Nat /\ faults <= faults'
    BY <1>11, <1>r DEF Damage, Rest
  <2>2. file' \in Files /\ FileFits'
    <3>1. file.messages \in Seq(Messages) /\ file \in Files
      BY <1>r DEF Rest, Files
    <3>2. CASE \E s \in {"malformed", "misshapen"} :
                 file' = [state |-> s, messages |-> <<>>, synced |-> TRUE]
      <4>1. <<>> \in Seq(Messages) /\ Len(<<>>) <= Cap
        BY EmptySeq, CapAssumption
      <4> QED BY <3>2, <4>1, UsableOfNone DEF Files, States, FileFits
    <3>3. CASE /\ file.state = "whole"
               /\ file' = [file EXCEPT
                             !.messages = <<Message("other", 0)>> \o @]
      <4> DEFINE longer == <<Message("other", 0)>> \o file.messages
      <4>1. longer \in Seq(Messages) /\ Usable(longer) = Usable(file.messages)
        BY <3>1, UsableIgnores
      <4>2. file' = [file EXCEPT !.messages = longer]
        BY <3>3
      <4> HIDE DEF longer
      <4>3. file' \in Files /\ file'.messages = longer /\ file'.state = "whole"
        BY <3>1, <3>3, <4>1, <4>2 DEF Files
      <4> QED BY <1>r, <4>1, <4>3 DEF PodsInv, FileFits
    <3> QED BY <1>11, <3>2, <3>3 DEF Damage
  <2>3. Rest'
    BY <1>r, <2>1, <2>2 DEF Rest
  <2>4. faults > 0 => faults' > 0
    BY <1>r, <2>1 DEF Rest
  <2>5. Arrays' /\ OneAtATime' /\ \A w \in Writers : PodInv(w)'
    BY <1>r, <2>1, <2>4 DEF PodsInv, Arrays, OneAtATime, PodInv, Busy
  <2> QED BY <1>0, <2>2, <2>3, <2>5 DEF RInv, PodsInv
<1>12. CASE UNCHANGED vars
  <2>1. Rest'
    BY <1>12, <1>r DEF vars, Rest
  <2>2. PodsInv'
    BY <1>12, <1>r DEF vars, PodsInv, Arrays, FileFits, OneAtATime, PodInv, Busy
  <2> QED BY <1>0, <2>1, <2>2 DEF RInv
<1> QED BY <1>1, <1>2, <1>3, <1>4, <1>5, <1>6, <1>7, <1>8, <1>9, <1>10, <1>11,
           <1>12 DEF Next

\* The types are right, and no list that is written outgrows the cap.
THEOREM TypeCorrect == Spec => []TypeOK
<1>1. RInv /\ [Next]_vars => RInv' BY NextRInv
<1> QED BY InitRInv, <1>1, RInvTypes, PTL DEF Spec

-----------------------------------------------------------------------------
(* The refinement: as long as nothing is damaged and no two pods have a     *)
(* turn at once, each step is one of SessionLog; otherwise it may forget.   *)

\* The log that the file stands for.
Held == IF file.state = "whole" THEN Usable(file.messages) ELSE <<>>

\* What the log holds is what load returns, and within the cap.
LEMMA HeldIs == RInv => Held = Usable(file.messages) /\ Len(Held) <= Cap
  BY UsableOfNone DEF RInv, PodsInv, FileFits, Held

\* A pod that is busy alone has the pending turn in its hands; when none is
\* busy, none is pending.
LEMMA InHandIs ==
  ASSUME RInv, ~overlapped
  PROVE  /\ \A w \in Writers : Busy(w) => InHand = turn[w] /\ InHand # <<>>
         /\ (\A w \in Writers : ~Busy(w)) => InHand = <<>>
<1>1. \A w \in Writers : PodInv(w)
  BY DEF RInv, PodsInv
<1>2. ASSUME NEW w \in Writers, Busy(w)
      PROVE  InHand = turn[w] /\ InHand # <<>>
  <2>1. turn[w] # <<>>
    BY <1>1, <1>2, RecordedIs DEF PodInv
  <2>2. \A v \in Writers : turn[v] # <<>> => v = w
    BY <1>1, <1>2 DEF PodInv, RInv, PodsInv, OneAtATime
  <2>3. (CHOOSE v \in Writers : turn[v] # <<>>) = w
    BY <2>1, <2>2
  <2> QED BY <2>1, <2>3 DEF InHand
<1>3. (\A w \in Writers : ~Busy(w)) => InHand = <<>>
  BY <1>1 DEF PodInv, InHand
<1> QED BY <1>2, <1>3

\* Nothing happens to the file and to the turns: at most, something failed.
LEMMA MapsToFail ==
  ASSUME RInv, RInv', UNCHANGED <<file, turn, damaged, overlapped>>,
         faults <= faults', accidents <= accidents'
  PROVE  Log!Fail \/ UNCHANGED <<Held, InHand, faults + accidents > 0,
                                damaged \/ overlapped>>
<1>1. UNCHANGED <<Held, InHand>>
  BY DEF Held, InHand
<1>2. \/ (faults' + accidents' > 0) = (faults + accidents > 0)
      \/ (faults' + accidents' > 0) = TRUE
  <2>1. /\ faults \in Nat /\ accidents \in Nat
        /\ faults' \in Nat /\ accidents' \in Nat
    BY DEF RInv, Rest
  <2>2. \A a, b, c, d \in Nat : a <= c /\ b <= d /\ a + b > 0 => c + d > 0
    OBVIOUS
  <2>3. faults + accidents > 0 => faults' + accidents' > 0
    BY <2>1, <2>2
  <2> QED BY <2>3
<1> QED BY <1>1, <1>2 DEF Log!Fail, Held

\* The turn that was pending is given up, after a failure.
LEMMA MapsToDrop ==
  ASSUME RInv, RInv', ~overlapped, NEW w \in Writers, Busy(w), ~Busy(w)',
         \A v \in Writers : v # w => pc'[v] \in {pc[v], "down"},
         Held' = Held, UNCHANGED <<damaged, overlapped>>,
         faults' + accidents' > 0
  PROVE  Log!Drop
<1>1. \A v \in Writers : ~Busy(v)'
  BY DEF RInv, PodsInv, OneAtATime, Busy
<1>2. InHand' = <<>>
  <2>1. \A v \in Writers : turn'[v] = <<>>
    BY <1>1 DEF RInv, PodsInv, PodInv
  <2> QED BY <2>1 DEF InHand
<1>3. (faults' + accidents' > 0) = TRUE /\ UNCHANGED (damaged \/ overlapped)
  OBVIOUS
<1> QED BY <1>2, <1>3 DEF Log!Drop, Held

\* What is excused may be forgotten.
LEMMA MapsToForget ==
  ASSUME RInv', damaged' \/ overlapped'
  PROVE  Log!Forget
<1>1. Held' = Usable(file'.messages) /\ Len(Held') <= Cap
  BY UsableOfNone DEF RInv, PodsInv, FileFits, Held
<1>2. (damaged' \/ overlapped') = TRUE
  OBVIOUS
<1> QED BY <1>1, <1>2 DEF Log!Forget, Held

\* Initially the log is empty.
LEMMA InitMaps == Init => Log!Init
<1> SUFFICES ASSUME Init PROVE Log!Init
  OBVIOUS
<1>1. InHand = <<>>
  BY DEF Init, InHand
<1>2. (faults + accidents > 0) = FALSE /\ (damaged \/ overlapped) = FALSE
  BY DEF Init
<1>3. file.state # "whole"
  BY DEF Init, Absent
<1> QED BY <1>1, <1>2, <1>3 DEF Log!Init

Maps == [Log!Next]_<<Held, InHand, faults + accidents > 0,
                     damaged \/ overlapped>>

\* Every step is a step of the log, or none.
LEMMA StepMaps ==
  ASSUME RInv, RInv', [Next]_vars
  PROVE  Maps
<1>1. CASE damaged' \/ overlapped'
  BY <1>1, MapsToForget DEF Log!Next, Maps
<1>2. CASE ~(damaged' \/ overlapped')
  <2>r. /\ PodsInv /\ Arrays /\ Rest /\ (\A w \in Writers : PodInv(w))
        /\ Rest'
    BY DEF RInv, PodsInv
  <2>f. Log!Fail => Maps
    BY DEF Log!Next, Maps
  <2>d. Log!Drop => Maps
    BY DEF Log!Next, Maps
  <2>s. UNCHANGED <<Held, InHand, faults + accidents > 0,
                    damaged \/ overlapped>> => Maps
    BY DEF Maps
  <2> USE DEF Goto, SetTmp, Return, NoFault, Fault, Accident, ghosts, locals
  <2>1. ASSUME NEW w \in Writers, Start(w) PROVE Maps
    <3>1. UNCHANGED <<file, turn, damaged, overlapped, accidents>>
          /\ faults <= faults' /\ accidents <= accidents'
      BY <2>1, <2>r DEF Start, Rest
    <3> QED BY <2>f, <2>s, <3>1, MapsToFail
  <2>2. ASSUME NEW w \in Writers, ~damaged, ~overlapped, Busy(w), Return(w),
               file' = file, UNCHANGED <<damaged, overlapped>>,
               faults' + accidents' > 0
        PROVE  Maps
    <3>1. /\ ~Busy(w)' /\ Held' = Held
          /\ \A v \in Writers : v # w => pc'[v] \in {pc[v], "down"}
      BY <2>2, <2>r DEF Arrays, Busy, Held
    <3> QED BY <2>2, <2>d, <3>1, MapsToDrop
  <2>3. ASSUME NEW w \in Writers, PersistTurn(w) PROVE Maps
    <3>1. CASE ~enabled[w]
      <4>1. UNCHANGED <<file, turn, damaged, overlapped, faults, accidents>>
        BY <2>3, <3>1 DEF PersistTurn
      <4>2. faults <= faults' /\ accidents <= accidents'
        BY <4>1, <2>r DEF Rest
      <4> QED BY <2>f, <2>s, <4>1, <4>2, MapsToFail
    <3>2. CASE enabled[w]
      <4>1. /\ UNCHANGED <<file, faults, accidents, damaged>>
            /\ pc' = [pc EXCEPT ![w] = "load"]
            /\ overlapped' = (overlapped \/ \E v \in Writers : Busy(v))
        BY <2>3, <3>2 DEF PersistTurn, Busy
      <4>2. \A v \in Writers : ~Busy(v)
        BY <1>2, <4>1
      <4>3. InHand = <<>>
        BY <1>2, <4>1, <4>2, InHandIs
      <4>4. Busy(w)' /\ ~overlapped'
        BY <1>2, <2>r, <4>1 DEF Arrays, Busy
      <4>5. InHand' = turn'[w] /\ turn'[w] \in Recorded
        <5>1. PodInv(w)'
          BY DEF RInv, PodsInv
        <5>2. turn'[w] \in Recorded /\ turn'[w] # <<>>
          BY <4>4, <5>1, RecordedIs DEF PodInv
        <5>3. \A v \in Writers : turn'[v] # <<>> => v = w
          BY <4>4 DEF PodInv, RInv, PodsInv, OneAtATime
        <5>4. (CHOOSE v \in Writers : turn'[v] # <<>>) = w
          BY <5>2, <5>3
        <5> QED BY <4>4, <5>2, <5>4 DEF InHand
      <4>6. UNCHANGED <<Held, faults + accidents > 0, damaged \/ overlapped>>
        BY <1>2, <4>1 DEF Held
      <4>7. Log!Hand
        BY <4>3, <4>5, <4>6 DEF Log!Hand, Held
      <4> QED BY <4>7 DEF Log!Next, Maps
    <3> QED BY <3>1, <3>2
  <2>4. ASSUME NEW w \in Writers, Load(w) PROVE Maps
    <3>1. /\ UNCHANGED <<file, overlapped>> /\ accidents' = accidents
          /\ pc[w] = "load" /\ (UNCHANGED faults \/ Fault)
      BY <2>4 DEF Load
    <3>2. ~damaged /\ ~overlapped /\ Busy(w) /\ damaged' = damaged
      BY <1>2, <2>r, <2>4, <3>1 DEF Load, Busy, Rest
    <3>3. CASE UNCHANGED turn
      <4>1. faults <= faults' /\ accidents <= accidents'
        BY <2>r, <3>1 DEF Rest
      <4> QED BY <2>f, <2>s, <3>1, <3>2, <3>3, <4>1, MapsToFail
    <3>4. CASE Return(w) /\ Fault
      <4>1. faults' + accidents' > 0
        BY <2>r, <3>1, <3>4 DEF Rest
      <4> QED BY <2>2, <3>1, <3>2, <3>4, <4>1
    <3>5. file.state # "misshapen"
      BY <3>2 DEF RInv, IInv, FileIsWhole
    <3> QED BY <2>4, <3>3, <3>4, <3>5 DEF Load
  <2>5. ASSUME NEW w \in Writers, Mkstemp(w) PROVE Maps
    <3>1. /\ UNCHANGED <<file, damaged, overlapped, accidents>> /\ Busy(w)
          /\ ~damaged /\ ~overlapped
      BY <1>2, <2>5 DEF Mkstemp, Busy
    <3>2. CASE UNCHANGED turn /\ NoFault
      <4>1. faults <= faults' /\ accidents <= accidents'
        BY <2>r, <3>1, <3>2 DEF Rest
      <4> QED BY <2>f, <2>s, <3>1, <3>2, <4>1, MapsToFail
    <3>3. CASE Return(w) /\ Fault
      <4>1. faults' + accidents' > 0
        BY <2>r, <3>1, <3>3 DEF Rest
      <4> QED BY <2>2, <3>1, <3>3, <4>1
    <3> QED BY <2>5, <3>2, <3>3 DEF Mkstemp
  <2>6. ASSUME NEW w \in Writers, Write(w) PROVE Maps
    <3>1. /\ UNCHANGED <<file, damaged, overlapped>> /\ Busy(w)
          /\ ~damaged /\ ~overlapped
      BY <1>2, <2>6 DEF Write, Busy
    <3>2. CASE UNCHANGED turn /\ (NoFault \/ Fault) /\ UNCHANGED accidents
      <4>1. faults <= faults' /\ accidents <= accidents'
        BY <2>r, <3>2 DEF Rest
      <4> QED BY <2>f, <2>s, <3>1, <3>2, <4>1, MapsToFail
    <3>3. CASE Return(w) /\ Accident /\ NoFault
      <4>1. faults' + accidents' > 0
        BY <2>r, <3>3 DEF Rest
      <4> QED BY <2>2, <3>1, <3>3, <4>1
    <3> QED BY <2>6, <3>2, <3>3 DEF Write
  <2>7. ASSUME NEW w \in Writers, Fsync(w) PROVE Maps
    <3>1. UNCHANGED <<file, turn, overlapped, accidents>>
          /\ (UNCHANGED faults \/ Fault)
      BY <2>7 DEF Fsync
    <3>2. damaged' = damaged
      BY <1>2, <2>r, <2>7 DEF Fsync, Rest
    <3>3. faults <= faults' /\ accidents <= accidents'
      BY <2>r, <3>1 DEF Rest
    <3> QED BY <2>f, <2>s, <3>1, <3>2, <3>3, MapsToFail
  <2>8. ASSUME NEW w \in Writers, Replace(w) PROVE Maps
    <3>1. UNCHANGED <<accidents, damaged, overlapped>> /\ pc[w] = "replace"
      BY <2>8 DEF Replace
    <3>2. CASE UNCHANGED <<file, turn>> /\ Fault
      <4>1. faults <= faults' /\ accidents <= accidents'
        BY <2>r, <3>1, <3>2 DEF Rest
      <4> QED BY <2>f, <2>s, <3>1, <3>2, <4>1, MapsToFail
    <3>3. CASE /\ file' = [state |-> "whole", messages |-> combined[w],
                           synced |-> tmp[w] = "synced"]
               /\ Return(w) /\ NoFault
      <4>1. Busy(w) /\ pc[w] \in Saving /\ ~damaged /\ ~overlapped
        BY <1>2, <3>1 DEF Busy, Saving
      <4>2. InHand = turn[w] /\ InHand # <<>>
        BY <4>1, InHandIs
      <4>3. combined[w] = Newest(Usable(file.messages) \o turn[w])
        BY <2>r, <4>1 DEF PodInv
      <4>4. Held' = combined[w]
        <5>1. Usable(combined[w]) = combined[w]
          BY <2>r, UsableOfUsable DEF PodInv
        <5>2. file'.state = "whole" /\ file'.messages = combined[w]
          BY <3>3
        <5> QED BY <5>1, <5>2 DEF Held
      <4>5. Held' = Newest(Held \o InHand)
        BY <4>2, <4>3, <4>4, HeldIs
      <4>6. InHand' = <<>>
        <5>1. \A v \in Writers : v # w => ~Busy(v)
          BY <4>1 DEF RInv, PodsInv, OneAtATime
        <5>2. \A v \in Writers : turn'[v] = <<>>
          BY <2>r, <3>3, <5>1 DEF Arrays, PodInv
        <5> QED BY <5>2 DEF InHand
      <4>7. UNCHANGED <<faults + accidents > 0, damaged \/ overlapped>>
        BY <3>1, <3>3
      <4>8. Log!Record
        BY <4>2, <4>5, <4>6, <4>7 DEF Log!Record, Log!Newest, Newest, Held
      <4> QED BY <4>8 DEF Log!Next, Maps
    <3> QED BY <2>8, <3>2, <3>3 DEF Replace
  <2>9. ASSUME NEW w \in Writers, Unlink(w) PROVE Maps
    <3>1. /\ UNCHANGED <<file, damaged, overlapped, faults, accidents>>
          /\ Busy(w) /\ pc[w] = "unlink" /\ ~damaged /\ ~overlapped /\ Return(w)
      BY <1>2, <2>9 DEF Unlink, Busy
    <3>2. faults' + accidents' > 0
      BY <2>r, <3>1 DEF Rest, PodInv
    <3> QED BY <2>2, <3>1, <3>2
  <2>10. ASSUME NEW w \in Writers, Die(w) PROVE Maps
    <3>1. /\ UNCHANGED <<file, faults, damaged, overlapped>>
          /\ pc' = [pc EXCEPT ![w] = "down"] /\ Accident
          /\ turn' = [turn EXCEPT ![w] = <<>>]
      BY <2>10 DEF Die
    <3>2. faults' + accidents' > 0 /\ faults <= faults'
          /\ accidents <= accidents'
      BY <2>r, <3>1 DEF Rest
    <3>3. CASE ~Busy(w)
      <4>1. turn' = turn
        BY <2>r, <3>1, <3>3 DEF Arrays, PodInv
      <4> QED BY <2>f, <2>s, <3>1, <3>2, <4>1, MapsToFail
    <3>4. CASE Busy(w)
      <4>1. /\ ~Busy(w)' /\ Held' = Held /\ ~overlapped
            /\ \A v \in Writers : v # w => pc'[v] \in {pc[v], "down"}
        BY <1>2, <2>r, <3>1 DEF Arrays, Busy, Held
      <4> QED BY <2>d, <3>1, <3>2, <3>4, <4>1, MapsToDrop
    <3> QED BY <3>3, <3>4
  <2>11. CASE NodeDies
    <3>1. /\ UNCHANGED <<faults, damaged, overlapped>> /\ Accident
          /\ \A v \in Writers : pc'[v] = "down" /\ turn'[v] = <<>>
          /\ turn' = [v \in Writers |-> <<>>]
      BY <2>11 DEF NodeDies
    <3>2. faults' + accidents' > 0 /\ faults <= faults'
          /\ accidents <= accidents'
      BY <2>r, <3>1 DEF Rest
    <3>3. file' = file
      BY <1>2, <2>11, <3>1 DEF NodeDies, RInv, IInv, FileIsSynced
    <3>4. CASE \A v \in Writers : ~Busy(v)
      <4>1. turn' = turn
        BY <2>r, <3>1, <3>4 DEF Arrays, PodInv
      <4> QED BY <2>f, <2>s, <3>1, <3>2, <3>3, <4>1, MapsToFail
    <3>5. ASSUME NEW w \in Writers, Busy(w) PROVE Maps
      <4>1. /\ ~Busy(w)' /\ Held' = Held /\ ~overlapped
            /\ \A v \in Writers : v # w => pc'[v] \in {pc[v], "down"}
        BY <1>2, <3>1, <3>3 DEF Busy, Held
      <4> QED BY <2>d, <3>1, <3>2, <3>5, <4>1, MapsToDrop
    <3> QED BY <3>4, <3>5
  <2>12. CASE Damage
    BY <1>2, <2>12 DEF Damage
  <2>13. CASE UNCHANGED vars
    <3>1. UNCHANGED <<file, turn, damaged, overlapped, faults, accidents>>
      BY <2>13 DEF vars
    <3>2. UNCHANGED <<Held, InHand, faults + accidents > 0,
                      damaged \/ overlapped>>
      BY <3>1 DEF Held, InHand
    <3> QED BY <2>s, <3>2
  <2> QED
    BY <2>1, <2>3, <2>4, <2>5, <2>6, <2>7, <2>8, <2>9, <2>10, <2>11, <2>12,
       <2>13 DEF Next
<1> QED BY <1>1, <1>2

\* The store implements the log: while the file stays readable and one pod
\* writes at a time, a turn handed to _persist_turn is appended whole to what
\* load returns and only the cap trims it; a turn is lost only after a failure.
THEOREM ImplementsLog == Spec => LogSpec
<1>1. RInv /\ [Next]_vars => RInv' BY NextRInv
<1>2. RInv /\ RInv' /\ [Next]_vars => Maps
  BY StepMaps
<1> QED BY InitRInv, InitMaps, <1>1, <1>2, PTL DEF Spec, LogSpec, Log!Spec, Maps, Held
=============================================================================
