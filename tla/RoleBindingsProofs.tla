------------------------- MODULE RoleBindingsProofs -------------------------
(***************************************************************************)
(* RoleBindings for any Agents, any names and any number of managers: who  *)
(* may write has asked for it, and, where no two Agents share a name, keeps *)
(* the grant until it says otherwise.                                      *)
(*                                                                         *)
(* Neither is inductive alone: what a pass does rests on what it has read, *)
(* and that on what a cache, however old, has held (SpecIsSaid,            *)
(* CachesAreSaid, PassesAreSaid).                                          *)
(***************************************************************************)
EXTENDS RoleBindings, TLAPS

SpecIsSaid == \A a \in Agents : spec[a] # "absent" => spec[a] \in had[a]

CachesAreSaid ==
  \A m \in Managers : \A a \in Agents :
    agentCache[m][a] # "absent" => agentCache[m][a] \in had[a]

\* A pass has read what its Agent once said, and acts on it.
PassIsSaid(m) ==
  work[m] # Idle =>
    /\ (IF work[m].wants THEN "on" ELSE "off") \in had[work[m].agent]
    /\ work[m].at = "write" => work[m].wants
    /\ work[m].at \in {"lookup", "delete"} => ~work[m].wants
PassesAreSaid == \A m \in Managers : PassIsSaid(m)

Types ==
  /\ spec \in [Agents -> Specs]
  /\ had \in [Agents -> SUBSET {"off", "on"}]
  /\ bindings \in [Roles -> [Names -> Agents \cup {Nobody}]]
  /\ running \in [Managers -> BOOLEAN]
  /\ agentCache \in [Managers -> [Agents -> Specs]]
  /\ bindingCache \in [Managers -> [Names -> Agents \cup {Nobody}]]
  /\ work \in [Managers -> Passes \cup {Idle}]
  /\ edits \in 0..MaxEdits /\ faults \in 0..MaxFaults
WorkersRun == \A m \in Managers : work[m] # Idle => running[m]

IInv == /\ Types /\ WorkersRun /\ SpecIsSaid /\ CachesAreSaid /\ PassesAreSaid
        /\ GrantsWereAskedFor

\* TypeOK in two parts: the sets, and that only a manager that runs has a pass.
LEMMA TypesAreTypeOK == Types /\ WorkersRun <=> TypeOK
  BY DEF Types, WorkersRun, TypeOK

\* What create and delete make of the bindings.
LEMMA CreatedType ==
  ASSUME Types, NEW role \in Roles, NEW a \in Agents
  PROVE  /\ Created(role, a) \in [Roles -> [Names -> Agents \cup {Nobody}]]
         /\ \A r \in Roles, n \in Names :
              \/ Created(role, a)[r][n] = bindings[r][n]
              \/ /\ r = role /\ n = BindingName[a] /\ bindings[r][n] = Nobody
                 /\ Created(role, a)[r][n] = a
<1>1. BindingName[a] \in Names
  BY BindingConstants
<1> QED BY <1>1 DEF Created, Holder, Types

\* Delete frees the name of the Agent's write binding, and no other.
LEMMA DeletedType ==
  ASSUME Types, NEW a \in Agents
  PROVE  /\ Deleted(a) \in [Roles -> [Names -> Agents \cup {Nobody}]]
         /\ \A r \in Roles, n \in Names :
              \/ Deleted(a)[r][n] = bindings[r][n]
              \/ /\ r = "write" /\ n = BindingName[a]
                 /\ Deleted(a)[r][n] = Nobody
<1>1. BindingName[a] \in Names
  BY BindingConstants
<1> QED BY <1>1 DEF Deleted, Types, Roles

\* A pass under way is one.
LEMMA PassType ==
  ASSUME Types, NEW m \in Managers, work[m].at # "idle"
  PROVE  work[m] \in Passes /\ work[m] # Idle /\ work[m].agent \in Agents
  BY DEF Types, Idle, Passes

\* The invariant holds initially.
LEMMA InitIInv == Init => IInv
<1> SUFFICES ASSUME Init PROVE IInv
  OBVIOUS
<1>1. Types
  <2>1. had \in [Agents -> SUBSET {"off", "on"}]
    <3>1. \A a \in Agents : ({spec[a]} \ {"absent"}) \subseteq {"off", "on"}
      BY DEF Init, Specs
    <3> QED BY <3>1 DEF Init
  <2>2. bindings["write"] \in [Names -> Agents \cup {Nobody}]
    BY DEF Init, Roles
  <2>3. edits \in 0..MaxEdits /\ faults \in 0..MaxFaults
    BY BindingConstants DEF Init
  <2>4. work \in [Managers -> Passes \cup {Idle}]
    BY DEF Init
  <2> QED BY <2>1, <2>2, <2>3, <2>4 DEF Init, Types
<1>2. \A m \in Managers : work[m] = Idle
  BY DEF Init
<1>3. SpecIsSaid /\ CachesAreSaid
  BY DEF Init, SpecIsSaid, CachesAreSaid
<1>4. GrantsWereAskedFor
  <2> SUFFICES ASSUME NEW n \in Names, bindings["write"][n] # Nobody
               PROVE  "on" \in had[bindings["write"][n]]
    BY DEF GrantsWereAskedFor
  <2> DEFINE a == bindings["write"][n]
  <2>1. a \in Agents /\ BindingName[a] = n
    BY DEF Init, Roles
  <2> QED BY <2>1 DEF Init, Holder
<1> QED BY <1>1, <1>2, <1>3, <1>4 DEF IInv, WorkersRun, PassesAreSaid, PassIsSaid

\* What the steps of a pass, and its failures, have in common.
PassMoves(m) ==
  /\ work[m].at # "idle"
  /\ UNCHANGED <<spec, had, running, agentCache, bindingCache, edits>>
  /\ \/ work' = [work EXCEPT ![m] = Idle]
     \/ \E at \in {"write", "lookup", "delete"} :
          /\ work' = [work EXCEPT ![m].at = at]
          /\ at = "write" <=> work[m].wants
  /\ \/ bindings' = bindings
     \/ /\ work[m].at \in Roles
        /\ bindings' = Created(work[m].at, work[m].agent)
     \/ /\ work[m].at = "delete"
        /\ bindings' = Deleted(work[m].agent)

\* Every step of a pass is one of those that PassMoves describes.
LEMMA StepsMove ==
  ASSUME IInv, NEW m \in Managers, Step(m) \/ CallFails(m)
  PROVE  PassMoves(m) /\ faults' \in 0..MaxFaults
<1> USE DEF Goto, Done
<1>1. faults \in 0..MaxFaults /\ work[m] \in Passes \cup {Idle}
  BY DEF IInv, Types
<1>2. work[m] # Idle => work[m].wants \in BOOLEAN /\ work[m].at # "idle"
  BY <1>1 DEF Passes
<1>3. CASE CreateReadBinding(m)
  BY <1>1, <1>2, <1>3 DEF CreateReadBinding, PassMoves, Roles, Idle
<1>4. CASE CreateWriteBinding(m)
  BY <1>1, <1>4 DEF CreateWriteBinding, PassMoves, Roles
<1>5. CASE LookUp(m)
  <2>1. ~work[m].wants
    BY <1>5, <1>2 DEF LookUp, IInv, PassesAreSaid, PassIsSaid, Idle
  <2> QED BY <1>1, <1>5, <2>1 DEF LookUp, PassMoves
<1>6. CASE DeleteWriteBinding(m)
  BY <1>1, <1>6 DEF DeleteWriteBinding, PassMoves
<1>7. CASE CallFails(m)
  BY <1>1, <1>2, <1>7, BindingConstants DEF CallFails, PassMoves, Fault
<1> QED BY <1>3, <1>4, <1>5, <1>6, <1>7 DEF Step

\* They keep the invariant.
LEMMA MovesKeep ==
  ASSUME IInv, NEW m \in Managers, PassMoves(m), faults' \in 0..MaxFaults
  PROVE  IInv'
<1> DEFINE a == work[m].agent
<1>1. work[m] \in Passes /\ work[m] # Idle /\ a \in Agents /\ work[m].wants \in BOOLEAN
  BY PassType DEF IInv, PassMoves, Passes
<1>2. bindings' \in [Roles -> [Names -> Agents \cup {Nobody}]]
  BY <1>1, CreatedType, DeletedType DEF IInv, Types, PassMoves
<1>3. /\ work' \in [Managers -> Passes \cup {Idle}]
      /\ \A o \in Managers : o # m => work'[o] = work[o]
      /\ work'[m] # Idle => /\ work'[m].agent = a /\ work'[m].wants = work[m].wants
                            /\ work'[m].at = "write" <=> work[m].wants
  BY <1>1 DEF PassMoves, IInv, Types, Passes
<1>4. Types'
  BY <1>2, <1>3 DEF IInv, Types, PassMoves
<1>5. WorkersRun' /\ SpecIsSaid' /\ CachesAreSaid'
  BY <1>1, <1>3 DEF IInv, WorkersRun, SpecIsSaid, CachesAreSaid, PassMoves
<1>6. PassesAreSaid'
  <2> SUFFICES ASSUME NEW o \in Managers PROVE PassIsSaid(o)'
    BY DEF PassesAreSaid
  <2>1. had' = had /\ PassIsSaid(o) /\ PassIsSaid(m)
    BY DEF PassMoves, IInv, PassesAreSaid
  <2> QED BY <1>1, <1>3, <2>1 DEF PassIsSaid
<1>7. GrantsWereAskedFor'
  <2> SUFFICES ASSUME NEW n \in Names, bindings'["write"][n] # Nobody
               PROVE  "on" \in had[bindings'["write"][n]]
    BY DEF GrantsWereAskedFor, PassMoves
  <2>1. CASE bindings'["write"][n] = bindings["write"][n]
    BY <2>1 DEF IInv, GrantsWereAskedFor
  <2>2. CASE bindings'["write"][n] # bindings["write"][n]
    <3>1. work[m].at = "write" /\ bindings'["write"][n] = a
      BY <1>1, <2>2, CreatedType, DeletedType DEF IInv, PassMoves, Roles
    <3> QED BY <1>1, <3>1 DEF IInv, PassesAreSaid, PassIsSaid
  <2> QED BY <2>1, <2>2
<1> QED BY <1>4, <1>5, <1>6, <1>7 DEF IInv

\* Every step preserves the invariant.
LEMMA NextIInv == IInv /\ [Next]_vars => IInv'
<1> SUFFICES ASSUME IInv, [Next]_vars PROVE IInv'
  OBVIOUS
<1> USE DEF IInv, Types, WorkersRun, SpecIsSaid, CachesAreSaid, PassesAreSaid,
            PassIsSaid, GrantsWereAskedFor
<1>1. ASSUME NEW a \in Agents, NEW s \in Specs, Edit(a, s) PROVE IInv'
  <2>1. had' \in [Agents -> SUBSET {"off", "on"}] /\ edits' \in 0..MaxEdits
    BY <1>1, BindingConstants DEF Edit, Specs
  <2>2. \A b \in Agents : had[b] \subseteq had'[b]
    BY <1>1 DEF Edit
  <2>3. Types'
    BY <1>1, <2>1 DEF Edit
  <2>4. SpecIsSaid'
    BY <1>1 DEF Edit
  <2>5. CachesAreSaid' /\ WorkersRun'
    BY <1>1, <2>2 DEF Edit
  <2>6. GrantsWereAskedFor'
    <3>1. \A n \in Names : bindings["write"][n] \in Agents \cup {Nobody}
      BY DEF Roles
    <3> QED BY <1>1, <2>2, <3>1 DEF Edit
  <2>7. PassesAreSaid'
    <3>1. \A m \in Managers : work[m] # Idle => work[m].agent \in Agents
      BY DEF Passes
    <3> QED BY <1>1, <2>2, <3>1 DEF Edit
  <2> QED BY <2>3, <2>4, <2>5, <2>6, <2>7
<1>2. ASSUME NEW m \in Managers, NEW a \in Agents, StartPass(m, a) PROVE IInv'
  <2> DEFINE new == [agent |-> a, wants |-> agentCache[m][a] = "on", at |-> "read"]
  <2>1. new \in Passes /\ work' = [work EXCEPT ![m] = new] /\ running[m]
    BY <1>2 DEF StartPass, Passes
  <2>2. (IF new.wants THEN "on" ELSE "off") \in had[a]
    <3>1. agentCache[m][a] \in {"off", "on"} /\ agentCache[m][a] \in had[a]
      BY <1>2 DEF StartPass, Specs
    <3> QED BY <3>1
  <2>3. Types' /\ WorkersRun'
    BY <1>2, <2>1 DEF StartPass
  <2>4. PassesAreSaid'
    <3> HIDE DEF new
    <3>1. new.agent = a /\ new.at = "read"
      BY DEF new
    <3> QED BY <1>2, <2>1, <2>2, <3>1 DEF StartPass
  <2>5. SpecIsSaid' /\ CachesAreSaid' /\ GrantsWereAskedFor'
    BY <1>2 DEF StartPass
  <2> QED BY <2>3, <2>4, <2>5
<1>3. ASSUME NEW m \in Managers, Step(m) \/ CallFails(m) PROVE IInv'
  BY <1>3, StepsMove, MovesKeep
<1>4. ASSUME NEW m \in Managers, SyncAgents(m) PROVE IInv'
  BY <1>4 DEF SyncAgents
<1>5. ASSUME NEW m \in Managers, SyncBindings(m) PROVE IInv'
  BY <1>5 DEF SyncBindings, Roles
<1>6. ASSUME NEW m \in Managers, Start(m) PROVE IInv'
  BY <1>6 DEF Start, Roles
<1>7. ASSUME NEW m \in Managers, Stop(m) PROVE IInv'
  BY <1>7, BindingConstants DEF Stop, Done, Fault
<1>8. CASE UNCHANGED vars
  BY <1>8 DEF vars
<1> QED BY <1>1, <1>2, <1>3, <1>4, <1>5, <1>6, <1>7, <1>8 DEF Next

\* The invariant holds always.
LEMMA Invariant == Spec => []IInv
  BY InitIInv, NextIInv, PTL DEF Spec

\* TypeOK holds for all constants: of each manager's pass, too.
THEOREM TypeCorrect == Spec => []TypeOK
<1>1. IInv => TypeOK
  BY TypesAreTypeOK DEF IInv
<1> QED BY <1>1, Invariant, PTL

\* GrantsWereAskedFor: however many managers work from however old copies, and
\* whoever shares a name, the write role goes only to who has asked for it.
THEOREM AskedFor == Spec => []GrantsWereAskedFor
<1>1. IInv => GrantsWereAskedFor
  BY DEF IInv
<1> QED BY <1>1, Invariant, PTL

\* GrantsAreKept, where no two Agents share a name: a pass takes the write role
\* from no Agent but its own, and only when that has said so.
THEOREM Kept ==
  ASSUME \A a, b \in Agents : BindingName[a] = BindingName[b] => a = b
  PROVE  Spec => GrantsAreKept
<1> DEFINE Keep == \A a \in Agents :
             Holder("write", a) = a /\ Holder("write", a)' # a => "off" \in had[a]
<1>1. IInv /\ [Next]_vars => Keep
  <2> SUFFICES ASSUME IInv, [Next]_vars, NEW a \in Agents,
                      Holder("write", a) = a, Holder("write", a)' # a
               PROVE  "off" \in had[a]
    OBVIOUS
  <2>1. BindingName[a] \in Names /\ a # Nobody /\ bindings' # bindings
    BY BindingConstants DEF Holder
  <2>2. PICK m \in Managers : Step(m) \/ CallFails(m)
    BY <2>1 DEF Next, vars, Edit, StartPass, SyncAgents, SyncBindings, Start, Stop
  <2>3. PassMoves(m)
    BY <2>2, StepsMove
  <2>4. work[m] \in Passes /\ work[m] # Idle /\ work[m].agent \in Agents
    BY <2>3, PassType DEF IInv, PassMoves
  <2>5. work[m].at = "delete" /\ BindingName[work[m].agent] = BindingName[a]
    BY <2>1, <2>3, <2>4, CreatedType, DeletedType
       DEF Holder, IInv, PassMoves, Roles
  <2>6. "off" \in had[work[m].agent]
    BY <2>4, <2>5 DEF IInv, PassesAreSaid, PassIsSaid
  <2> QED BY <2>4, <2>5, <2>6
<1>2. Spec => [][Keep]_vars
  BY <1>1, Invariant, PTL DEF Spec
<1> QED BY <1>2 DEF GrantsAreKept
=============================================================================
