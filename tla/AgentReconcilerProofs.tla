------------------------ MODULE AgentReconcilerProofs ------------------------
(***************************************************************************)
(* What holds of AgentReconciler for every set of specs and every bound.   *)
(***************************************************************************)
EXTENDS AgentReconciler, TLAPS

\* The strengthening: the Deployment the roll has read is only in use between
\* the roll's Get and its Update.
IInv == /\ TypeOK
        /\ CurrentCopiesAreExact
        /\ freshCurrent => pc = "update"
        /\ StampsAreKnown

USE DEF agentVars, depVars, objectVars, secretVars, locals

\* The initial records have their types.
LEMMA Literals ==
  /\ NewStatus \in Statuses /\ NoAgent \in Agents
  /\ NoDeployment \in Deployments
  <1>1. NewStatus \in Statuses
    BY DEF NewStatus, Statuses, Phases
  <1>2. NoAgent \in Agents
    BY <1>1 DEF NoAgent, Agents, Lives
  <1>3. NoDeployment \in Deployments
    BY DEF NoDeployment, Deployments
  <1> QED BY <1>1, <1>2, <1>3

\* The types hold initially.
LEMMA InitType == Init => TypeOK
  <1> SUFFICES ASSUME Init PROVE TypeOK OBVIOUS
  <1>1. agent \in Agents
    BY Literals, SpecsAssumption DEF Init, Agents, Lives
  <1>2. secret \in Secrets
    <2>1. /\ [exists |-> FALSE, version |-> 0] \in Secrets
          /\ [exists |-> TRUE, version |-> 1] \in Secrets
      BY DEF Secrets
    <2> QED BY <2>1 DEF Init
  <1>3. tries \in 0..Steps
    BY BoundsAssumption DEF Init
  <1> QED BY <1>1, <1>2, <1>3, Literals DEF Init, TypeOK, Locations, Marks

\* What a pass leaves when it returns.
LEMMA ReturnType ==
  ASSUME TypeOK, NEW again \in BOOLEAN, Return(again)
  PROVE  /\ pc' \in Locations /\ agentVar' \in Agents
         /\ agentCurrent' \in BOOLEAN /\ depVar' \in Deployments
         /\ rv' \in Nat /\ freshCurrent' \in BOOLEAN /\ mark' \in Marks
         /\ tries' \in 0..Steps /\ queued' \in BOOLEAN
  <1>1. queued' \in BOOLEAN
    BY DEF Return, TypeOK
  <1>2. tries' \in 0..Steps
    BY BoundsAssumption DEF Return
  <1> QED BY <1>1, <1>2, Literals DEF Return, TypeOK, Locations, Marks

\* The number of faults stays a natural.
LEMMA FaultType ==
  ASSUME TypeOK, Fault \/ NoFault
  PROVE  faults' \in Nat
  BY DEF Fault, NoFault, TypeOK

\* Each step of a pass keeps the types, from the first Get on.
LEMMA StartPassType == TypeOK /\ StartPass => TypeOK'
  BY DEF StartPass, TypeOK, Locations

\* A create that may fail.
LEMMA CreateType ==
  ASSUME TypeOK, NEW kind \in Kinds, NEW step \in Locations,
         CreateOrFail(kind, step)
  PROVE  TypeOK'
  <1>1. objects' \subseteq Kinds
    BY DEF CreateOrFail, Create, TypeOK
  <1>4. faults' \in Nat
    BY FaultType DEF CreateOrFail
  <1>2. CASE Return(TRUE)
    BY <1>1, <1>4, <1>2, ReturnType DEF CreateOrFail, TypeOK
  <1>3. CASE Goto(step)
    BY <1>1, <1>4, <1>3 DEF CreateOrFail, Goto, TypeOK
  <1> QED BY <1>2, <1>3 DEF CreateOrFail

\* The start of a status write.
LEMMA MarkType ==
  ASSUME TypeOK, NEW m \in Marks, StartMark(m)
  PROVE  /\ pc' \in Locations /\ agentVar' \in Agents
         /\ agentCurrent' \in BOOLEAN /\ depVar' \in Deployments
         /\ rv' \in Nat /\ freshCurrent' \in BOOLEAN /\ mark' \in Marks
         /\ tries' \in 0..Steps /\ queued' \in BOOLEAN
  BY BoundsAssumption DEF StartMark, TypeOK, Locations

\* A conflict is retried at most Steps times.
LEMMA ConflictType ==
  ASSUME TypeOK, NEW step \in Locations, Conflict(step)
  PROVE  /\ pc' \in Locations /\ agentVar' \in Agents
         /\ agentCurrent' \in BOOLEAN /\ depVar' \in Deployments
         /\ rv' \in Nat /\ freshCurrent' \in BOOLEAN /\ mark' \in Marks
         /\ tries' \in 0..Steps /\ queued' \in BOOLEAN
  <1>1. CASE tries + 1 < Steps
    BY <1>1, BoundsAssumption DEF Conflict, TypeOK
  <1>2. CASE ~(tries + 1 < Steps)
    BY <1>2, ReturnType DEF Conflict
  <1> QED BY <1>1, <1>2

\* The readiness check.
LEMMA CheckReadyType ==
  ASSUME TypeOK, CheckReady
  PROVE  /\ pc' \in Locations /\ agentVar' \in Agents
         /\ agentCurrent' \in BOOLEAN /\ depVar' \in Deployments
         /\ rv' \in Nat /\ freshCurrent' \in BOOLEAN /\ mark' \in Marks
         /\ tries' \in 0..Steps /\ queued' \in BOOLEAN
  BY ReturnType, MarkType DEF CheckReady, Marks

\* A Deployment that is written.
LEMMA WriteDeploymentType ==
  ASSUME TypeOK, NEW d \in Deployments, WriteDeployment(d)
  PROVE  /\ deployment' \in Deployments /\ deploymentCache' \in Deployments
         /\ deploymentSynced' \in BOOLEAN /\ mounted' \in BOOLEAN
  BY DEF WriteDeployment, TypeOK, Deployments

\* A Deployment as the builder makes it.
LEMMA BuiltType ==
  ASSUME NEW a \in Agents
  PROVE  BuildDeployment(a) \in Deployments
  BY DEF BuildDeployment, Agents, Deployments

\* A Deployment with another annotation or other pods.
LEMMA StampedType ==
  ASSUME NEW d \in Deployments, NEW v \in Nat
  PROVE  /\ [d EXCEPT !.annotation = v] \in Deployments
         /\ [d EXCEPT !.readyReplicas = v] \in Deployments
  BY DEF Deployments

\* What each status write makes of a status.
LEMMA MutatedType ==
  ASSUME TypeOK, NEW a \in Agents
  PROVE  Mutated(a) \in Statuses
  <1>1. /\ a.status \in Statuses /\ a.generation \in Nat
        /\ depVar.readyReplicas \in Nat
    BY DEF Agents, TypeOK, Deployments
  <1>2. /\ MarkRunning(a) \in Statuses /\ MarkFailed(a) \in Statuses
        /\ MarkReady(a, depVar.readyReplicas) \in Statuses
        /\ ResetForRerun(a) \in Statuses
    BY <1>1 DEF MarkRunning, MarkReady, MarkFailed, ResetForRerun, Statuses,
       Phases
  <1> QED BY <1>2 DEF Mutated

\* An Agent with another status.
LEMMA RestatusedType ==
  ASSUME NEW a \in Agents, NEW s \in Statuses
  PROVE  [a EXCEPT !.status = s] \in Agents
  BY DEF Agents

\* An Agent that was edited or deleted.
LEMMA EditedType ==
  ASSUME NEW a \in Agents, NEW s \in Specs, NEW l \in Lives
  PROVE  /\ [a EXCEPT !.spec = s, !.generation = @ + 1] \in Agents
         /\ [a EXCEPT !.life = l] \in Agents
  <1>1. s \in [write : BOOLEAN, history : BOOLEAN]
    BY SpecsAssumption
  <1>2. a.generation + 1 \in Nat
    BY DEF Agents
  <1>3. [a EXCEPT !.spec = s] \in Agents
    BY <1>1 DEF Agents
  <1>4. [a EXCEPT !.spec = s, !.generation = a.generation + 1] \in Agents
    BY <1>1, <1>2 DEF Agents
  <1>5. [a EXCEPT !.life = l] \in Agents
    BY DEF Agents
  <1> QED BY <1>4, <1>5

\* An Agent that is written.
LEMMA WriteAgentType ==
  ASSUME TypeOK, NEW a \in Agents, WriteAgent(a)
  PROVE  /\ agent' \in Agents /\ agentCache' \in Agents
         /\ agentSynced' \in BOOLEAN
  BY DEF WriteAgent, TypeOK

-----------------------------------------------------------------------------
(* One lemma per action: it keeps the variables in their types. *)

\* The teardown of the write binding.
LEMMA DeleteWriteBindingType == TypeOK /\ DeleteWriteBinding => TypeOK'
  <1> SUFFICES ASSUME TypeOK, DeleteWriteBinding PROVE TypeOK' OBVIOUS
  <1>1. objects' \subseteq Kinds
    BY DEF DeleteWriteBinding, TypeOK
  <1>2. faults' \in Nat
    BY FaultType DEF DeleteWriteBinding
  <1>3. CASE Return(TRUE)
    BY <1>1, <1>2, <1>3, ReturnType DEF DeleteWriteBinding, TypeOK
  <1>4. CASE Goto("pvc")
    BY <1>1, <1>2, <1>4 DEF DeleteWriteBinding, Goto, TypeOK, Locations
  <1> QED BY <1>3, <1>4 DEF DeleteWriteBinding

\* Step 2, the claim.
LEMMA ReconcilePVCType == TypeOK /\ ReconcilePVC => TypeOK'
  <1> SUFFICES ASSUME TypeOK, ReconcilePVC PROVE TypeOK' OBVIOUS
  <1>1. pvc' \in {"absent", "bound", "terminating"}
    BY DEF ReconcilePVC, ClaimAfter, TypeOK
  <1>2. faults' \in Nat
    BY FaultType DEF ReconcilePVC
  <1>3. CASE Return(TRUE)
    BY <1>1, <1>2, <1>3, ReturnType DEF ReconcilePVC, TypeOK
  <1>4. CASE AfterPVC
    BY <1>1, <1>2, <1>4 DEF ReconcilePVC, AfterPVC, Goto, TypeOK, Locations
  <1> QED BY <1>3, <1>4 DEF ReconcilePVC

\* Step 3, the teardown of the Deployment.
LEMMA DeleteDeploymentType == TypeOK /\ DeleteDeployment => TypeOK'
  <1> SUFFICES ASSUME TypeOK, DeleteDeployment PROVE TypeOK' OBVIOUS
  <1>1. /\ deployment' \in Deployments /\ deploymentCache' \in Deployments
        /\ deploymentSynced' \in BOOLEAN /\ mounted' \in BOOLEAN
    <2>1. CASE WriteDeployment(NoDeployment)
      BY <2>1, WriteDeploymentType, Literals
    <2>2. CASE UNCHANGED depVars
      BY <2>2 DEF TypeOK
    <2> QED BY <2>1, <2>2 DEF DeleteDeployment
  <1>2. faults' \in Nat
    BY FaultType DEF DeleteDeployment
  <1>3. CASE Return(TRUE)
    BY <1>1, <1>2, <1>3, ReturnType DEF DeleteDeployment, TypeOK
  <1>4. CASE StartMark("Reset")
    BY <1>1, <1>2, <1>4, MarkType DEF DeleteDeployment, TypeOK, Marks
  <1> QED BY <1>3, <1>4 DEF DeleteDeployment

\* Step 4, its creation.
LEMMA CreateDeploymentType == TypeOK /\ CreateDeployment => TypeOK'
  <1> SUFFICES ASSUME TypeOK, CreateDeployment PROVE TypeOK' OBVIOUS
  <1>1. /\ deployment' \in Deployments /\ deploymentCache' \in Deployments
        /\ deploymentSynced' \in BOOLEAN /\ mounted' \in BOOLEAN
    <2>1. CASE WriteDeployment(BuildDeployment(agentVar))
      BY <2>1, WriteDeploymentType, BuiltType DEF TypeOK
    <2>2. CASE UNCHANGED depVars
      BY <2>2 DEF TypeOK
    <2> QED BY <2>1, <2>2 DEF CreateDeployment
  <1>2. faults' \in Nat
    BY FaultType DEF CreateDeployment
  <1>3. CASE Goto("createService")
    BY <1>1, <1>2, <1>3 DEF CreateDeployment, Goto, TypeOK, Locations
  <1>4. CASE StartMark("Running")
    BY <1>1, <1>2, <1>4, MarkType DEF CreateDeployment, TypeOK, Marks
  <1>5. CASE StartMark("Failed")
    BY <1>1, <1>2, <1>5, MarkType DEF CreateDeployment, TypeOK, Marks
  <1> QED BY <1>3, <1>4, <1>5 DEF CreateDeployment

\* Step 4, the Service.
LEMMA CreateServiceType == TypeOK /\ CreateService => TypeOK'
  <1> SUFFICES ASSUME TypeOK, CreateService PROVE TypeOK' OBVIOUS
  <1>1. objects' \subseteq Kinds
    BY DEF CreateService, Create, TypeOK, Kinds
  <1>2. faults' \in Nat
    BY FaultType DEF CreateService
  <1>3. CASE StartMark("Running")
    BY <1>1, <1>2, <1>3, MarkType DEF CreateService, TypeOK, Marks
  <1>4. CASE StartMark("Failed")
    BY <1>1, <1>2, <1>4, MarkType DEF CreateService, TypeOK, Marks
  <1> QED BY <1>3, <1>4 DEF CreateService

\* Step 5, the Deployment is observed.
LEMMA GetDeploymentType == TypeOK /\ GetDeployment => TypeOK'
  <1> SUFFICES ASSUME TypeOK, GetDeployment PROVE TypeOK' OBVIOUS
  <1>1. CASE deploymentCache.exists
    BY <1>1 DEF GetDeployment, TypeOK, Locations
  <1>2. CASE ~deploymentCache.exists
    BY <1>2, MarkType DEF GetDeployment, DeploymentMissing, TypeOK, Marks
  <1> QED BY <1>1, <1>2

\* The credentials are compared.
LEMMA GetSecretType == TypeOK /\ GetSecret => TypeOK'
  <1> SUFFICES ASSUME TypeOK, GetSecret PROVE TypeOK' OBVIOUS
  <1>1. CASE NeedsRoll
    <2>1. SecretVersion \in Nat
      BY DEF SecretVersion, TypeOK, Secrets
    <2>2. tries' \in 0..Steps
      BY <1>1, BoundsAssumption DEF GetSecret
    <2> QED BY <1>1, <2>1, <2>2 DEF GetSecret, TypeOK, Locations
  <1>2. CASE ~NeedsRoll
    BY <1>2, CheckReadyType DEF GetSecret, TypeOK
  <1> QED BY <1>1, <1>2

\* The roll's retry body reads.
LEMMA RollGetType == TypeOK /\ RollGet => TypeOK'
  <1> SUFFICES ASSUME TypeOK, RollGet PROVE TypeOK' OBVIOUS
  <1>1. CASE ~deploymentCache.exists
    BY <1>1, ReturnType DEF RollGet, TypeOK
  <1>2. CASE deploymentCache.exists /\ deploymentCache.annotation = rv
    BY <1>2, CheckReadyType DEF RollGet, TypeOK
  <1>3. CASE deploymentCache.exists /\ deploymentCache.annotation # rv
    BY <1>3 DEF RollGet, SentVersionIsCurrent, TypeOK, Locations
  <1> QED BY <1>1, <1>2, <1>3

\* The roll's retry body writes.
LEMMA RollUpdateType == TypeOK /\ RollUpdate => TypeOK'
  <1> SUFFICES ASSUME TypeOK, RollUpdate PROVE TypeOK' OBVIOUS
  <1>1. /\ deployment' \in Deployments /\ deploymentCache' \in Deployments
        /\ deploymentSynced' \in BOOLEAN /\ mounted' \in BOOLEAN
    <2>1. CASE WriteDeployment([deployment EXCEPT !.annotation = rv])
      BY <2>1, WriteDeploymentType, StampedType DEF TypeOK
    <2>2. CASE UNCHANGED depVars
      BY <2>2 DEF TypeOK
    <2> QED BY <2>1, <2>2 DEF RollUpdate
  <1>2. faults' \in Nat
    BY FaultType DEF RollUpdate
  <1>3. CASE Return(TRUE)
    BY <1>1, <1>2, <1>3, ReturnType DEF RollUpdate, TypeOK
  <1>4. CASE Conflict("roll")
    <2>1. "roll" \in Locations
      BY DEF Locations
    <2> QED BY <1>1, <1>2, <1>4, <2>1, ConflictType DEF RollUpdate, TypeOK
  <1> QED BY <1>3, <1>4 DEF RollUpdate

\* A status write reads.
LEMMA GetAgentType == TypeOK /\ GetAgent => TypeOK'
  <1> SUFFICES ASSUME TypeOK, GetAgent PROVE TypeOK' OBVIOUS
  <1>1. CASE agentCache.life = "gone"
    BY <1>1, ReturnType DEF GetAgent, TypeOK
  <1>2. CASE agentCache.life # "gone"
    BY <1>2 DEF GetAgent, TypeOK, Locations
  <1> QED BY <1>1, <1>2

\* A status write writes.
LEMMA PutStatusType == TypeOK /\ PutStatus => TypeOK'
  <1> SUFFICES ASSUME TypeOK, PutStatus PROVE TypeOK' OBVIOUS
  <1> DEFINE written == [agentVar EXCEPT !.status = Mutated(agentVar)]
  <1>1. /\ agent' \in Agents /\ agentCache' \in Agents
        /\ agentSynced' \in BOOLEAN
    <2>1. CASE WriteAgent(written)
      <3>1. written \in Agents
        BY MutatedType, RestatusedType DEF TypeOK
      <3> QED BY <2>1, <3>1, WriteAgentType
    <2>2. CASE UNCHANGED agentVars
      BY <2>2 DEF TypeOK
    <2> QED BY <2>1, <2>2 DEF PutStatus
  <1>2. faults' \in Nat
    BY FaultType DEF PutStatus
  <1>3. CASE Return(TRUE)
    BY <1>1, <1>2, <1>3, ReturnType DEF PutStatus, TypeOK
  <1>4. CASE Conflict("get")
    <2>1. "get" \in Locations
      BY DEF Locations
    <2> QED BY <1>1, <1>2, <1>4, <2>1, ConflictType DEF PutStatus, TypeOK
  <1> QED BY <1>3, <1>4 DEF PutStatus

\* The informers.
LEMMA SyncType ==
  TypeOK /\ (SyncAgent \/ SyncDeployment \/ SyncBinding \/ SyncSecret)
    => TypeOK'
  <1> SUFFICES ASSUME TypeOK,
                      SyncAgent \/ SyncDeployment \/ SyncBinding \/ SyncSecret
               PROVE  TypeOK'
    OBVIOUS
  <1>1. CASE SyncAgent
    BY <1>1 DEF SyncAgent, TypeOK
  <1>2. CASE SyncDeployment
    BY <1>2 DEF SyncDeployment, TypeOK
  <1>3. CASE SyncBinding
    BY <1>3 DEF SyncBinding, TypeOK
  <1>4. CASE SyncSecret
    <2>1. queued' \in BOOLEAN
      BY <1>4 DEF SyncSecret, SecretToAgents, TypeOK
    <2> QED BY <1>4, <2>1 DEF SyncSecret, TypeOK
  <1> QED BY <1>1, <1>2, <1>3, <1>4

\* The manager dies.
LEMMA CrashType == TypeOK /\ Crash => TypeOK'
  <1> SUFFICES ASSUME TypeOK, Crash PROVE TypeOK' OBVIOUS
  <1>1. faults' \in Nat
    BY FaultType DEF Crash
  <1>2. tries' \in 0..Steps
    BY BoundsAssumption DEF Crash
  <1> QED BY <1>1, <1>2, Literals DEF Crash, TypeOK, Locations, Marks

\* The manager starts again.
LEMMA RestartType == TypeOK /\ Restart => TypeOK'
  BY DEF Restart, TypeOK, Locations

\* The steps of the users and of the cluster that write the Agent.
LEMMA AgentWrittenType ==
  TypeOK /\ (EditSpec \/ DeleteAgent \/ FinishTermination) => TypeOK'
  <1> SUFFICES ASSUME TypeOK, EditSpec \/ DeleteAgent \/ FinishTermination
               PROVE  TypeOK'
    OBVIOUS
  <1>1. /\ agent' \in Agents /\ agentCache' \in Agents
        /\ agentSynced' \in BOOLEAN
    <2>1. CASE EditSpec
      <3>1. PICK s \in Specs :
              WriteAgent([agent EXCEPT !.spec = s, !.generation = @ + 1])
        BY <2>1 DEF EditSpec
      <3>2. [agent EXCEPT !.spec = s, !.generation = @ + 1] \in Agents
        BY EditedType DEF TypeOK, Lives
      <3> QED BY <3>1, <3>2, WriteAgentType
    <2>2. CASE DeleteAgent \/ FinishTermination
      <3>1. PICK l \in Lives : WriteAgent([agent EXCEPT !.life = l])
        BY <2>2 DEF DeleteAgent, FinishTermination, Lives
      <3>2. [agent EXCEPT !.life = l] \in Agents
        BY DEF TypeOK, Agents
      <3> QED BY <3>1, <3>2, WriteAgentType
    <2> QED BY <2>1, <2>2
  <1> QED BY <1>1 DEF EditSpec, DeleteAgent, FinishTermination, TypeOK

\* Those that write the Deployment.
LEMMA DeploymentWrittenType ==
  TypeOK /\ (CollectDeployment \/ DeploymentDeletedByHand \/ PodsChange)
    => TypeOK'
  <1> SUFFICES ASSUME TypeOK,
                      CollectDeployment \/ DeploymentDeletedByHand \/ PodsChange
               PROVE  TypeOK'
    OBVIOUS
  <1>1. CASE CollectDeployment
    BY <1>1, Literals, WriteDeploymentType DEF CollectDeployment, TypeOK
  <1>2. CASE DeploymentDeletedByHand
    BY <1>2, Literals, WriteDeploymentType, FaultType
       DEF DeploymentDeletedByHand, TypeOK
  <1>3. CASE PodsChange
    <2>1. PICK n \in 0..MaxReplicas :
            WriteDeployment([deployment EXCEPT !.readyReplicas = n])
      BY <1>3 DEF PodsChange
    <2>2. [deployment EXCEPT !.readyReplicas = n] \in Deployments
      <3>1. n \in Nat
        BY BoundsAssumption
      <3> QED BY <3>1, StampedType DEF TypeOK
    <2>3. podEvents' \in Nat
      BY <1>3 DEF PodsChange, TypeOK
    <2> QED BY <1>3, <2>1, <2>2, <2>3, WriteDeploymentType
            DEF PodsChange, TypeOK
  <1> QED BY <1>1, <1>2, <1>3

\* The others.
LEMMA ClusterType ==
  TypeOK /\ (CollectObject \/ MountClaim \/ ReleasePVC \/ WriteSecret)
    => TypeOK'
  <1> SUFFICES ASSUME TypeOK,
                      CollectObject \/ MountClaim \/ ReleasePVC \/ WriteSecret
               PROVE  TypeOK'
    OBVIOUS
  <1>1. CASE CollectObject
    BY <1>1 DEF CollectObject, TypeOK
  <1>2. CASE MountClaim \/ ReleasePVC
    BY <1>2 DEF MountClaim, ReleasePVC, TypeOK
  <1>3. CASE WriteSecret
    <2>1. secret' \in Secrets
      <3>1. secret \in Secrets /\ secret.version \in Nat
        BY DEF TypeOK, Secrets
      <3>2. CASE secret' = [exists |-> TRUE, version |-> secret.version + 1]
        BY <3>1, <3>2 DEF Secrets
      <3>3. CASE secret' = [secret EXCEPT !.exists = FALSE]
        BY <3>1, <3>3 DEF Secrets
      <3> QED BY <1>3, <3>2, <3>3 DEF WriteSecret
    <2> QED BY <1>3, <2>1 DEF WriteSecret, TypeOK
  <1> QED BY <1>1, <1>2, <1>3

\* Every step keeps the types.
LEMMA NextType == TypeOK /\ [Next]_vars => TypeOK'
  <1> SUFFICES ASSUME TypeOK, [Next]_vars PROVE TypeOK' OBVIOUS
  <1>1. CASE Reconcile
    <2>1. CASE CreateServiceAccount \/ CreateReadBinding \/ CreateWriteBinding
      BY <2>1, CreateType DEF CreateServiceAccount, CreateReadBinding,
         CreateWriteBinding, Kinds, Locations
    <2> QED BY <1>1, <2>1, StartPassType, DeleteWriteBindingType,
               ReconcilePVCType, DeleteDeploymentType, CreateDeploymentType,
               CreateServiceType, GetDeploymentType, GetSecretType, RollGetType,
               RollUpdateType, GetAgentType, PutStatusType DEF Reconcile
  <1>2. CASE Environment
    BY <1>2, AgentWrittenType, DeploymentWrittenType, ClusterType
       DEF Environment
  <1>3. CASE UNCHANGED vars
    BY <1>3 DEF vars, TypeOK
  <1> QED BY <1>1, <1>2, <1>3, SyncType, CrashType, RestartType DEF Next

-----------------------------------------------------------------------------
\* Every reachable state is well typed, for every set of specs and every bound:
\* among others the number of conflicts a retry loop has met never exceeds the
\* attempts it is allowed.
THEOREM TypeCorrect == Spec => []TypeOK
  BY InitType, NextType, PTL DEF Spec

-----------------------------------------------------------------------------
(* The invariant. *)

Copies == CurrentCopiesAreExact /\ (freshCurrent => pc = "update")

USE DEF Return, Goto, StartMark, Conflict, CheckReady, WriteAgent,
        WriteDeployment

\* A pass takes a copy as current only from a cache that is, and hands the
\* Agent back as soon as it has written it.
LEMMA ReconcileCopies == Copies /\ Reconcile => Copies'
  <1> SUFFICES ASSUME Copies, Reconcile PROVE Copies' OBVIOUS
  <1> USE DEF Copies, CurrentCopiesAreExact
  <1>1. CASE StartPass
    BY <1>1 DEF StartPass
  <1>2. CASE CreateServiceAccount \/ CreateReadBinding \/ CreateWriteBinding
    BY <1>2 DEF CreateServiceAccount, CreateReadBinding, CreateWriteBinding,
       CreateOrFail
  <1>3. CASE DeleteWriteBinding
    BY <1>3 DEF DeleteWriteBinding
  <1>4. CASE ReconcilePVC
    BY <1>4 DEF ReconcilePVC, AfterPVC
  <1>5. CASE DeleteDeployment
    BY <1>5 DEF DeleteDeployment
  <1>6. CASE CreateDeployment
    BY <1>6 DEF CreateDeployment
  <1>7. CASE CreateService
    BY <1>7 DEF CreateService
  <1>8. CASE GetDeployment
    BY <1>8 DEF GetDeployment, DeploymentMissing
  <1>9. CASE GetSecret
    BY <1>9 DEF GetSecret
  <1>10. CASE RollGet
    BY <1>10 DEF RollGet, SentVersionIsCurrent
  <1>11. CASE RollUpdate
    BY <1>11 DEF RollUpdate
  <1>12. CASE GetAgent
    BY <1>12 DEF GetAgent
  <1>13. CASE PutStatus
    BY <1>13 DEF PutStatus
  <1> QED BY <1>1, <1>2, <1>3, <1>4, <1>5, <1>6, <1>7, <1>8, <1>9, <1>10,
             <1>11, <1>12, <1>13 DEF Reconcile

\* No step leaves a copy that looks current and is not.
LEMMA NextCopies == Copies /\ [Next]_vars => Copies'
  <1> SUFFICES ASSUME Copies, [Next]_vars PROVE Copies' OBVIOUS
  <1> USE DEF Copies, CurrentCopiesAreExact
  <1>1. CASE SyncAgent \/ SyncDeployment \/ SyncBinding \/ SyncSecret
    BY <1>1 DEF SyncAgent, SyncDeployment, SyncBinding, SyncSecret
  <1>2. CASE Crash \/ Restart
    BY <1>2 DEF Crash, Restart
  <1>3. CASE EditSpec \/ DeleteAgent \/ FinishTermination
    <2>1. agentSynced' = FALSE /\ agentCurrent' = FALSE
      BY <1>3 DEF EditSpec, DeleteAgent, FinishTermination
    <2>2. UNCHANGED <<depVars, pc, freshCurrent>>
      BY <1>3 DEF EditSpec, DeleteAgent, FinishTermination
    <2> QED BY <2>1, <2>2
  <1>4. CASE CollectDeployment \/ DeploymentDeletedByHand \/ PodsChange
    BY <1>4 DEF CollectDeployment, DeploymentDeletedByHand, PodsChange
  <1>5. CASE CollectObject \/ MountClaim \/ ReleasePVC \/ WriteSecret
    BY <1>5 DEF CollectObject, MountClaim, ReleasePVC, WriteSecret
  <1>6. CASE UNCHANGED vars
    BY <1>6 DEF vars
  <1> QED BY <1>1, <1>2, <1>3, <1>4, <1>5, <1>6, ReconcileCopies
          DEF Next, Environment

\* What the stamps are compared with only grows, and the roll writes what it
\* has read after the last stamp was written.
LEMMA ReconcileStamps ==
  TypeOK /\ StampsAreKnown /\ Reconcile => StampsAreKnown'
  <1> SUFFICES ASSUME TypeOK, StampsAreKnown, Reconcile PROVE StampsAreKnown'
    OBVIOUS
  <1> USE DEF StampsAreKnown
  <1>0. /\ deployment \in Deployments /\ deployment.annotation \in Nat
        /\ secretCache.version \in Nat /\ secret.version \in Nat /\ rv \in Nat
    BY DEF TypeOK, Deployments, Secrets
  <1>1. CASE StartPass
    BY <1>1 DEF StartPass
  <1>2. CASE CreateServiceAccount \/ CreateReadBinding \/ CreateWriteBinding
    BY <1>2 DEF CreateServiceAccount, CreateReadBinding, CreateWriteBinding,
       CreateOrFail
  <1>3. CASE DeleteWriteBinding
    BY <1>3 DEF DeleteWriteBinding
  <1>4. CASE ReconcilePVC
    BY <1>4 DEF ReconcilePVC, AfterPVC
  <1>5. CASE DeleteDeployment
    BY <1>0, <1>5 DEF DeleteDeployment, NoDeployment
  <1>6. CASE CreateDeployment
    BY <1>0, <1>6 DEF CreateDeployment, BuildDeployment
  <1>7. CASE CreateService
    BY <1>7 DEF CreateService
  <1>8. CASE GetDeployment
    BY <1>8 DEF GetDeployment, DeploymentMissing
  <1>9. CASE GetSecret
    BY <1>0, <1>9 DEF GetSecret, SecretVersion, NeedsRoll
  <1>10. CASE RollGet
    BY <1>10 DEF RollGet
  <1>11. CASE RollUpdate
    <2>1. CASE WriteDeployment([deployment EXCEPT !.annotation = rv])
      <3>1. deployment'.annotation = rv
        BY <1>0, <2>1 DEF Deployments
      <3>2. pc = "update" /\ UNCHANGED secretVars
        BY <1>11 DEF RollUpdate
      <3>3. pc' = "idle" \/ rv' = rv
        BY <1>11 DEF RollUpdate
      <3> QED BY <1>0, <3>1, <3>2, <3>3
    <2>2. CASE UNCHANGED depVars
      BY <1>11, <2>2 DEF RollUpdate
    <2> QED BY <1>11, <2>1, <2>2 DEF RollUpdate
  <1>12. CASE GetAgent
    BY <1>12 DEF GetAgent
  <1>13. CASE PutStatus
    BY <1>13 DEF PutStatus
  <1> QED BY <1>1, <1>2, <1>3, <1>4, <1>5, <1>6, <1>7, <1>8, <1>9, <1>10,
             <1>11, <1>12, <1>13 DEF Reconcile

\* No step puts the four versions out of order.
LEMMA NextStamps ==
  TypeOK /\ StampsAreKnown /\ [Next]_vars => StampsAreKnown'
  <1> SUFFICES ASSUME TypeOK, StampsAreKnown, [Next]_vars PROVE StampsAreKnown'
    OBVIOUS
  <1> USE DEF StampsAreKnown
  <1>0. /\ deployment \in Deployments /\ deployment.annotation \in Nat
        /\ secretCache.version \in Nat /\ secret.version \in Nat /\ rv \in Nat
    BY DEF TypeOK, Deployments, Secrets
  <1>1. CASE SyncAgent \/ SyncDeployment \/ SyncBinding \/ SyncSecret
    BY <1>0, <1>1 DEF SyncAgent, SyncDeployment, SyncBinding, SyncSecret
  <1>2. CASE Crash \/ Restart
    BY <1>0, <1>2 DEF Crash, Restart
  <1>3. CASE EditSpec \/ DeleteAgent \/ FinishTermination
    BY <1>3 DEF EditSpec, DeleteAgent, FinishTermination
  <1>4. CASE CollectDeployment \/ DeploymentDeletedByHand
    BY <1>0, <1>4 DEF CollectDeployment, DeploymentDeletedByHand, NoDeployment
  <1>5. CASE PodsChange
    <2>1. deployment'.annotation = deployment.annotation
      BY <1>0, <1>5 DEF PodsChange, Deployments
    <2> QED BY <1>5, <2>1 DEF PodsChange
  <1>6. CASE CollectObject \/ MountClaim \/ ReleasePVC
    BY <1>6 DEF CollectObject, MountClaim, ReleasePVC
  <1>7. CASE WriteSecret
    <2>1. secret'.version >= secret.version
      BY <1>0, <1>7 DEF WriteSecret, TypeOK, Secrets
    <2>2. secret'.version \in Nat
      BY <1>0, <1>7 DEF WriteSecret, TypeOK, Secrets
    <2> QED BY <1>0, <1>7, <2>1, <2>2 DEF WriteSecret
  <1>8. CASE UNCHANGED vars
    BY <1>8 DEF vars
  <1> QED BY <1>1, <1>2, <1>3, <1>4, <1>5, <1>6, <1>7, <1>8, ReconcileStamps
          DEF Next, Environment

\* The cache is behind the server, and the Agent's life only goes one way.
CacheIsBehind == agent.life = "present" => agentCache.life = "present"

Served == KeyIsKept /\ CacheIsBehind

\* A pass that is over asks for the next one.
LEMMA ReconcileServes == IInv /\ Served /\ Reconcile => Served'
  <1> SUFFICES ASSUME IInv, Served, Reconcile PROVE Served' OBVIOUS
  <1> USE DEF Served, KeyIsKept, CacheIsBehind
  <1>1. CASE StartPass
    BY <1>1 DEF StartPass, MayReconcile
  <1>2. CASE CreateServiceAccount \/ CreateReadBinding \/ CreateWriteBinding
    BY <1>2 DEF CreateServiceAccount, CreateReadBinding, CreateWriteBinding,
       CreateOrFail
  <1>3. CASE DeleteWriteBinding
    BY <1>3 DEF DeleteWriteBinding
  <1>4. CASE ReconcilePVC
    BY <1>4 DEF ReconcilePVC, AfterPVC
  <1>5. CASE DeleteDeployment
    BY <1>5 DEF DeleteDeployment
  <1>6. CASE CreateDeployment
    BY <1>6 DEF CreateDeployment
  <1>7. CASE CreateService
    BY <1>7 DEF CreateService
  <1>8. CASE GetDeployment
    BY <1>8 DEF GetDeployment, DeploymentMissing
  <1>9. CASE GetSecret
    BY <1>9 DEF GetSecret
  <1>10. CASE RollGet
    BY <1>10 DEF RollGet
  <1>11. CASE RollUpdate
    BY <1>11 DEF RollUpdate
  <1>12. CASE GetAgent
    BY <1>12 DEF GetAgent
  <1>13. CASE PutStatus
    <2>1. agent'.life = agent.life
      <3>1. CASE agentCurrent /\ agent' = [agentVar EXCEPT
                                             !.status = Mutated(agentVar)]
        BY <3>1 DEF IInv, TypeOK, Agents, CurrentCopiesAreExact
      <3>2. CASE agent' = agent
        BY <3>2
      <3> QED BY <1>13, <3>1, <3>2 DEF PutStatus
    <2>2. agentCache' = agentCache /\ (pc' # "idle" \/ queued')
      BY <1>13 DEF PutStatus
    <2> QED BY <2>1, <2>2
  <1> QED BY <1>1, <1>2, <1>3, <1>4, <1>5, <1>6, <1>7, <1>8, <1>9, <1>10,
             <1>11, <1>12, <1>13 DEF Reconcile

\* Nothing else takes the key but a crash, and the restart puts it back.
LEMMA NextServes == IInv /\ Served /\ [Next]_vars => Served'
  <1> SUFFICES ASSUME IInv, Served, [Next]_vars PROVE Served' OBVIOUS
  <1> USE DEF Served, KeyIsKept, CacheIsBehind
  <1>1. CASE SyncAgent \/ SyncDeployment \/ SyncBinding \/ SyncSecret
    BY <1>1 DEF SyncAgent, SyncDeployment, SyncBinding, SyncSecret,
                SecretToAgents
  <1>2. CASE Crash \/ Restart
    BY <1>2 DEF Crash, Restart
  <1>3. CASE EditSpec \/ DeleteAgent \/ FinishTermination
    <2>1. agent'.life = "present" => agent.life = "present"
      BY <1>3 DEF EditSpec, DeleteAgent, FinishTermination, IInv, TypeOK, Agents
    <2>2. UNCHANGED <<agentCache, pc, queued>>
      BY <1>3 DEF EditSpec, DeleteAgent, FinishTermination
    <2> QED BY <2>1, <2>2
  <1>4. CASE CollectDeployment \/ DeploymentDeletedByHand \/ PodsChange
    BY <1>4 DEF CollectDeployment, DeploymentDeletedByHand, PodsChange
  <1>5. CASE CollectObject \/ MountClaim \/ ReleasePVC \/ WriteSecret
    BY <1>5 DEF CollectObject, MountClaim, ReleasePVC, WriteSecret
  <1>6. CASE UNCHANGED vars
    BY <1>6 DEF vars
  <1> QED BY <1>1, <1>2, <1>3, <1>4, <1>5, <1>6, ReconcileServes
          DEF Next, Environment

\* The invariant holds initially.
LEMMA InitIInv == Init => IInv
  <1> SUFFICES ASSUME Init PROVE IInv OBVIOUS
  <1>1. CurrentCopiesAreExact /\ (freshCurrent => pc = "update")
    BY DEF Init, CurrentCopiesAreExact
  <1>2. StampsAreKnown
    BY DEF Init, StampsAreKnown, NoDeployment
  <1> QED BY <1>1, <1>2, InitType DEF IInv

\* Every step keeps the invariant.
LEMMA NextIInv == IInv /\ [Next]_vars => IInv'
  BY NextType, NextCopies, NextStamps DEF IInv, Copies

\* The inductive invariant: the types, the exact copies and the known stamps.
THEOREM Invariance == Spec => []IInv
  BY InitIInv, NextIInv, PTL DEF Spec

\* No update is ever computed from anything but the server's object: in every
\* reachable state a copy that would be accepted is exact.
THEOREM CopiesExact == Spec => []CurrentCopiesAreExact
  <1>1. IInv => CurrentCopiesAreExact
    BY DEF IInv
  <1> QED BY <1>1, Invariance, PTL

\* The pods are never told to load a version of the Secret the operator has
\* not seen, and what a roll is about to write is never older than what is
\* there.
THEOREM StampsKnown == Spec => []StampsAreKnown
  <1>1. IInv => StampsAreKnown
    BY DEF IInv
  <1> QED BY <1>1, Invariance, PTL

\* For every number of failures, crashes and edits: as long as the Agent is
\* there, the operator will look at it again.
THEOREM KeyKept == Spec => []KeyIsKept
  <1>1. Init => Served
    BY DEF Init, Served, KeyIsKept, CacheIsBehind
  <1> QED BY <1>1, NextServes, Invariance, PTL DEF Spec, Served

-----------------------------------------------------------------------------
(* The steps that write the Deployment or the Secret, by what they do to the
   versions. *)

\* The Deployment's life and stamp, and the Secret's version, are changed by no
\* step but the following: the Secret is published, the Deployment is created
\* without a stamp, removed, or stamped with a version in between.
VersionStep ==
  \/ UNCHANGED <<secret.version, deployment.exists, deployment.annotation>>
  \/ /\ secret'.version = secret.version + 1
     /\ UNCHANGED <<deployment.exists, deployment.annotation>>
  \/ /\ ~deployment.exists /\ deployment'.exists
     /\ deployment'.annotation = 0 /\ UNCHANGED secret.version
  \/ /\ deployment.exists /\ ~deployment'.exists
     /\ deployment'.annotation = 0 /\ UNCHANGED secret.version
  \/ /\ deployment.exists /\ deployment'.exists
     /\ deployment'.annotation \in (deployment.annotation + 1)..secret.version
     /\ UNCHANGED secret.version

\* Every step is one of those that VersionStep describes.
LEMMA NextVersions == IInv /\ [Next]_vars => VersionStep
  <1> SUFFICES ASSUME IInv, [Next]_vars PROVE VersionStep OBVIOUS
  <1> USE DEF VersionStep
  <1>0. /\ deployment \in Deployments /\ deployment.annotation \in Nat
        /\ secret \in Secrets /\ secretCache.version \in Nat
        /\ secret.version \in Nat /\ rv \in Nat
    BY DEF IInv, TypeOK, Deployments, Secrets
  <1>1. CASE UNCHANGED <<deployment, secret>>
    BY <1>1
  <1>2. CASE DeleteDeployment
    BY <1>2 DEF DeleteDeployment, NoDeployment
  <1>3. CASE CreateDeployment
    BY <1>3 DEF CreateDeployment, BuildDeployment
  <1>4. CASE RollUpdate
    <2>1. CASE /\ deployment.exists
               /\ WriteDeployment([deployment EXCEPT !.annotation = rv])
      <3>1. /\ deployment'.annotation = rv
            /\ deployment'.exists = deployment.exists
        BY <1>0, <2>1 DEF Deployments
      <3>2. deployment.annotation <= rv /\ rv <= secret.version
        BY <1>0, <1>4 DEF RollUpdate, IInv, StampsAreKnown
      <3>3. UNCHANGED secret
        BY <1>4 DEF RollUpdate
      <3>4. CASE rv = deployment.annotation
        BY <3>1, <3>3, <3>4
      <3>5. CASE rv # deployment.annotation
        <4>1. rv \in (deployment.annotation + 1)..secret.version
          BY <1>0, <3>2, <3>5
        <4> QED BY <2>1, <3>1, <3>3, <4>1
      <3> QED BY <3>4, <3>5
    <2>2. CASE UNCHANGED depVars
      BY <1>4, <2>2 DEF RollUpdate
    <2> QED BY <1>4, <2>1, <2>2 DEF RollUpdate
  <1>5. CASE CollectDeployment \/ DeploymentDeletedByHand
    BY <1>5 DEF CollectDeployment, DeploymentDeletedByHand, NoDeployment
  <1>6. CASE PodsChange
    <2>1. /\ deployment'.annotation = deployment.annotation
          /\ deployment'.exists = deployment.exists
      BY <1>0, <1>6 DEF PodsChange, Deployments
    <2> QED BY <1>6, <2>1 DEF PodsChange
  <1>7. CASE WriteSecret
    <2>1. \/ secret'.version = secret.version + 1
          \/ secret'.version = secret.version
      BY <1>0, <1>7 DEF WriteSecret, Secrets
    <2> QED BY <1>7, <2>1 DEF WriteSecret
  <1>8. CASE Reconcile /\ ~(DeleteDeployment \/ CreateDeployment \/ RollUpdate)
    <2>1. UNCHANGED <<deployment, secret>>
      BY <1>8 DEF Reconcile, StartPass, CreateServiceAccount, CreateReadBinding,
         CreateWriteBinding, CreateOrFail, DeleteWriteBinding, ReconcilePVC,
         CreateService, GetDeployment, GetSecret, RollGet, GetAgent, PutStatus
    <2> QED BY <1>1, <2>1
  <1>9. CASE \/ SyncAgent \/ SyncDeployment \/ SyncBinding \/ SyncSecret
             \/ Crash \/ Restart
    BY <1>1, <1>9 DEF SyncAgent, SyncDeployment, SyncBinding, SyncSecret, Crash,
       Restart
  <1>10. CASE \/ EditSpec \/ DeleteAgent \/ FinishTermination
              \/ CollectObject \/ MountClaim \/ ReleasePVC
    BY <1>1, <1>10 DEF EditSpec, DeleteAgent, FinishTermination, CollectObject,
       MountClaim, ReleasePVC
  <1>11. CASE UNCHANGED vars
    BY <1>1, <1>11 DEF vars
  <1> QED BY <1>2, <1>3, <1>4, <1>5, <1>6, <1>7, <1>8, <1>9, <1>10, <1>11
          DEF Next, Environment

\* For every number of edits, rotations, failures, crashes and retries: while a
\* Deployment lives, its pods are never sent back to older credentials.
THEOREM NeverRolledBack == Spec => CredentialsNeverRollBack
  <1>1. ASSUME IInv, [Next]_vars
        PROVE  [deployment.exists /\ deployment'.exists
                  => deployment.annotation <= deployment'.annotation]_vars
    <2>1. deployment.annotation \in Nat /\ secret.version \in Nat
      BY <1>1 DEF IInv, TypeOK, Deployments, Secrets
    <2> QED BY <1>1, <2>1, NextVersions DEF VersionStep
  <1> QED BY <1>1, Invariance, PTL DEF Spec, CredentialsNeverRollBack

\* The reconcile loop, with its caches, retries and crashes, implements the
\* abstract rollout.
THEOREM ImplementsRollout == Spec => RolloutSpec
  <1>1. Init => Rollout!Init
    BY DEF Init, Rollout!Init, NoDeployment
  <1>2. ASSUME IInv, [Next]_vars PROVE [Rollout!Next]_(Rollout!vars)
    <2>1. deployment.exists \in BOOLEAN /\ deployment'.exists \in BOOLEAN
      BY <1>2, NextType DEF IInv, TypeOK, Deployments
    <2>2. CASE UNCHANGED <<secret.version, deployment.exists,
                           deployment.annotation>>
      BY <2>2 DEF Rollout!vars
    <2>3. CASE /\ secret'.version = secret.version + 1
               /\ UNCHANGED <<deployment.exists, deployment.annotation>>
      BY <2>3 DEF Rollout!Next, Rollout!Publish
    <2>4. CASE /\ ~deployment.exists /\ deployment'.exists
               /\ deployment'.annotation = 0 /\ UNCHANGED secret.version
      BY <2>1, <2>4 DEF Rollout!Next, Rollout!Deploy
    <2>5. CASE /\ deployment.exists /\ ~deployment'.exists
               /\ deployment'.annotation = 0 /\ UNCHANGED secret.version
      BY <2>1, <2>5 DEF Rollout!Next, Rollout!Remove
    <2>6. CASE /\ deployment.exists /\ deployment'.exists
               /\ deployment'.annotation
                    \in (deployment.annotation + 1)..secret.version
               /\ UNCHANGED secret.version
      BY <2>1, <2>6 DEF Rollout!Next, Rollout!Roll
    <2> QED BY <1>2, <2>2, <2>3, <2>4, <2>5, <2>6, NextVersions DEF VersionStep
  <1> QED BY <1>1, <1>2, Invariance, PTL DEF Spec, RolloutSpec, Rollout!Spec
=============================================================================
