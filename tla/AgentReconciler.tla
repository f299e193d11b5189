--------------------------- MODULE AgentReconciler ---------------------------
(***************************************************************************)
(* The reconcile loop of one Agent: operator/internal/controller and       *)
(* operator/internal/services, one step per API call.                      *)
(*                                                                         *)
(* The API server is the truth: agent, deployment, objects, pvc, secret.   *)
(* Every Get of the controller-runtime client is answered by an informer   *)
(* cache (agentCache, deploymentCache, bindingCache, secretCache) that     *)
(* catches up with the server at some later time; every Create, Update and *)
(* Delete goes to the server.  An update is refused with a conflict unless *)
(* the copy it is computed from is the server's current version; instead   *)
(* of resource versions, the model remembers for each copy whether it is   *)
(* current (agentSynced, agentCurrent, deploymentSynced, freshCurrent).    *)
(*                                                                         *)
(* One manager runs one worker (MaxConcurrentReconciles is 1), so that the *)
(* steps of one pass interleave with the informers, the users and the rest *)
(* of the cluster, and not with another pass.                              *)
(***************************************************************************)
EXTENDS Naturals, FiniteSets

CONSTANTS
  Specs,             \* the specs users write: records [write, history]
  MaxGeneration,     \* bound: edits of the Agent's spec, plus one
  MaxSecretVersion,  \* bound: versions of the credentials Secret
  MaxReplicas,       \* bound: pods ready at once (two while a rollout surges)
  MaxPodEvents,      \* bound: changes of the number of ready pods
  MaxFaults,         \* bound: failed API calls, operator crashes, and
                     \*   Deployments deleted by hand
  Steps,             \* attempts of RetryOnConflict (retry.DefaultRetry: 5)
  Deletable          \* whether users may delete the Agent

ASSUME SpecsAssumption ==
  Specs # {} /\ Specs \subseteq [write : BOOLEAN, history : BOOLEAN]
ASSUME BoundsAssumption ==
  /\ MaxGeneration \in Nat \ {0} /\ MaxSecretVersion \in Nat
  /\ MaxReplicas \in Nat /\ MaxPodEvents \in Nat /\ MaxFaults \in Nat
  /\ Steps \in Nat \ {0}
ASSUME DeletableAssumption == Deletable \in BOOLEAN

VARIABLES
  agent, agentCache, agentSynced,
  deployment, deploymentCache, deploymentSynced,
  objects, bindingCache,       \* the other objects, the write binding's cache
  pvc, mounted,                \* the history claim; pods have mounted it
  secret, secretCache,
  pc,                          \* where the worker is in its pass
  agentVar, agentCurrent,      \* Reconcile's agent, and is it current
  depVar,                      \* observeDeployment's dep
  rv, freshCurrent,            \* rollIfCredentialsChanged's rv and fresh
  mark,                        \* the status write under way
  tries,                       \* conflicts met by the current RetryOnConflict
  queued,                      \* the Agent's key is in the work queue
  faults, podEvents            \* how many of the bounded events happened

agentVars  == <<agent, agentCache, agentSynced>>
depVars    == <<deployment, deploymentCache, deploymentSynced, mounted>>
objectVars == <<objects, bindingCache, pvc>>
secretVars == <<secret, secretCache>>
locals     == <<agentVar, agentCurrent, depVar, rv, freshCurrent, mark, tries>>
vars == <<agentVars, depVars, objectVars, secretVars, pc, locals, queued,
          faults, podEvents>>

-----------------------------------------------------------------------------
(* Data. *)

Lives     == {"present", "terminating", "gone"}
Phases    == {"", "Pending", "Running", "Ready", "Failed"}
Kinds     == {"serviceAccount", "readBinding", "writeBinding", "service"}
Marks     == {"None", "Running", "Ready", "Failed", "Reset"}
Locations == {"idle", "down", "serviceAccount", "readBinding", "writeBinding",
              "pvc", "deleteOld", "createDeployment", "createService",
              "observe", "secret", "roll", "update", "get", "put"}

\* AgentStatus: refs stands for deploymentRef and serviceRef, which the code
\* sets and clears together; conditions carry wording only.
Statuses == [phase : Phases, observedGeneration : Nat, refs : BOOLEAN,
             readyReplicas : Nat, startedAt : BOOLEAN]
NewStatus == [phase |-> "", observedGeneration |-> 0, refs |-> FALSE,
              readyReplicas |-> 0, startedAt |-> FALSE]

Agents  == [life : Lives, generation : Nat,
            spec : [write : BOOLEAN, history : BOOLEAN], status : Statuses]
NoAgent == [life |-> "gone", generation |-> 0,
            spec |-> [write |-> FALSE, history |-> FALSE],
            status |-> NewStatus]

\* A Deployment: the generation it was built from, whether its pods mount the
\* history volume, the credentials annotation of its pod template (0: none)
\* and the ready pods its controller reports.
Deployments  == [exists : BOOLEAN, generation : Nat, history : BOOLEAN,
                 annotation : Nat, readyReplicas : Nat]
NoDeployment == [exists |-> FALSE, generation |-> 0, history |-> FALSE,
                 annotation |-> 0, readyReplicas |-> 0]
BuildDeployment(a) == [exists |-> TRUE, generation |-> a.generation,
                       history |-> a.spec.history, annotation |-> 0,
                       readyReplicas |-> 0]

Secrets == [exists : BOOLEAN, version : Nat]

\* The agent's kinds that carry an owner reference and are garbage collected.
Owned == {"serviceAccount", "service"}

-----------------------------------------------------------------------------
(* Building blocks of the worker's steps. *)

\* Reconcile returns, and its variables go out of scope.
Return(again) ==
  /\ pc' = "idle"
  /\ agentVar' = NoAgent /\ agentCurrent' = FALSE
  /\ depVar' = NoDeployment
  /\ rv' = 0 /\ freshCurrent' = FALSE
  /\ mark' = "None" /\ tries' = 0
  /\ queued' = (queued \/ again)

Goto(step) == pc' = step /\ UNCHANGED <<locals, queued>>

\* Enter updateRetry.
StartMark(m) ==
  /\ pc' = "get" /\ mark' = m /\ tries' = 0
  /\ UNCHANGED <<agentVar, agentCurrent, depVar, rv, freshCurrent, queued>>

\* Mutant of Conflict: a retry loop without the bound of DefaultRetry.
ConflictForEver(step) ==
  /\ pc' = step /\ tries' = tries + 1
  /\ UNCHANGED <<agentVar, agentCurrent, depVar, rv, freshCurrent, mark,
                 queued>>

\* RetryOnConflict: try again from step, or give up with the conflict.
Conflict(step) ==
  IF tries + 1 < Steps
  THEN /\ pc' = step /\ tries' = tries + 1
       /\ UNCHANGED <<agentVar, agentCurrent, depVar, rv, freshCurrent, mark,
                      queued>>
  ELSE Return(TRUE)

NoFault == UNCHANGED faults
Fault   == faults < MaxFaults /\ faults' = faults + 1

Create(kind) == objects' = objects \cup {kind}

\* A write moves the server's version: every copy read before is out of date.
WriteAgent(a) ==
  agent' = a /\ agentSynced' = FALSE /\ UNCHANGED agentCache
WriteDeployment(d) ==
  /\ deployment' = d /\ deploymentSynced' = FALSE /\ UNCHANGED deploymentCache
  /\ mounted' = (mounted /\ d.exists)

-----------------------------------------------------------------------------
Init ==
  /\ \E s \in Specs : agent = [life |-> "present", generation |-> 1,
                               spec |-> s, status |-> NewStatus]
  /\ agentCache = agent /\ agentSynced = TRUE
  /\ deployment = NoDeployment /\ deploymentCache = NoDeployment
  /\ deploymentSynced = TRUE
  /\ objects = {} /\ bindingCache = FALSE
  /\ pvc = "absent" /\ mounted = FALSE
  /\ secret \in {[exists |-> FALSE, version |-> 0],
                 [exists |-> TRUE, version |-> 1]}
  /\ secret.version <= MaxSecretVersion
  /\ secretCache = secret
  /\ pc = "idle"
  /\ agentVar = NoAgent /\ agentCurrent = FALSE /\ depVar = NoDeployment
  /\ rv = 0 /\ freshCurrent = FALSE /\ mark = "None" /\ tries = 0
  /\ queued = TRUE /\ faults = 0 /\ podEvents = 0

-----------------------------------------------------------------------------
(* Reconcile: the worker takes the key and gets the Agent from the cache. *)

\* Mutant of MayReconcile: the deletion timestamp is not looked at.
MayReconcileTerminating(a) == a.life # "gone"

\* The early returns: the Agent is not found, or has a deletion timestamp.
MayReconcile(a) == a.life = "present"

StartPass ==
  /\ pc = "idle" /\ queued
  /\ queued' = FALSE
  /\ IF MayReconcile(agentCache)
     THEN /\ pc' = "serviceAccount"
          /\ agentVar' = agentCache /\ agentCurrent' = agentSynced
     ELSE UNCHANGED <<pc, agentVar, agentCurrent>>
  /\ UNCHANGED <<agentVars, depVars, objectVars, secretVars, depVar, rv,
                 freshCurrent, mark, tries, faults, podEvents>>

(* ReconcileRBAC.  A create that finds the object answers AlreadyExists,
   which the code takes as success. *)

CreateOrFail(kind, step) ==
  /\ \/ Create(kind) /\ Goto(step) /\ NoFault
     \/ (Create(kind) \/ UNCHANGED objects) /\ Return(TRUE) /\ Fault
  /\ UNCHANGED <<agentVars, depVars, bindingCache, pvc, secretVars, podEvents>>

CreateServiceAccount ==
  pc = "serviceAccount" /\ CreateOrFail("serviceAccount", "readBinding")

CreateReadBinding ==
  pc = "readBinding" /\ CreateOrFail("readBinding", "writeBinding")

CreateWriteBinding ==
  /\ pc = "writeBinding" /\ agentVar.spec.write
  /\ CreateOrFail("writeBinding", "pvc")

\* Mutant of DeleteWriteBinding: turning spec.writeEnabled off is ignored.
KeepWriteBinding ==
  /\ pc = "writeBinding" /\ ~agentVar.spec.write /\ Goto("pvc")
  /\ UNCHANGED <<agentVars, depVars, objectVars, secretVars, faults, podEvents>>

\* deleteRoleBinding: nothing to do when the cache has no binding; a Delete
\* that finds none returns NotFound, which is not tolerated.
DeleteWriteBinding ==
  /\ pc = "writeBinding" /\ ~agentVar.spec.write
  /\ \/ /\ ~bindingCache
        /\ Goto("pvc") /\ UNCHANGED objects /\ NoFault
     \/ /\ bindingCache /\ "writeBinding" \in objects
        /\ objects' = objects \ {"writeBinding"} /\ Goto("pvc") /\ NoFault
     \/ /\ bindingCache /\ "writeBinding" \notin objects
        /\ Return(TRUE) /\ UNCHANGED objects /\ NoFault
     \/ /\ bindingCache /\ Fault /\ Return(TRUE)
        /\ objects' \in {objects, objects \ {"writeBinding"}}
  /\ UNCHANGED <<agentVars, depVars, bindingCache, pvc, secretVars, podEvents>>

(* ReconcilePVC, and the choice Reconcile makes after it.  A claim that is
   terminating still exists: creating it again succeeds without effect. *)

AfterPVC ==
  LET s == agentVar.status
  IN  Goto(IF ~s.refs THEN "createDeployment"
           ELSE IF s.observedGeneration # agentVar.generation THEN "deleteOld"
           ELSE "observe")

\* Mutant of ClaimAfter: turning history off leaves the claim.
ClaimAfterEnsureOnly ==
  IF agentVar.spec.history /\ pvc = "absent" THEN "bound" ELSE pvc

ClaimAfter ==
  CASE agentVar.spec.history /\ pvc = "absent" -> "bound"
    [] ~agentVar.spec.history /\ pvc = "bound" -> "terminating"
    [] OTHER -> pvc

ReconcilePVC ==
  /\ pc = "pvc"
  /\ \/ pvc' = ClaimAfter /\ AfterPVC /\ NoFault
     \/ pvc' \in {pvc, ClaimAfter} /\ Return(TRUE) /\ Fault
  /\ UNCHANGED <<agentVars, depVars, objects, bindingCache, secretVars,
                 podEvents>>

(* The spec's generation changed: DeleteDeployment, then ResetForRerun.  The
   Deployment is looked up in the cache: one it does not hold yet is kept. *)

DeleteDeployment ==
  /\ pc = "deleteOld"
  /\ \/ /\ IF deploymentCache.exists /\ deployment.exists
           THEN WriteDeployment(NoDeployment) ELSE UNCHANGED depVars
        /\ StartMark("Reset") /\ NoFault
     \/ /\ deploymentCache.exists /\ Fault /\ Return(TRUE)
        /\ \/ deployment.exists /\ WriteDeployment(NoDeployment)
           \/ UNCHANGED depVars
  /\ UNCHANGED <<agentVars, objectVars, secretVars, podEvents>>

(* startDeployment: CreateDeployment, then MarkRunning; MarkFailed and the
   error when a create fails.  A Deployment that exists ends CreateDeployment
   before it has created the Service. *)

CreateDeployment ==
  /\ pc = "createDeployment"
  /\ \/ /\ deployment.exists
        /\ StartMark("Running") /\ UNCHANGED depVars /\ NoFault
     \/ /\ ~deployment.exists
        /\ WriteDeployment(BuildDeployment(agentVar))
        /\ Goto("createService") /\ NoFault
     \/ /\ Fault /\ StartMark("Failed")
        /\ \/ ~deployment.exists /\ WriteDeployment(BuildDeployment(agentVar))
           \/ UNCHANGED depVars
  /\ UNCHANGED <<agentVars, objectVars, secretVars, podEvents>>

CreateService ==
  /\ pc = "createService"
  /\ \/ Create("service") /\ StartMark("Running") /\ NoFault
     \/ (Create("service") \/ UNCHANGED objects) /\ StartMark("Failed") /\ Fault
  /\ UNCHANGED <<agentVars, depVars, bindingCache, pvc, secretVars, podEvents>>

(* observeDeployment.  The Deployment and the Secret are read one after the
   other, each from its own cache. *)

\* Mutant of DeploymentMissing: the missing Deployment is waited for.
DeploymentAwaited == Return(TRUE)

DeploymentMissing == StartMark("Reset")

GetDeployment ==
  /\ pc = "observe"
  /\ IF deploymentCache.exists
     THEN /\ pc' = "secret" /\ depVar' = deploymentCache
          /\ UNCHANGED <<agentVar, agentCurrent, rv, freshCurrent, mark, tries,
                         queued>>
     ELSE DeploymentMissing
  /\ UNCHANGED <<agentVars, depVars, objectVars, secretVars, faults, podEvents>>

\* Mutant of CheckReady: pods that are not ready start the Agent over.
CheckReadyOrReset ==
  IF depVar.readyReplicas > 0 THEN StartMark("Ready") ELSE StartMark("Reset")

\* Mutant of CheckReady: pods that are not ready are not waited for.
CheckReadyOnce ==
  IF depVar.readyReplicas > 0 THEN StartMark("Ready") ELSE Return(FALSE)

\* The readiness check that ends observeDeployment: MarkReady when the phase
\* or the count differs from the status read at the start of the pass, else
\* wait for the next poll.
CheckReady ==
  IF /\ depVar.readyReplicas > 0
     /\ \/ agentVar.status.phase # "Ready"
        \/ agentVar.status.readyReplicas # depVar.readyReplicas
  THEN StartMark("Ready")
  ELSE Return(TRUE)

SecretVersion == IF secretCache.exists THEN secretCache.version ELSE 0

\* Mutant of NeedsRoll: a missing Secret is taken for one without a version.
NeedsRollWhenMissing == depVar.annotation # SecretVersion

\* Mutant of NeedsRoll: a Deployment without the annotation is up to date.
NeedsRollOnlyStamped == depVar.annotation \notin {0, SecretVersion}

\* A missing Secret has nothing to roll; a missing annotation differs from
\* every version.
NeedsRoll == secretCache.exists /\ depVar.annotation # SecretVersion

GetSecret ==
  /\ pc = "secret"
  /\ IF NeedsRoll
     THEN /\ pc' = "roll" /\ rv' = SecretVersion /\ tries' = 0
          /\ UNCHANGED <<agentVar, agentCurrent, depVar, freshCurrent, mark,
                         queued>>
     ELSE CheckReady
  /\ UNCHANGED <<agentVars, depVars, objectVars, secretVars, faults, podEvents>>

\* Mutant of SentVersionIsCurrent: an Update without a resource version.
SentVersionIsIgnored == TRUE

\* Whether the resource version of the copy just read, which the Update sends,
\* is the server's.
SentVersionIsCurrent == deploymentSynced

\* The body of the retry in rollIfCredentialsChanged: its Get ...
RollGet ==
  /\ pc = "roll"
  /\ \/ ~deploymentCache.exists /\ Return(TRUE)
     \/ /\ deploymentCache.exists /\ deploymentCache.annotation = rv
        /\ CheckReady
     \/ /\ deploymentCache.exists /\ deploymentCache.annotation # rv
        /\ pc' = "update" /\ freshCurrent' = SentVersionIsCurrent
        /\ UNCHANGED <<agentVar, agentCurrent, depVar, rv, mark, tries, queued>>
  /\ UNCHANGED <<agentVars, depVars, objectVars, secretVars, faults, podEvents>>

\* ... and its Update, which carries the whole copy it read.
RollUpdate ==
  /\ pc = "update"
  /\ \/ /\ deployment.exists /\ freshCurrent
        /\ WriteDeployment([deployment EXCEPT !.annotation = rv])
        /\ Return(TRUE) /\ NoFault
     \/ /\ deployment.exists /\ ~freshCurrent
        /\ Conflict("roll") /\ UNCHANGED depVars /\ NoFault
     \/ /\ ~deployment.exists
        /\ Return(TRUE) /\ UNCHANGED depVars /\ NoFault
     \/ /\ Fault /\ Return(TRUE)
        /\ \/ /\ deployment.exists /\ freshCurrent
              /\ WriteDeployment([deployment EXCEPT !.annotation = rv])
           \/ UNCHANGED depVars
  /\ UNCHANGED <<agentVars, objectVars, secretVars, podEvents>>

(* StatusService: updateRetry gets the Agent again, changes the status of the
   copy it got, and updates the server's. *)

GetAgent ==
  /\ pc = "get"
  /\ IF agentCache.life = "gone"
     THEN Return(TRUE)
     ELSE /\ pc' = "put"
          /\ agentVar' = agentCache /\ agentCurrent' = agentSynced
          /\ UNCHANGED <<depVar, rv, freshCurrent, mark, tries, queued>>
  /\ UNCHANGED <<agentVars, depVars, objectVars, secretVars, faults, podEvents>>

MarkRunning(a) == [a.status EXCEPT !.phase = "Running", !.refs = TRUE,
                                   !.observedGeneration = a.generation]
\* Mutant of MarkReady: the count is not written.
MarkReadyUncounted(a, ready) ==
  [a.status EXCEPT !.phase = "Ready", !.observedGeneration = a.generation,
                   !.startedAt = TRUE]
MarkReady(a, ready) == [a.status EXCEPT !.phase = "Ready",
                                        !.readyReplicas = ready,
                                        !.observedGeneration = a.generation,
                                        !.startedAt = TRUE]
MarkFailed(a) == [a.status EXCEPT !.phase = "Failed",
                                  !.observedGeneration = a.generation]
ResetForRerun(a) == [a.status EXCEPT !.phase = "Pending", !.refs = FALSE,
                                     !.readyReplicas = 0,
                                     !.observedGeneration = 0,
                                     !.startedAt = FALSE]

Mutated(a) == CASE mark = "Running" -> MarkRunning(a)
                [] mark = "Ready"   -> MarkReady(a, depVar.readyReplicas)
                [] mark = "Failed"  -> MarkFailed(a)
                [] OTHER            -> ResetForRerun(a)

PutStatus ==
  LET written == [agentVar EXCEPT !.status = Mutated(agentVar)]
  IN  /\ pc = "put"
      /\ \/ /\ agentCurrent
            /\ WriteAgent(written) /\ Return(TRUE) /\ NoFault
         \/ /\ ~agentCurrent /\ agent.life # "gone"
            /\ Conflict("get") /\ UNCHANGED agentVars /\ NoFault
         \/ /\ agent.life = "gone"
            /\ Return(TRUE) /\ UNCHANGED agentVars /\ NoFault
         \/ /\ Fault /\ Return(TRUE)
            /\ (agentCurrent /\ WriteAgent(written)) \/ UNCHANGED agentVars
      /\ UNCHANGED <<depVars, objectVars, secretVars, podEvents>>

Reconcile ==
  \/ StartPass \/ CreateServiceAccount \/ CreateReadBinding
  \/ CreateWriteBinding \/ DeleteWriteBinding \/ ReconcilePVC
  \/ DeleteDeployment \/ CreateDeployment \/ CreateService
  \/ GetDeployment \/ GetSecret \/ RollGet \/ RollUpdate
  \/ GetAgent \/ PutStatus

-----------------------------------------------------------------------------
(* The informers.  An event of the Agent, and some of the Secret, also put the
   Agent's key in the work queue. *)

SyncAgent ==
  /\ pc # "down" /\ ~agentSynced
  /\ agentCache' = agent /\ agentSynced' = TRUE /\ queued' = TRUE
  /\ UNCHANGED <<agent, depVars, objectVars, secretVars, pc, locals, faults,
                 podEvents>>

SyncDeployment ==
  /\ pc # "down" /\ ~deploymentSynced
  /\ deploymentCache' = deployment /\ deploymentSynced' = TRUE
  /\ UNCHANGED <<deployment, mounted, agentVars, objectVars, secretVars, pc,
                 locals, queued, faults, podEvents>>

SyncBinding ==
  /\ pc # "down" /\ bindingCache # ("writeBinding" \in objects)
  /\ bindingCache' = ("writeBinding" \in objects)
  /\ UNCHANGED <<objects, pvc, agentVars, depVars, secretVars, pc, locals,
                 queued, faults, podEvents>>

\* The filter on Secret events: a deletion is not one.
SecretDataChanged == secret.exists

\* The Agents that use the Secret are queued.
SecretToAgents == queued' = TRUE

\* Nobody is queued for an update of the Secret that changes no data, nor when
\* the List of the Agents fails.
SyncSecret ==
  /\ pc # "down" /\ secretCache # secret
  /\ secretCache' = secret
  /\ (SecretDataChanged /\ SecretToAgents) \/ UNCHANGED queued
  /\ UNCHANGED <<secret, agentVars, depVars, objectVars, pc, locals, faults,
                 podEvents>>

-----------------------------------------------------------------------------
(* The operator's process: a crash loses the worker, the caches and the queue;
   the next start lists everything and queues every Agent. *)

Crash ==
  /\ pc # "down" /\ Fault
  /\ pc' = "down" /\ queued' = FALSE
  /\ agentVar' = NoAgent /\ agentCurrent' = FALSE /\ depVar' = NoDeployment
  /\ rv' = 0 /\ freshCurrent' = FALSE /\ mark' = "None" /\ tries' = 0
  /\ UNCHANGED <<agentVars, depVars, objectVars, secretVars, podEvents>>

Restart ==
  /\ pc = "down"
  /\ pc' = "idle" /\ queued' = TRUE
  /\ agentCache' = agent /\ agentSynced' = TRUE
  /\ deploymentCache' = deployment /\ deploymentSynced' = TRUE
  /\ bindingCache' = ("writeBinding" \in objects) /\ secretCache' = secret
  /\ UNCHANGED <<agent, deployment, mounted, objects, pvc, secret, locals,
                 faults, podEvents>>

-----------------------------------------------------------------------------
(* Users and the rest of the cluster. *)

EditSpec ==
  /\ agent.life = "present" /\ agent.generation < MaxGeneration
  /\ \E s \in Specs :
       WriteAgent([agent EXCEPT !.spec = s, !.generation = @ + 1])
  /\ agentCurrent' = FALSE
  /\ UNCHANGED <<depVars, objectVars, secretVars, pc, agentVar, depVar, rv,
                 freshCurrent, mark, tries, queued, faults, podEvents>>

\* Background deletion removes the Agent at once; foreground deletion keeps
\* it, terminating, until its dependents are gone.
DeleteAgent ==
  /\ Deletable /\ agent.life = "present"
  /\ \E l \in {"terminating", "gone"} : WriteAgent([agent EXCEPT !.life = l])
  /\ agentCurrent' = FALSE
  /\ UNCHANGED <<depVars, objectVars, secretVars, pc, agentVar, depVar, rv,
                 freshCurrent, mark, tries, queued, faults, podEvents>>

\* The garbage collector removes what the Agent owns, one object at a time.
CollectDeployment ==
  /\ agent.life # "present" /\ deployment.exists
  /\ WriteDeployment(NoDeployment) /\ freshCurrent' = FALSE
  /\ UNCHANGED <<agentVars, objectVars, secretVars, pc, agentVar, agentCurrent,
                 depVar, rv, mark, tries, queued, faults, podEvents>>

CollectObject ==
  /\ agent.life # "present"
  /\ \/ \E kind \in Owned \cap objects :
          objects' = objects \ {kind} /\ UNCHANGED pvc
     \/ pvc = "bound" /\ pvc' = "terminating" /\ UNCHANGED objects
  /\ UNCHANGED <<agentVars, depVars, bindingCache, secretVars, pc, locals,
                 queued, faults, podEvents>>

FinishTermination ==
  /\ agent.life = "terminating"
  /\ ~deployment.exists /\ Owned \cap objects = {} /\ pvc = "absent"
  /\ WriteAgent([agent EXCEPT !.life = "gone"])
  /\ agentCurrent' = FALSE
  /\ UNCHANGED <<depVars, objectVars, secretVars, pc, agentVar, depVar, rv,
                 freshCurrent, mark, tries, queued, faults, podEvents>>

\* A claim is protected while pods that have been scheduled mount it; no pod is
\* scheduled with a claim that is missing or terminating.
MountClaim ==
  /\ deployment.exists /\ deployment.history /\ pvc = "bound" /\ ~mounted
  /\ mounted' = TRUE
  /\ UNCHANGED <<deployment, deploymentCache, deploymentSynced, agentVars,
                 objectVars, secretVars, pc, locals, queued, faults, podEvents>>

ReleasePVC ==
  /\ pvc = "terminating" /\ ~mounted
  /\ pvc' = "absent"
  /\ UNCHANGED <<agentVars, depVars, objects, bindingCache, secretVars, pc,
                 locals, queued, faults, podEvents>>

\* kubectl edit, create and delete of the credentials Secret.
WriteSecret ==
  /\ \/ /\ secret.version < MaxSecretVersion
        /\ secret' = [exists |-> TRUE, version |-> secret.version + 1]
     \/ secret.exists /\ secret' = [secret EXCEPT !.exists = FALSE]
  /\ UNCHANGED <<secretCache, agentVars, depVars, objectVars, pc, locals,
                 queued, faults, podEvents>>

DeploymentDeletedByHand ==
  /\ deployment.exists /\ Fault
  /\ WriteDeployment(NoDeployment) /\ freshCurrent' = FALSE
  /\ UNCHANGED <<agentVars, objectVars, secretVars, pc, agentVar, agentCurrent,
                 depVar, rv, mark, tries, queued, podEvents>>

PodsChange ==
  /\ deployment.exists /\ podEvents < MaxPodEvents
  /\ podEvents' = podEvents + 1
  /\ \E n \in 0..MaxReplicas \ {deployment.readyReplicas} :
       /\ n > 0 /\ deployment.history => mounted
       /\ WriteDeployment([deployment EXCEPT !.readyReplicas = n])
  /\ freshCurrent' = FALSE
  /\ UNCHANGED <<agentVars, objectVars, secretVars, pc, agentVar, agentCurrent,
                 depVar, rv, mark, tries, queued, faults>>

Environment ==
  \/ EditSpec \/ DeleteAgent \/ CollectDeployment \/ CollectObject
  \/ FinishTermination \/ MountClaim \/ ReleasePVC \/ WriteSecret
  \/ DeploymentDeletedByHand \/ PodsChange

Next ==
  \/ Reconcile
  \/ SyncAgent \/ SyncDeployment \/ SyncBinding \/ SyncSecret
  \/ Crash \/ Restart
  \/ Environment

Spec == Init /\ [][Next]_vars

(* The work queue hands the key to the worker, a pass runs on, the watches
   deliver, the operator is restarted (a Deployment of its own runs it) and
   the cluster's controllers collect garbage.  Users, pods and failures owe
   nobody anything. *)
Fairness ==
  /\ WF_vars(Reconcile) /\ WF_vars(Restart)
  /\ WF_vars(SyncAgent) /\ WF_vars(SyncDeployment)
  /\ WF_vars(SyncBinding) /\ WF_vars(SyncSecret)
  /\ WF_vars(CollectDeployment) /\ WF_vars(CollectObject)
  /\ WF_vars(FinishTermination) /\ WF_vars(ReleasePVC)

FairSpec == Spec /\ Fairness

-----------------------------------------------------------------------------
(* Invariants. *)

\* Type correctness: of the objects, the caches' copies and the variables of
\* the pass.
TypeOK ==
  /\ agent \in Agents /\ agentCache \in Agents /\ agentSynced \in BOOLEAN
  /\ deployment \in Deployments /\ deploymentCache \in Deployments
  /\ deploymentSynced \in BOOLEAN
  /\ objects \subseteq Kinds /\ bindingCache \in BOOLEAN
  /\ pvc \in {"absent", "bound", "terminating"} /\ mounted \in BOOLEAN
  /\ secret \in Secrets /\ secretCache \in Secrets
  /\ pc \in Locations
  /\ agentVar \in Agents /\ agentCurrent \in BOOLEAN
  /\ depVar \in Deployments
  /\ rv \in Nat /\ freshCurrent \in BOOLEAN
  /\ mark \in Marks /\ tries \in 0..Steps
  /\ queued \in BOOLEAN /\ faults \in Nat /\ podEvents \in Nat

\* A copy of the Agent or of the Deployment that would be accepted in an update
\* is the server's object, spec and all, wherever it was read and however many
\* edits, informer events, retries and restarts came between: what makes the
\* read-modify-write loops of updateRetry and rollIfCredentialsChanged safe.
CurrentCopiesAreExact ==
  /\ agentSynced => agentCache = agent
  /\ agentCurrent => agentVar = agent
  /\ deploymentSynced => deploymentCache = deployment
  /\ freshCurrent => deploymentCache = deployment

\* The pod template is never stamped with a version of the Secret the operator
\* has not seen, nor with one older than what it carries: rv, read before the
\* retry loop and written at its end, is still at least the annotation.
StampsAreKnown ==
  /\ deployment.annotation <= secretCache.version
  /\ secretCache.version <= secret.version
  /\ pc \in {"roll", "update"} => /\ deployment.annotation <= rv
                                  /\ rv <= secretCache.version

\* The loop does not fall asleep: while the Agent is there and the operator
\* runs, a pass is under way or the key is queued, whatever call failed, retry
\* was given up or copy of the Agent was old; only the returns for an Agent that
\* is gone do not ask for another pass.  All that converges rests on it.
KeyIsKept == agent.life = "present" => pc # "idle" \/ queued

-----------------------------------------------------------------------------
(* What a step may never do. *)

\* Rotated credentials are never rolled back: while a Deployment lives, the
\* Secret version its pods are told to load only grows, although the version
\* is read from one cache and the Deployment from another, retries included.
CredentialsNeverRollBack ==
  [][deployment.exists /\ deployment'.exists
       => deployment.annotation <= deployment'.annotation]_vars

\* The refinement: the Secret and the Deployment of this module, seen through
\* their versions, are a CredentialRollout.
Rollout == INSTANCE CredentialRollout
             WITH published <- secret.version, deployed <- deployment.exists,
                  stamped <- deployment.annotation
RolloutSpec == Rollout!Spec

-----------------------------------------------------------------------------
(* What must eventually hold.  The bounds on edits, rotations, pod events and
   failures make the environment quiet in the end; each property says where
   the operator then settles. *)

Present == agent.life = "present"

\* ReconcileRBAC converges: whatever edits, stale binding cache, failed calls
\* and restarts came before, the write binding is in the end there exactly if
\* the spec asks for it, and the ServiceAccount and the read binding are there.
BindingsFollowSpec ==
  <>[](Present => /\ ("writeBinding" \in objects) = agent.spec.write
                  /\ {"serviceAccount", "readBinding"} \subseteq objects)

\* ReconcilePVC converges: with history on there is in the end a claim that is
\* not being deleted, with history off none; unless the Deployment is left with
\* an older spec (see ObservedSpecIsDeployed), whose pods may hold the claim.
ClaimFollowsSpec ==
  <>[](Present /\ deployment.generation = agent.generation
         => (pvc = "bound") = agent.spec.history)

\* A Deployment deleted by hand, by a spec change or never created because of a
\* failure comes back, and the status refers to it.
DeploymentComesBack ==
  <>[](Present => deployment.exists /\ agent.status.refs)

\* Credential rotation converges: in the end the pods run with the Secret's
\* last version, also when it was rotated while a roll was under way, between
\* two reads of a pass, or while the operator was down.
CredentialsConverge ==
  <>[](Present /\ secret.exists => deployment.annotation = secret.version)

\* Pods that stay ready are reported: the phase is in the end Ready, with their
\* number.
ReadyIsReported ==
  <>[](Present /\ deployment.readyReplicas > 0
         => /\ agent.status.phase = "Ready"
            /\ agent.status.readyReplicas = deployment.readyReplicas)

\* The loop has a fixed point: once the environment is quiet the polls stop
\* writing to the API server; no status flaps and no Deployment is rolled or
\* rebuilt for ever.
ReconcilerSettles == <>[][FALSE]_<<agent, deployment, objects, pvc>>

\* Deleting the Agent wins against the pass under way: what a pass creates
\* after the deletion is collected, and nothing is created again.
DeletionIsFinal ==
  [](agent.life # "present"
       => <>[](~deployment.exists /\ Owned \cap objects = {} /\ pvc = "absent"))

-----------------------------------------------------------------------------
(* What the code's comments and documents say of it, and it does not do.  Each
   is the property of one run that finds it violated. *)

\* "ObservedGeneration is the spec generation last processed by the
\* controller" (agent_types.go:136): when it is the spec's generation, the
\* Deployment is the one built from it.
ObservedSpecIsDeployed ==
  /\ agent.status.refs /\ agent.status.observedGeneration = agent.generation
  /\ deployment.exists
  => deployment.generation = agent.generation

\* "ServiceRef is the Service fronting the agent" (agent_types.go:146): a
\* status that refers to the Service has one in the end.
ServiceIsCreated ==
  <>[](Present /\ agent.status.refs => "service" \in objects)
=============================================================================
