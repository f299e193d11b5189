---------------------------- MODULE RoleBindings ----------------------------
(***************************************************************************)
(* The ClusterRoleBindings of several Agents, reconciled by several        *)
(* managers (services/rbac_service.go).  A binding has no namespace: its   *)
(* name is made of the Agent's name alone, so that Agents of one name in   *)
(* two namespaces share it.  It has no owner: nobody collects it.  Leader  *)
(* election is off, so that the old manager and the new one work side by   *)
(* side during a rolling update.                                           *)
(*                                                                         *)
(* A step is one call of the API; the ServiceAccount has a namespace and   *)
(* an owner, and is AgentReconciler's.                                     *)
(***************************************************************************)
EXTENDS Naturals

CONSTANTS
  Agents,        \* namespace and name
  Names,         \* of bindings, without the role's suffix
  BindingName,   \* of each Agent
  Managers,      \* pods of the operator's Deployment
  Nobody,
  MaxEdits,      \* bound: what users do
  MaxFaults      \* bound: failing calls and managers that stop

ASSUME BindingConstants ==
  /\ BindingName \in [Agents -> Names]
  /\ Nobody \notin Agents
  /\ MaxEdits \in Nat /\ MaxFaults \in Nat

VARIABLES
  spec,          \* per Agent: absent, or what spec.writeEnabled says
  had,           \* history: all it has said
  bindings,      \* per role and name: the subject, or Nobody
  running,       \* per manager
  agentCache,    \* its informer's copy of spec
  bindingCache,  \* and of the write bindings
  work,          \* its worker: the Agent, whether it wants to write, and the
                 \* next call of the pass
  edits, faults
vars == <<spec, had, bindings, running, agentCache, bindingCache, work, edits,
          faults>>

Roles == {"read", "write"}
Specs == {"absent", "off", "on"}

Idle == [agent |-> Nobody, wants |-> FALSE, at |-> "idle"]
Passes == [agent : Agents, wants : BOOLEAN,
           at : {"read", "write", "lookup", "delete"}]

Goto(m, step) == work' = [work EXCEPT ![m].at = step]
Done(m) == work' = [work EXCEPT ![m] = Idle]

Holder(role, a) == bindings[role][BindingName[a]]

Fault == faults < MaxFaults /\ faults' = faults + 1

-----------------------------------------------------------------------------
(* Users. *)

Edit(a, s) ==
  /\ spec[a] # s /\ edits < MaxEdits
  /\ spec' = [spec EXCEPT ![a] = s]
  /\ had' = [had EXCEPT ![a] = @ \cup ({s} \ {"absent"})]
  /\ edits' = edits + 1
  /\ UNCHANGED <<bindings, running, agentCache, bindingCache, work, faults>>

-----------------------------------------------------------------------------
(* A pass: ReconcileRBAC. *)

\* Mutant of StartPass: the worker does not wait for its manager's start.
StartPassEarly(m, a) ==
  /\ work[m] = Idle /\ agentCache[m][a] # "absent"
  /\ work' = [work EXCEPT ![m] =
                [agent |-> a, wants |-> agentCache[m][a] = "on", at |-> "read"]]
  /\ UNCHANGED <<spec, had, bindings, running, agentCache, bindingCache, edits,
                 faults>>

\* Reconcile gets the Agent and ends if it has gone.
StartPass(m, a) ==
  /\ running[m] /\ work[m] = Idle /\ agentCache[m][a] # "absent"
  /\ work' = [work EXCEPT ![m] =
                [agent |-> a, wants |-> agentCache[m][a] = "on", at |-> "read"]]
  /\ UNCHANGED <<spec, had, bindings, running, agentCache, bindingCache, edits,
                 faults>>

\* Create, which tolerates AlreadyExists.
Created(role, a) ==
  IF Holder(role, a) = Nobody
  THEN [bindings EXCEPT ![role][BindingName[a]] = a]
  ELSE bindings

\* Mutant of Deleted: the bindings are found by the component's label.
DeletedByLabel(a) == [bindings EXCEPT !["write"] = [n \in Names |-> Nobody]]

\* Delete, by name.
Deleted(a) == [bindings EXCEPT !["write"][BindingName[a]] = Nobody]

\* Mutant of CreateReadBinding: it does not tolerate AlreadyExists.
CreateReadBindingOnce(m) ==
  /\ work[m].at = "read"
  /\ bindings' = Created("read", work[m].agent)
  /\ IF bindings' # bindings
     THEN Goto(m, IF work[m].wants THEN "write" ELSE "lookup") ELSE Done(m)
  /\ UNCHANGED <<spec, had, running, agentCache, bindingCache, edits, faults>>

\* Mutant of CreateReadBinding: spec.writeEnabled is not looked at.
CreateBothBindings(m) ==
  /\ work[m].at = "read"
  /\ bindings' = Created("read", work[m].agent)
  /\ Goto(m, "write")
  /\ UNCHANGED <<spec, had, running, agentCache, bindingCache, edits, faults>>

CreateReadBinding(m) ==
  /\ work[m].at = "read"
  /\ bindings' = Created("read", work[m].agent)
  /\ Goto(m, IF work[m].wants THEN "write" ELSE "lookup")
  /\ UNCHANGED <<spec, had, running, agentCache, bindingCache, edits, faults>>

CreateWriteBinding(m) ==
  /\ work[m].at = "write"
  /\ bindings' = Created("write", work[m].agent)
  /\ Done(m)
  /\ UNCHANGED <<spec, had, running, agentCache, bindingCache, edits, faults>>

\* deleteRoleBinding gets the binding from the cache: without it, it is done.
LookUp(m) ==
  /\ work[m].at = "lookup"
  /\ IF bindingCache[m][BindingName[work[m].agent]] = Nobody
     THEN Done(m) ELSE Goto(m, "delete")
  /\ UNCHANGED <<spec, had, bindings, running, agentCache, bindingCache, edits,
                 faults>>

\* Of a binding that has gone meanwhile: NotFound, an error like any other.
DeleteWriteBinding(m) ==
  /\ work[m].at = "delete"
  /\ bindings' = Deleted(work[m].agent)
  /\ Done(m)
  /\ UNCHANGED <<spec, had, running, agentCache, bindingCache, edits, faults>>

\* A call fails, done or not; the pass ends and the Agent is queued again.
CallFails(m) ==
  /\ work[m] # Idle /\ Fault /\ Done(m)
  /\ \/ UNCHANGED bindings
     \/ /\ work[m].at \in Roles
        /\ bindings' = Created(work[m].at, work[m].agent)
     \/ /\ work[m].at = "delete"
        /\ bindings' = Deleted(work[m].agent)
  /\ UNCHANGED <<spec, had, running, agentCache, bindingCache, edits>>

-----------------------------------------------------------------------------
(* Informers and managers. *)

SyncAgents(m) ==
  /\ running[m] /\ agentCache[m] # spec
  /\ agentCache' = [agentCache EXCEPT ![m] = spec]
  /\ UNCHANGED <<spec, had, bindings, running, bindingCache, work, edits,
                 faults>>

SyncBindings(m) ==
  /\ running[m] /\ bindingCache[m] # bindings["write"]
  /\ bindingCache' = [bindingCache EXCEPT ![m] = bindings["write"]]
  /\ UNCHANGED <<spec, had, bindings, running, agentCache, work, edits, faults>>

\* The worker starts when the caches have been filled.
Start(m) ==
  /\ ~running[m]
  /\ running' = [running EXCEPT ![m] = TRUE]
  /\ agentCache' = [agentCache EXCEPT ![m] = spec]
  /\ bindingCache' = [bindingCache EXCEPT ![m] = bindings["write"]]
  /\ UNCHANGED <<spec, had, bindings, work, edits, faults>>

\* A crash, or the end of a rolling update.
Stop(m) ==
  /\ running[m] /\ Fault
  /\ running' = [running EXCEPT ![m] = FALSE]
  /\ Done(m)
  /\ UNCHANGED <<spec, had, bindings, agentCache, bindingCache, edits>>

-----------------------------------------------------------------------------
\* The operator is installed; Agents may have been there, with bindings they left.
Init ==
  /\ spec \in [Agents -> Specs]
  /\ bindings \in {b \in [Roles -> [Names -> Agents \cup {Nobody}]] :
                     \A role \in Roles : \A n \in Names :
                       b[role][n] # Nobody => BindingName[b[role][n]] = n}
  /\ had = [a \in Agents |->
              ({spec[a]} \ {"absent"})
              \cup {s \in {"on"} : Holder("write", a) = a}]
  /\ running = [m \in Managers |-> FALSE]
  /\ agentCache = [m \in Managers |-> spec]
  /\ bindingCache = [m \in Managers |-> bindings["write"]]
  /\ work = [m \in Managers |-> Idle]
  /\ edits = 0 /\ faults = 0

Step(m) ==
  \/ CreateReadBinding(m) \/ CreateWriteBinding(m)
  \/ LookUp(m) \/ DeleteWriteBinding(m)

Next ==
  \/ \E a \in Agents : \E s \in Specs : Edit(a, s)
  \/ \E m \in Managers :
       \/ \E a \in Agents : StartPass(m, a)
       \/ Step(m) \/ CallFails(m)
       \/ SyncAgents(m) \/ SyncBindings(m) \/ Start(m) \/ Stop(m)

Spec == Init /\ [][Next]_vars

(* Calls end, informers catch up, and the Deployment runs one manager, though
   which of them is its own affair.  The queue is first in first out and every
   pass asks for the next one, so that no Agent is passed over for ever
   although the one worker serves all of them: strong fairness. *)
StartOne == (\A m \in Managers : ~running[m]) /\ \E m \in Managers : Start(m)
FairSpec ==
  /\ Spec /\ WF_vars(StartOne)
  /\ \A m \in Managers :
       /\ WF_vars(Step(m)) /\ WF_vars(SyncAgents(m)) /\ WF_vars(SyncBindings(m))
       /\ \A a \in Agents : SF_vars(StartPass(m, a))

-----------------------------------------------------------------------------
(* Properties. *)

\* Type correctness; a manager that does not run does not reconcile.
TypeOK ==
  /\ spec \in [Agents -> Specs]
  /\ had \in [Agents -> SUBSET {"off", "on"}]
  /\ bindings \in [Roles -> [Names -> Agents \cup {Nobody}]]
  /\ running \in [Managers -> BOOLEAN]
  /\ agentCache \in [Managers -> [Agents -> Specs]]
  /\ bindingCache \in [Managers -> [Names -> Agents \cup {Nobody}]]
  /\ work \in [Managers -> Passes \cup {Idle}]
  /\ edits \in 0..MaxEdits /\ faults \in 0..MaxFaults
  /\ \A m \in Managers : work[m] # Idle => running[m]

\* An Agent that has never asked for it is not bound to the write role, however
\* old the copies are that the managers work from, and whoever shares its name.
GrantsWereAskedFor ==
  \A n \in Names : bindings["write"][n] # Nobody
                     => "on" \in had[bindings["write"][n]]

\* An Agent that has always asked for it and is bound to the write role stays
\* bound to it: no pass, of this Agent or another one, unbinds it.
GrantsAreKept ==
  [][\A a \in Agents : Holder("write", a) = a /\ Holder("write", a)' # a
                         => "off" \in had[a]]_vars

\* In the end every Agent that is there may read, and may write if and only if
\* its spec says so, after any edits, deletions, crashes and failing calls, and
\* with two managers at work.
GrantsFollowSpec ==
  \A a \in Agents :
    <>[](spec[a] # "absent" => /\ Holder("read", a) = a
                               /\ Holder("write", a) = a <=> spec[a] = "on")
=============================================================================
