------------------------------ MODULE KubeTools ------------------------------
(***************************************************************************)
(* The tools of the agents (runtime/src/agent_runtime/tools and            *)
(* langchain_tools.py) and as much of the cluster as they read and change. *)
(*                                                                         *)
(* Objects are known by name and namespace.  A pod that is deleted stays   *)
(* while it shuts down, and one created again under its name is another    *)
(* one, with another uid.  An action is what the model asks for: a tool    *)
(* and its arguments.                                                      *)
(***************************************************************************)
EXTENDS Integers, Sequences, FiniteSets

CONSTANTS
  Pods, Deployments, Nodes,   \* the objects' names, records as Named makes
  Calls,                      \* the calls of the chat endpoint
  NodeReady,                  \* the Ready condition of each node
  InitialReplicas,
  MaxTailLines,               \* POD_LOG_MAX_TAIL_LINES: 5000
  EventCap,                   \* the events of a description: 10
  MaxUid                      \* bound: pods created under one name

ASSUME ToolConstants ==
  /\ MaxTailLines \in Nat \ {0} /\ EventCap \in Nat /\ MaxUid \in Nat \ {0}
  /\ InitialReplicas \in Nat

VARIABLES
  pods,         \* per name: the last pod created, and whether it is still up
  deployments,  \* per name: spec.replicas, status.replicas, and how often the
                \* template was stamped with a new restartedAt
  initialised,  \* kube._initialised
  applied       \* history, per call: the changes the API server has made,
                \* each with its position among the tools the call has run
clusterVars == <<pods, deployments, applied>>

Lives == {"up", "going", "gone"}

Named(name, namespace) == [name |-> name, namespace |-> namespace]

WriteTools == {"restart_pod", "restart_deployment", "scale_deployment"}

\* build_tools.
ClusterTools ==
  {"list_pods", "list_deployments", "list_events", "describe_pod",
   "get_pod_logs", "get_deployment_status", "list_nodes", "describe_node"}

\* build_ops_tools.
OpsTools ==
  {"list_pods", "list_deployments", "describe_pod", "get_deployment_status"}
  \cup WriteTools

PodTools == {"describe_pod", "get_pod_logs", "restart_pod"}
DeploymentTools ==
  {"get_deployment_status", "restart_deployment", "scale_deployment"}

\* The argument schemas: pydantic refuses other types, the tools a negative
\* number of replicas; names need not exist.
Acceptable(a) == a.tool = "scale_deployment" => a.n >= 0

\* The object an action names is there (or it names none).
Found(a) ==
  /\ a.tool \in PodTools => a.on \in Pods /\ pods[a.on].life # "gone"
  /\ a.tool \in DeploymentTools => a.on \in Deployments
  /\ a.tool = "describe_node" => a.on \in Nodes

-----------------------------------------------------------------------------
(* The tools that read. *)

\* A namespace that is empty stands for all of them.
In(objects, namespace) ==
  {o \in objects : namespace = "" \/ o.namespace = namespace}

ListPods(namespace) == In({p \in Pods : pods[p].life # "gone"}, namespace)

\* Mutant of ListDeployments: it shows the replicas of the status.
ListObserved(namespace) ==
  {[on |-> d, replicas |-> deployments[d].observed] :
     d \in In(Deployments, namespace)}

ListDeployments(namespace) ==
  {[on |-> d, replicas |-> deployments[d].replicas] :
     d \in In(Deployments, namespace)}

\* Every pod leaves events behind, which mention it by name.
ListEvents(namespace) ==
  UNION {[pod : {p}, uid : 1..pods[p].uid] : p \in In(Pods, namespace)}

\* The last events that mention the name, whichever pod they involve.
DescribePod(pod) ==
  {e \in ListEvents(pod.namespace) :
     e.pod = pod /\ e.uid > pods[pod].uid - EventCap}

\* PodLogTool clamps what it is asked for.
TailLines(n) ==
  LET atMost == IF n < MaxTailLines THEN n ELSE MaxTailLines
  IN  IF atMost > 1 THEN atMost ELSE 1

GetPodLogs(pod, n) == {[of |-> pods[pod].uid, lines |-> TailLines(n)]}

\* The status is what the Deployment's controller has last seen.
GetDeploymentStatus(d) == {[on |-> d, replicas |-> deployments[d].observed]}

\* "Unknown", the condition of a node that is lost, is shown as not ready.
ListNodes == {[on |-> n, ready |-> NodeReady[n] = "True"] : n \in Nodes}

DescribeNode(n) == {[on |-> n, status |-> NodeReady[n]]}

\* The shims of langchain_tools.
Observation(a) ==
  CASE a.tool = "list_pods"        -> ListPods(a.on.namespace)
    [] a.tool = "list_deployments" -> ListDeployments(a.on.namespace)
    [] a.tool = "list_events"      -> ListEvents(a.on.namespace)
    [] a.tool = "describe_pod"     -> DescribePod(a.on)
    [] a.tool = "get_pod_logs"     -> GetPodLogs(a.on, a.n)
    [] a.tool = "get_deployment_status" -> GetDeploymentStatus(a.on)
    [] a.tool = "list_nodes"       -> ListNodes
    [] a.tool = "describe_node"    -> DescribeNode(a.on)
    [] OTHER                       -> {}

-----------------------------------------------------------------------------
(* The tools that write: one request each, without a precondition. *)

\* Mutant of RestartPod: the pods of that name in every namespace.
RestartByName(a) ==
  /\ a.tool = "restart_pod"
  /\ pods' = [p \in Pods |-> IF p.name = a.on.name /\ pods[p].life = "up"
                             THEN [pods[p] EXCEPT !.life = "going"] ELSE pods[p]]
  /\ UNCHANGED deployments

\* A delete, which is accepted again while the pod shuts down.
RestartPod(a) ==
  /\ a.tool = "restart_pod"
  /\ pods' = [pods EXCEPT ![a.on].life = "going"]
  /\ UNCHANGED deployments

\* A patch that adds one annotation to the template.
RestartDeployment(a) ==
  /\ a.tool = "restart_deployment"
  /\ deployments' = [deployments EXCEPT ![a.on].restarts = @ + 1]
  /\ UNCHANGED pods

\* Mutant of ScaleDeployment: the Deployment is replaced by one with that many
\* replicas.
ScaleByReplacing(a) ==
  /\ a.tool = "scale_deployment"
  /\ deployments' = [deployments EXCEPT ![a.on].replicas = a.n,
                                        ![a.on].restarts = 0]
  /\ UNCHANGED pods

\* A patch of the scale subresource.
ScaleDeployment(a) ==
  /\ a.tool = "scale_deployment"
  /\ deployments' = [deployments EXCEPT ![a.on].replicas = a.n]
  /\ UNCHANGED pods

\* The API server makes the change c asks for as its i-th tool.
Apply(c, i, a) ==
  /\ RestartPod(a) \/ RestartDeployment(a) \/ ScaleDeployment(a)
  /\ applied' = [applied EXCEPT ![c] = @ \cup
                   {[at |-> i, action |-> a,
                     uid |-> IF a.tool = "restart_pod" THEN pods[a.on].uid ELSE 0]}]

-----------------------------------------------------------------------------
(* The rest of the cluster. *)

\* A pod has shut down.
Vanish(p) ==
  /\ pods[p].life = "going"
  /\ pods' = [pods EXCEPT ![p].life = "gone"]
  /\ UNCHANGED <<deployments, applied>>

\* A controller creates a pod that is missing, under the name it had.
Recreate(p) ==
  /\ pods[p].life = "gone" /\ pods[p].uid < MaxUid
  /\ pods' = [pods EXCEPT ![p] = [uid |-> @.uid + 1, life |-> "up"]]
  /\ UNCHANGED <<deployments, applied>>

\* The Deployment's controller follows its spec.
Converge(d) ==
  /\ deployments[d].observed # deployments[d].replicas
  /\ deployments' = [deployments EXCEPT ![d].observed = deployments[d].replicas]
  /\ UNCHANGED <<pods, applied>>

ClusterInit ==
  /\ pods = [p \in Pods |-> [uid |-> 1, life |-> "up"]]
  /\ deployments = [d \in Deployments |->
                      [replicas |-> InitialReplicas,
                       observed |-> InitialReplicas, restarts |-> 0]]
  /\ initialised = FALSE
  /\ applied = [c \in Calls |-> {}]
=============================================================================
