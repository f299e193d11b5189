---------------------------- MODULE MCToolAgent ----------------------------
(***************************************************************************)
(* Small instances of ToolAgent: pods of one name in two namespaces, one   *)
(* Deployment, one node, and what the model may ask for.                   *)
(***************************************************************************)
EXTENDS ToolAgent

CONSTANTS c1, c2

TwoCalls == {c1, c2}
PodNames == {Named("web-0", "a"), Named("web-0", "b")}
Web == Named("web", "a")
DeploymentNames == {Web}
Node == Named("n1", "")
NodeNames == {Node}
Lost == [n \in NodeNames |-> "Unknown"]

\* A stream beside a plain call, and two streams.
OneIsStreamed == {m \in [TwoCalls -> BOOLEAN] : m[c2]}

Ask(tool, on) == [tool |-> tool, on |-> on, n |-> 0]
Scale(n) == [tool |-> "scale_deployment", on |-> Web, n |-> n]

Pod == Named("web-0", "a")
Reads ==
  {Ask("list_pods", Named("", "")), Ask("list_deployments", Named("", "a")),
   Ask("list_events", Named("", "b")), Ask("describe_pod", Pod),
   [tool |-> "get_pod_logs", on |-> Pod, n |-> 9],
   Ask("get_deployment_status", Web), Ask("list_nodes", Named("", "")),
   Ask("describe_node", Node)}
Writes ==
  {Ask("restart_pod", p) : p \in PodNames}
  \cup {Ask("restart_deployment", Web), Scale(-1), Scale(0)}

\* The first call may ask for anything and then for what its answers may be
\* about; the second changes the same objects.
AnyThenWrites ==
  [c \in TwoCalls |->
     IF c = c1
     THEN <<{<<a>> : a \in Reads \cup Writes} \cup
            {<<Scale(0), Ask("restart_deployment", Web)>>},
            {<<Ask("restart_pod", Pod)>>, <<Ask("list_deployments", Named("", ""))>>}>>
     ELSE <<{<<Ask("restart_pod", Pod)>>},
            {<<Ask("restart_deployment", Web), Scale(3)>>}>>]
=============================================================================
