------------------------------ MODULE ToolAgent ------------------------------
(***************************************************************************)
(* The agents at work: /classify, the choice of the agent, and             *)
(* ToolCallingExecutor (agent/_langchain_executor.py) over langchain's     *)
(* AgentExecutor, which asks the model, runs the tools it asks for, and    *)
(* asks again.  Several calls are served by one event loop: a call holds   *)
(* it (loop) from one event it yields to the next, a plain one to its end; *)
(* the cluster does not wait.                                              *)
(***************************************************************************)
EXTENDS KubeTools

CONSTANTS
  Idle,          \* no call holds the event loop
  Modes,         \* which calls are streamed
  Asks,          \* per call and round: the batches the model may ask for
  MaxRounds,     \* max_iterations of AgentExecutor: 15
  MaxFaults      \* bound: failures of the model, of requests, of the process

\* What langchain parses from the model's answer.
Actions == [tool : STRING, on : [name : STRING, namespace : STRING], n : Int]

ASSUME AgentConstants ==
  /\ Idle \notin Calls /\ Modes \subseteq [Calls -> BOOLEAN]
  /\ MaxRounds \in Nat /\ MaxFaults \in Nat
  /\ Asks \in [Calls -> [1..MaxRounds -> SUBSET (Seq(Actions) \ {<<>>})]]

VARIABLES
  verdict,       \* per call: what /classify made of its text
  agent,         \* the agent the client chose for it
  state,         \* where its code is
  streamed,      \* stream or run
  rounds,        \* how often the model has been asked
  todo,          \* the rest of the batch it asked for
  looked,        \* describe_pod, between its reads: the uid of the pod
  trace,         \* intermediate_steps: the tools that have run
  events,        \* the tool_calls and tool_results the client has been sent
  outcome,       \* none yet, answered or broken
  loop, faults
callVars == <<verdict, agent, state, streamed, rounds, todo, looked, trace,
              events, outcome>>
vars == <<pods, deployments, initialised, applied, callVars, loop, faults>>

States == {"new", "asked", "planning", "acting", "describing", "told call",
           "telling", "told result", "over"}

Fault == faults < MaxFaults /\ faults' = faults + 1

Running(c, s) == state[c] = s /\ loop = c
Goto(c, s) == state' = [state EXCEPT ![c] = s]

-----------------------------------------------------------------------------
(* Which agent: /classify, and the agent field of the call. *)

\* Mutant of AgentFor: what is not known to be a question is a change.
AgentUnlessRead(reply) == IF reply = "other" THEN "cluster" ELSE "ops"

\* _classify_intent: without a clear WRITE, the agent that cannot write.
AgentFor(reply) == IF reply = "WRITE" THEN "ops" ELSE "cluster"

\* An empty text, an answer without WRITE in it, and a failure are all read.
Classify(c) ==
  /\ state[c] = "new" /\ loop = Idle
  /\ \E reply \in {"WRITE", "other", "failure"} :
       /\ IF reply = "failure" THEN Fault ELSE UNCHANGED faults
       /\ verdict' = [verdict EXCEPT ![c] = reply]
       /\ agent' = [agent EXCEPT ![c] = AgentFor(reply)]
  /\ Goto(c, "asked")
  /\ UNCHANGED <<clusterVars, initialised, streamed, rounds, todo, looked,
                 trace, events, outcome, loop>>

\* The tools of the agent the call names.
ToolsOf(c) == IF agent[c] = "ops" THEN OpsTools ELSE ClusterTools

-----------------------------------------------------------------------------
(* How a call ends. *)

\* An exception: nobody catches it below the server's handler.
Raise(c) ==
  /\ Goto(c, "over") /\ loop' = Idle
  /\ outcome' = [outcome EXCEPT ![c] = "broken"]
  /\ todo' = [todo EXCEPT ![c] = <<>>]
  /\ looked' = [looked EXCEPT ![c] = 0]
  /\ UNCHANGED <<verdict, agent, streamed, rounds, trace, events>>

\* flatten_intermediate: of a trace, the call and the result of each tool.
Flatten(steps) ==
  [k \in 1..(2 * Len(steps)) |->
     [type |-> IF k % 2 = 1 THEN "tool_call" ELSE "tool_result",
      step |-> steps[(k + 1) \div 2]]]

\* The executor's output: of a stream the done event, of run the response with
\* all steps.
Finish(c) ==
  /\ Goto(c, "over") /\ loop' = Idle
  /\ outcome' = [outcome EXCEPT ![c] = "answered"]
  /\ events' = IF streamed[c] THEN events
               ELSE [events EXCEPT ![c] = Flatten(trace[c])]
  /\ UNCHANGED <<verdict, agent, streamed, rounds, todo, looked, trace>>

-----------------------------------------------------------------------------
(* The executor. *)

\* Mutant of Begin: run and stream in a worker thread, beside the event loop.
BeginInThread(c) ==
  /\ state[c] = "asked"
  /\ Goto(c, "planning") /\ loop' = c
  /\ UNCHANGED <<clusterVars, initialised, verdict, agent, streamed, rounds,
                 todo, looked, trace, events, outcome, faults>>

\* chat_completions calls run, or starts the generator of stream; both begin
\* with split_messages, which may refuse the messages.
Begin(c) ==
  /\ state[c] = "asked" /\ loop = Idle
  /\ \/ Goto(c, "planning") /\ loop' = c
        /\ UNCHANGED <<verdict, agent, streamed, rounds, todo, looked, trace,
                       events, outcome>>
     \/ Raise(c)
  /\ UNCHANGED <<clusterVars, initialised, faults>>

\* The model asks for a batch of actions, answers, or fails; after MaxRounds
\* it is not asked any more and the call is answered without it.
Plan(c) ==
  /\ Running(c, "planning")
  /\ \/ /\ rounds[c] < MaxRounds
        /\ \E batch \in Asks[c][rounds[c] + 1] : todo' = [todo EXCEPT ![c] = batch]
        /\ rounds' = [rounds EXCEPT ![c] = @ + 1]
        /\ Goto(c, "acting")
        /\ UNCHANGED <<verdict, agent, streamed, looked, trace, events,
                       outcome, loop, faults>>
     \/ Finish(c) /\ UNCHANGED faults
     \/ rounds[c] < MaxRounds /\ Fault /\ Raise(c)
  /\ UNCHANGED <<clusterVars, initialised>>

\* Mutant of Record: a stream yields the steps of a batch when all have run.
RecordBatch(c, valid, uid, seen) ==
  /\ trace' = [trace EXCEPT ![c] =
                 Append(@, [action |-> Head(todo[c]), valid |-> valid,
                            uid |-> uid, seen |-> seen])]
  /\ todo' = [todo EXCEPT ![c] = Tail(@)]
  /\ looked' = [looked EXCEPT ![c] = 0]
  /\ Goto(c, IF Len(todo[c]) > 1 THEN "acting"
             ELSE IF streamed[c] THEN "telling" ELSE "planning")
  /\ UNCHANGED <<verdict, agent, streamed, rounds, events, outcome, loop>>

\* A step is over: run goes on with the next one, or the next round; stream
\* yields its tool_call.
Record(c, valid, uid, seen) ==
  /\ trace' = [trace EXCEPT ![c] =
                 Append(@, [action |-> Head(todo[c]), valid |-> valid,
                            uid |-> uid, seen |-> seen])]
  /\ todo' = [todo EXCEPT ![c] = Tail(@)]
  /\ looked' = [looked EXCEPT ![c] = 0]
  /\ Goto(c, IF streamed[c] THEN "telling"
             ELSE IF Len(todo[c]) > 1 THEN "acting" ELSE "planning")
  /\ UNCHANGED <<verdict, agent, streamed, rounds, events, outcome, loop>>

\* A tool the agent does not have, or arguments that cannot be parsed: langchain
\* reports it to the model as a step of its own.
InvalidTool(c) ==
  /\ Running(c, "acting") /\ Head(todo[c]).tool \notin ToolsOf(c)
  /\ Record(c, FALSE, 0, {})
  /\ UNCHANGED <<clusterVars, initialised, faults>>

\* Arguments of the wrong type, or a negative number of replicas.
Refuse(c) ==
  /\ Running(c, "acting") /\ Head(todo[c]).tool \in ToolsOf(c)
  /\ ~Acceptable(Head(todo[c]))
  /\ Raise(c)
  /\ UNCHANGED <<clusterVars, initialised, faults>>

\* The next tool is called and runs.
Calling(c) ==
  /\ Running(c, "acting") /\ Head(todo[c]).tool \in ToolsOf(c)
  /\ Acceptable(Head(todo[c]))

\* get_api loads the configuration once; until that has worked, each tool tries
\* again.
GetApi == initialised' = TRUE

CannotLoad(c) ==
  /\ Calling(c) /\ ~initialised /\ Fault /\ Raise(c)
  /\ UNCHANGED <<clusterVars, initialised>>

\* Mutant of RequestFails: the exception is logged and swallowed.
RequestFailsQuietly(c) ==
  /\ Calling(c) /\ GetApi
  /\ IF Found(Head(todo[c])) THEN Fault ELSE UNCHANGED faults
  /\ Record(c, TRUE, 0, {})
  /\ UNCHANGED clusterVars

\* Mutant of RequestFails: what fails is tried again, for ever.
RequestIsRetried(c) ==
  /\ Calling(c) /\ GetApi
  /\ IF Found(Head(todo[c])) THEN Fault ELSE UNCHANGED faults
  /\ UNCHANGED <<clusterVars, callVars, loop>>

\* call_k8s lets the exception through: of an object that is not there, of a
\* request that is refused.
RequestFails(c) ==
  /\ Calling(c) /\ GetApi
  /\ IF Found(Head(todo[c])) THEN Fault ELSE UNCHANGED faults
  /\ Raise(c)
  /\ UNCHANGED clusterVars

\* A request whose answer is lost: the change was made.
AnswerIsLost(c) ==
  /\ Calling(c) /\ GetApi /\ Found(Head(todo[c])) /\ Fault
  /\ Apply(c, Len(trace[c]) + 1, Head(todo[c]))
  /\ Raise(c)

Read(c) ==
  LET a == Head(todo[c])
  IN  /\ Calling(c) /\ GetApi /\ Found(a)
      /\ a.tool \in ClusterTools \ {"describe_pod"}
      /\ Record(c, TRUE, 0, Observation(a))
      /\ UNCHANGED <<clusterVars, faults>>

Write(c) ==
  LET a == Head(todo[c])
  IN  /\ Calling(c) /\ GetApi /\ Found(a) /\ a.tool \in WriteTools
      /\ Apply(c, Len(trace[c]) + 1, a)
      /\ Record(c, TRUE, IF a.tool = "restart_pod" THEN pods[a.on].uid ELSE 0,
                {})
      /\ UNCHANGED faults

\* describe_pod makes two requests, the pod and then the events.
DescribeReadsPod(c) ==
  LET a == Head(todo[c])
  IN  /\ Calling(c) /\ GetApi /\ Found(a) /\ a.tool = "describe_pod"
      /\ looked' = [looked EXCEPT ![c] = pods[a.on].uid]
      /\ Goto(c, "describing")
      /\ UNCHANGED <<clusterVars, verdict, agent, streamed, rounds, todo,
                     trace, events, outcome, loop, faults>>

DescribeReadsEvents(c) ==
  /\ Running(c, "describing")
  /\ \/ Record(c, TRUE, looked[c], Observation(Head(todo[c])))
        /\ UNCHANGED faults
     \/ Fault /\ Raise(c)
  /\ UNCHANGED <<clusterVars, initialised>>

-----------------------------------------------------------------------------
(* stream: what is yielded, and when. *)

Yield(c, s) ==
  /\ events' = [events EXCEPT ![c] =
                  Append(@, Flatten(trace[c])[Len(@) + 1])]
  /\ Goto(c, s) /\ loop' = Idle
  /\ UNCHANGED <<clusterVars, initialised, verdict, agent, streamed, rounds,
                 todo, looked, trace, outcome, faults>>

YieldToolCall(c) == Running(c, "telling") /\ Yield(c, "told call")

YieldToolResult(c) ==
  /\ state[c] = "told call" /\ loop = Idle
  /\ Yield(c, "told result")

\* The generator is asked for its next event.
Resume(c) ==
  /\ state[c] = "told result" /\ loop = Idle
  /\ Goto(c, IF todo[c] # <<>> THEN "acting" ELSE "planning")
  /\ loop' = c
  /\ UNCHANGED <<clusterVars, initialised, verdict, agent, streamed, rounds,
                 todo, looked, trace, events, outcome, faults>>

\* The client has gone: the generator is closed at its yield.
Close(c) ==
  /\ state[c] \in {"told call", "told result"} /\ loop = Idle
  /\ Raise(c)
  /\ UNCHANGED <<clusterVars, initialised, faults>>

\* The process dies and is started again.
Die ==
  LET lost == {c \in Calls : state[c] \notin {"new", "asked", "over"}}
  IN  /\ Fault /\ initialised' = FALSE /\ loop' = Idle
      /\ state' = [c \in Calls |-> IF c \in lost THEN "over" ELSE state[c]]
      /\ outcome' = [c \in Calls |->
                       IF c \in lost THEN "broken" ELSE outcome[c]]
      /\ todo' = [c \in Calls |-> IF c \in lost THEN <<>> ELSE todo[c]]
      /\ looked' = [c \in Calls |-> IF c \in lost THEN 0 ELSE looked[c]]
      /\ UNCHANGED <<clusterVars, verdict, agent, streamed, rounds, trace,
                     events>>

-----------------------------------------------------------------------------
Act(c) ==
  \/ InvalidTool(c) \/ Refuse(c) \/ CannotLoad(c) \/ RequestFails(c)
  \/ AnswerIsLost(c) \/ Read(c) \/ Write(c)
  \/ DescribeReadsPod(c) \/ DescribeReadsEvents(c)

Serve(c) ==
  \/ Begin(c) \/ Plan(c) \/ Act(c)
  \/ YieldToolCall(c) \/ YieldToolResult(c) \/ Resume(c)

ClusterStep ==
  /\ (\E p \in Pods : Vanish(p) \/ Recreate(p)) \/ (\E d \in Deployments : Converge(d))
  /\ UNCHANGED <<initialised, callVars, loop, faults>>

Init ==
  /\ ClusterInit
  /\ verdict = [c \in Calls |-> "other"]
  /\ agent = [c \in Calls |-> "cluster"]
  /\ state = [c \in Calls |-> "new"]
  /\ streamed \in Modes
  /\ rounds = [c \in Calls |-> 0]
  /\ todo = [c \in Calls |-> <<>>]
  /\ looked = [c \in Calls |-> 0]
  /\ trace = [c \in Calls |-> <<>>]
  /\ events = [c \in Calls |-> <<>>]
  /\ outcome = [c \in Calls |-> "none"]
  /\ loop = Idle /\ faults = 0

Next ==
  \/ \E c \in Calls : Classify(c) \/ Serve(c) \/ Close(c)
  \/ ClusterStep \/ Die

Spec == Init /\ [][Next]_vars

(* The model answers or times out, requests end, and the event loop runs what
   it can; clients ask and leave as they like. *)
FairSpec == Spec /\ \A c \in Calls : WF_vars(Serve(c))

-----------------------------------------------------------------------------
(* Properties. *)

Is(a, tool, object) == a.tool = tool /\ a.on = object

\* The changes the API server has made, each with the call it made it for.
Changes == UNION {{<<c, w>> : w \in applied[c]} : c \in Calls}

\* Type correctness; the event loop is held by a call whose code runs.
TypeOK ==
  /\ pods \in [Pods -> [uid : 1..MaxUid, life : Lives]]
  /\ deployments \in
       [Deployments -> [replicas : Nat, observed : Nat, restarts : Nat]]
  /\ initialised \in BOOLEAN
  /\ verdict \in [Calls -> {"WRITE", "other", "failure"}]
  /\ agent \in [Calls -> {"cluster", "ops"}]
  /\ state \in [Calls -> States] /\ streamed \in [Calls -> BOOLEAN]
  /\ rounds \in [Calls -> 0..MaxRounds]
  /\ looked \in [Calls -> 0..MaxUid]
  /\ outcome \in [Calls -> {"none", "answered", "broken"}]
  /\ \A c \in Calls : Len(events[c]) <= 2 * Len(trace[c])
  /\ loop \in Calls \cup {Idle} /\ faults \in 0..MaxFaults
  /\ \A c \in Calls :
       loop = c <=> state[c] \in {"planning", "acting", "describing", "telling"}

\* The trace of a call is the truth about the cluster: each write it shows was
\* made, each change made for the call is in it, at its place; but for the last
\* one, whose answer was lost, and then the call has broken off.
TracesAreTrue ==
  \A c \in Calls :
    /\ \A i \in 1..Len(trace[c]) :
         LET step == trace[c][i]
         IN  step.valid /\ step.action.tool \in WriteTools
               => \E w \in applied[c] : w.at = i /\ w.action = step.action
    /\ \A w \in applied[c] :
         \/ /\ w.at \in 1..Len(trace[c]) /\ trace[c][w.at].valid
            /\ trace[c][w.at].action = w.action
         \/ w.at = Len(trace[c]) + 1 /\ outcome[c] = "broken"

\* Only what was clearly meant as a change changes the cluster: not when the
\* classifier fails or is in doubt, whatever tools the model asks for.
WritesAreClassified ==
  \A c \in Calls : applied[c] # {} => verdict[c] = "WRITE"

\* The pods that stop are those a call was to restart, and all of them: by name
\* and namespace, whatever else was asked for in the meantime, also when the
\* answer was lost or the pod had been replaced since it was looked at.
Stopped(p, uid) ==
  \/ pods[p].uid > uid
  \/ pods[p].uid = uid /\ pods[p].life # "up"
PodsStopAsAsked ==
  \A p \in Pods, uid \in 1..MaxUid :
    Stopped(p, uid) <=>
      \E h \in Changes : Is(h[2].action, "restart_pod", p) /\ h[2].uid = uid

\* Concurrent writes of a Deployment do not undo each other: every restart that
\* was applied is still in its template, whatever was scaled before or after.
RestartsStand ==
  \A d \in Deployments :
    deployments[d].restarts =
      Cardinality({h \in Changes : Is(h[2].action, "restart_deployment", d)})

\* The proof of success the prompt asks for: a list of Deployments made after
\* the call's own scaling shows it, or what another call has scaled to.
ListsShowOwnScale ==
  \A c \in Calls : \A i, j \in 1..Len(trace[c]) : \A r \in trace[c][j].seen :
    /\ i < j /\ trace[c][i].valid
    /\ trace[c][j].action.tool = "list_deployments"
    /\ Is(trace[c][i].action, "scale_deployment", r.on)
    /\ \A k \in (i + 1)..(j - 1) :
         ~Is(trace[c][k].action, "scale_deployment", r.on)
    => \/ r.replicas = trace[c][i].action.n
       \/ \E other \in Calls \ {c} : \E w \in applied[other] :
            Is(w.action, "scale_deployment", r.on) /\ w.action.n = r.replicas

\* The refinement: each call is an AgentCall.
Agent(c) == INSTANCE AgentCall
              WITH streamed <- streamed[c], trace <- trace[c],
                   events <- events[c], outcome <- outcome[c]
AgentCallSpec ==
  /\ \A c \in Calls : Agent(c)!Init
  /\ [][\A c \in Calls : Agent(c)!Next \/ UNCHANGED Agent(c)!vars]_vars

\* Every call ends, also when the model never stops asking for tools, another
\* call holds the event loop, or the process dies under it.
CallsEnd == \A c \in Calls : state[c] = "asked" ~> state[c] = "over"
=============================================================================
