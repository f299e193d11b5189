--------------------------- MODULE ToolAgentProofs ---------------------------
(***************************************************************************)
(* ToolAgent for any number of calls, any cluster and whatever the model   *)
(* asks for: only classified calls write, traces are true, what is applied *)
(* stands and shows, and every call is an AgentCall.                       *)
(*                                                                         *)
(* The invariant is one of each call by itself (CallInv): a step of one    *)
(* call leaves the others as they were (OneCall), and what it does to its  *)
(* own is told apart in three ways: an exception (RaiseKeeps), a step of   *)
(* the trace (RecordKeeps), the answer (FinishKeeps).                      *)
(***************************************************************************)
EXTENDS ToolAgent, SequenceTheorems, FiniteSetTheorems, TLAPS

(* Sequences, of whatever. *)

IsSeq(s) == Len(s) \in Nat /\ s = [i \in 1..Len(s) |-> s[i]]

\* A sequence of anything is one.
LEMMA SequenceIs ==
  ASSUME NEW S, NEW s \in Seq(S)
  PROVE  IsSeq(s)
  BY DEF IsSeq

\* The empty list.
LEMMA EmptyIs == IsSeq(<<>>) /\ Len(<<>>) = 0
<1>1. <<>> \in Seq({})
  OBVIOUS
<1> QED BY <1>1, SequenceIs

\* One element more.
LEMMA AppendIs ==
  ASSUME NEW s, NEW e, IsSeq(s)
  PROVE  /\ IsSeq(Append(s, e)) /\ Len(Append(s, e)) = Len(s) + 1
         /\ Append(s, e)[Len(s) + 1] = e
         /\ \A i \in 1..Len(s) : Append(s, e)[i] = s[i]
<1> DEFINE S == {s[i] : i \in 1..Len(s)} \cup {e}
<1>1. s \in Seq(S) /\ e \in S
  BY DEF IsSeq
<1> HIDE DEF S
<1>2. Append(s, e) \in Seq(S)
  BY <1>1
<1>3. /\ Len(Append(s, e)) = Len(s) + 1
      /\ Append(s, e)[Len(s) + 1] = e
      /\ \A i \in 1..Len(s) : Append(s, e)[i] = s[i]
  BY <1>1 DEF IsSeq
<1>4. IsSeq(Append(s, e))
  BY <1>2, SequenceIs
<1> QED BY <1>3, <1>4

\* A list of several tools does not end with its head.
LEMMA TailIs ==
  ASSUME NEW S, NEW s \in Seq(S), Len(s) > 1
  PROVE  Tail(s) # <<>>
<1>1. Tail(s) \in Seq(S) /\ Len(Tail(s)) = Len(s) - 1 /\ Len(s) \in Nat
  OBVIOUS
<1> DEFINE t == Tail(s)
<1>2. t \in Seq(S) /\ Len(t) # 0
  BY <1>1
<1> HIDE DEF t
<1>3. t # <<>>
  BY <1>2
<1> QED BY <1>3 DEF t

\* A function on 1..n is a list of n elements.
LEMMA FunctionIs ==
  ASSUME NEW n \in Nat, NEW f, f = [k \in 1..n |-> f[k]]
  PROVE  IsSeq(f) /\ Len(f) = n
<1> DEFINE S == {f[k] : k \in 1..n}
<1>1. f \in [1..n -> S]
  OBVIOUS
<1> HIDE DEF S
<1>2. f \in Seq(S)
  BY <1>1
<1>3. Len(f) \in Nat /\ DOMAIN f = 1..Len(f) /\ DOMAIN f = 1..n
  BY <1>1, <1>2
<1>4. Len(f) = n
  BY <1>3
<1> QED BY <1>4 DEF IsSeq

\* The events of a trace: two for each step.
LEMMA FlattenIs ==
  ASSUME NEW s, IsSeq(s)
  PROVE  /\ IsSeq(Flatten(s)) /\ Len(Flatten(s)) = 2 * Len(s)
         /\ \A k \in 1..(2 * Len(s)) :
              Flatten(s)[k] = [type |-> IF k % 2 = 1 THEN "tool_call"
                                        ELSE "tool_result",
                               step |-> s[(k + 1) \div 2]]
<1>1. 2 * Len(s) \in Nat
  BY DEF IsSeq
<1>2. Flatten(s) = [k \in 1..(2 * Len(s)) |-> Flatten(s)[k]]
  BY DEF Flatten
<1> HIDE DEF Flatten
<1> QED BY <1>1, <1>2, FunctionIs DEF Flatten

\* What has been reported stays what a report begins with.
LEMMA FlattenGrows ==
  ASSUME NEW s, NEW e, IsSeq(s), NEW k \in 1..(2 * Len(s))
  PROVE  Flatten(Append(s, e))[k] = Flatten(s)[k]
<1>1. k \in 1..(2 * Len(Append(s, e))) /\ (k + 1) \div 2 \in 1..Len(s)
  BY AppendIs DEF IsSeq
<1>2. Append(s, e)[(k + 1) \div 2] = s[(k + 1) \div 2]
  BY <1>1, AppendIs
<1> DEFINE t == Append(s, e)
<1>3. IsSeq(t)
  BY AppendIs
<1> HIDE DEF t
<1>4. Flatten(t)[k] = [type |-> IF k % 2 = 1 THEN "tool_call" ELSE "tool_result",
                       step |-> t[(k + 1) \div 2]]
  BY <1>1, <1>3, FlattenIs DEF t
<1>5. Flatten(s)[k] = [type |-> IF k % 2 = 1 THEN "tool_call" ELSE "tool_result",
                       step |-> s[(k + 1) \div 2]]
  BY FlattenIs
<1> QED BY <1>2, <1>4, <1>5 DEF t

-----------------------------------------------------------------------------
Serving == {"planning", "acting", "describing", "telling"}

Shape ==
  /\ verdict \in [Calls -> {"WRITE", "other", "failure"}]
  /\ agent \in [Calls -> {"cluster", "ops"}]
  /\ state \in [Calls -> States] /\ streamed \in [Calls -> BOOLEAN]
  /\ rounds \in [Calls -> 0..MaxRounds] /\ todo \in [Calls -> Seq(Actions)]
  /\ looked \in [Calls -> 0..MaxUid]
  /\ outcome \in [Calls -> {"none", "answered", "broken"}]
  /\ trace = [c \in Calls |-> trace[c]] /\ events = [c \in Calls |-> events[c]]
  /\ applied = [c \in Calls |-> applied[c]]
  /\ \A c \in Calls : IsSeq(trace[c])
  /\ loop \in Calls \cup {Idle} /\ faults \in 0..MaxFaults

ClusterShape ==
  /\ pods \in [Pods -> [uid : 1..MaxUid, life : Lives]]
  /\ deployments \in
       [Deployments -> [replicas : Nat, observed : Nat, restarts : Nat]]

\* Where a call is: the rest of its state fits.
Placed(c) ==
  /\ loop = c <=> state[c] \in Serving
  /\ state[c] = "new" => agent[c] = "cluster"
  /\ agent[c] = "ops" => verdict[c] = "WRITE"
  /\ applied[c] # {} => agent[c] = "ops"
  /\ outcome[c] = "none" <=> state[c] # "over"
  /\ state[c] \in {"acting", "describing"} => todo[c] # <<>>
  /\ state[c] = "describing" => Head(todo[c]).tool = "describe_pod"

TraceIsTrue(c) ==
  /\ \A i \in 1..Len(trace[c]) :
       LET step == trace[c][i]
       IN  step.valid /\ step.action.tool \in WriteTools
             => \E w \in applied[c] : w.at = i /\ w.action = step.action
  /\ \A w \in applied[c] :
       \/ /\ w.at \in 1..Len(trace[c]) /\ trace[c][w.at].valid
          /\ trace[c][w.at].action = w.action
       \/ w.at = Len(trace[c]) + 1 /\ outcome[c] = "broken"

\* How much of the trace a stream has told at each place.
Told(c) ==
  /\ IsSeq(events[c]) /\ Len(events[c]) <= 2 * Len(trace[c])
  /\ \A k \in 1..Len(events[c]) : events[c][k] = Flatten(trace[c])[k]
  /\ state[c] \in {"new", "asked"} => Len(trace[c]) = 0
  /\ state[c] \in {"planning", "acting", "describing", "told result"} /\ streamed[c]
       => Len(events[c]) = 2 * Len(trace[c])
  /\ state[c] \in {"telling", "told call", "told result"} => streamed[c]
  /\ state[c] = "telling" => Len(events[c]) = 2 * Len(trace[c]) - 2
  /\ state[c] = "told call" => Len(events[c]) = 2 * Len(trace[c]) - 1

CallInv(c) == Placed(c) /\ TraceIsTrue(c) /\ Told(c)

IInv == Shape /\ ClusterShape /\ \A c \in Calls : CallInv(c)

-----------------------------------------------------------------------------
(* Steps of one call. *)

Mine(c) == <<verdict[c], agent[c], state[c], streamed[c], rounds[c], todo[c],
             looked[c], trace[c], events[c], outcome[c], applied[c]>>

\* A call that a step leaves alone keeps its invariant.
LEMMA OthersKeep ==
  ASSUME NEW d \in Calls, CallInv(d), UNCHANGED Mine(d), loop' = d <=> loop = d
  PROVE  CallInv(d)'
<1> USE DEF CallInv, Mine
<1>1. Placed(d)' BY DEF Placed
<1>2. TraceIsTrue(d)' BY DEF TraceIsTrue
<1>3. Told(d)' BY DEF Told
<1> QED BY <1>1, <1>2, <1>3

\* So does a trace, when only the outcome changes.
LEMMA TraceKept ==
  ASSUME NEW c \in Calls, TraceIsTrue(c), trace'[c] = trace[c],
         applied'[c] = applied[c], outcome[c] = "broken" => outcome'[c] = "broken"
  PROVE  TraceIsTrue(c)'
  BY DEF TraceIsTrue

\* The step c makes is c's, and it holds the event loop or lets it go.
Alone(c) == /\ loop \in {c, Idle} /\ loop' \in {c, Idle}
            /\ \A d \in Calls \ {c} : UNCHANGED Mine(d)

\* A step of one call keeps what is said of all.
LEMMA OthersKeepAll ==
  ASSUME IInv, NEW c \in Calls, Alone(c), CallInv(c)'
  PROVE  \A d \in Calls : CallInv(d)'
<1> SUFFICES ASSUME NEW d \in Calls \ {c} PROVE CallInv(d)'
  OBVIOUS
<1>1. loop' = d <=> loop = d
  BY AgentConstants DEF Alone
<1> QED BY <1>1, OthersKeep DEF IInv, Alone

\* The changes made for c: none, or one, by the tool that is running.
Applied(c, act) ==
  /\ agent[c] = "ops"
  /\ \E w : /\ w.at = Len(trace[c]) + 1 /\ w.action = act
           /\ applied' = [applied EXCEPT ![c] = @ \cup {w}]

\* An exception, also one that hides that a change was made.
LEMMA RaiseKeeps ==
  ASSUME IInv, NEW c \in Calls, Raise(c), loop \in {c, Idle},
         state[c] \notin {"new", "over"}, faults' \in 0..MaxFaults,
         applied' = applied \/ Applied(c, Head(todo[c]))
  PROVE  Shape' /\ \A d \in Calls : CallInv(d)'
<1> USE DEF Raise, Goto
<1>1. Shape'
  <2>1. applied' = [d \in Calls |-> applied'[d]]
    BY DEF Applied, IInv, Shape
  <2>2. <<>> \in Seq(Actions) /\ 0 \in 0..MaxUid /\ "over" \in States
    BY ToolConstants DEF States
  <2> QED BY <2>1, <2>2 DEF IInv, Shape
<1>2. Alone(c)
  BY DEF Alone, Mine, IInv, Shape, Applied
<1>3. Placed(c)'
  BY AgentConstants DEF Placed, Applied, IInv, CallInv, Shape, Serving
<1>4. TraceIsTrue(c)'
  <2>1. trace' = trace /\ outcome'[c] = "broken" /\ applied[c] \subseteq applied'[c]
    BY DEF IInv, Shape, Applied
  <2>2. \A w \in applied'[c] : w \in applied[c] \/ w.at = Len(trace[c]) + 1
    BY DEF IInv, Shape, Applied
  <2> QED BY <2>1, <2>2 DEF TraceIsTrue, IInv, CallInv
<1>5. Told(c)'
  BY DEF Told, IInv, CallInv, Shape
<1> QED BY <1>1, <1>2, <1>3, <1>4, <1>5, OthersKeepAll DEF CallInv

\* A tool has run, or has been found invalid.
LEMMA RecordKeeps ==
  ASSUME IInv, NEW c \in Calls, NEW valid, NEW uid, NEW seen,
         Record(c, valid, uid, seen), loop = c,
         state[c] \in {"acting", "describing"}, faults' \in 0..MaxFaults,
         \/ /\ applied' = applied
            /\ ~valid \/ Head(todo[c]).tool \notin WriteTools
         \/ valid /\ Applied(c, Head(todo[c]))
  PROVE  Shape' /\ \A d \in Calls : CallInv(d)'
<1> DEFINE step == [action |-> Head(todo[c]), valid |-> valid, uid |-> uid,
                    seen |-> seen]
<1> USE DEF Record, Goto
<1>1. todo[c] # <<>> /\ todo[c] \in Seq(Actions) /\ IsSeq(trace[c])
  BY DEF IInv, CallInv, Placed, Shape
<1>2. /\ trace' = [trace EXCEPT ![c] = Append(trace[c], step)]
      /\ trace'[c] = Append(trace[c], step) /\ IsSeq(trace'[c])
      /\ Len(trace'[c]) = Len(trace[c]) + 1
      /\ trace'[c][Len(trace[c]) + 1] = step
      /\ \A i \in 1..Len(trace[c]) : trace'[c][i] = trace[c][i]
  BY <1>1, AppendIs DEF IInv, Shape
<1>3. /\ step.action = Head(todo[c]) /\ step.valid = valid
  OBVIOUS
<1> HIDE DEF step
<1>4. Shape'
  <2>1. applied' = [d \in Calls |-> applied'[d]]
    BY DEF Applied, IInv, Shape
  <2>2. Tail(todo[c]) \in Seq(Actions) /\ 0 \in 0..MaxUid
    BY <1>1, ToolConstants
  <2>3. trace' = [d \in Calls |-> trace'[d]] /\ \A d \in Calls : IsSeq(trace'[d])
    BY <1>2 DEF IInv, Shape
  <2>4. state' \in [Calls -> States]
    BY DEF IInv, Shape, States
  <2> QED BY <2>1, <2>2, <2>3, <2>4 DEF IInv, Shape
<1>5. Alone(c)
  BY <1>2 DEF Alone, Mine, IInv, Shape, Applied
<1>6. state'[c] \in {"telling", "acting", "planning"}
      /\ (state'[c] = "acting" => Tail(todo[c]) # <<>>)
      /\ (state'[c] = "telling" <=> streamed[c])
  <2>1. Len(todo[c]) > 1 => Tail(todo[c]) # <<>>
    BY <1>1, TailIs
  <2>2. state'[c] = IF streamed[c] THEN "telling"
                    ELSE IF Len(todo[c]) > 1 THEN "acting" ELSE "planning"
    BY DEF IInv, Shape
  <2> QED BY <2>1, <2>2
<1>7. Placed(c)'
  BY <1>6 DEF Placed, Applied, IInv, CallInv, Shape, Serving
<1>8. TraceIsTrue(c)'
  <2>1. outcome' = outcome /\ outcome[c] = "none" /\ TraceIsTrue(c)
    BY DEF IInv, CallInv, Placed
  <2>2. \A w \in applied[c] : /\ w.at \in 1..Len(trace[c]) /\ trace[c][w.at].valid
                              /\ trace[c][w.at].action = w.action
    BY <2>1 DEF TraceIsTrue
  <2>3. applied[c] \subseteq applied'[c]
        /\ \A w \in applied'[c] \ applied[c] :
             w.at = Len(trace[c]) + 1 /\ w.action = Head(todo[c]) /\ valid
    BY DEF Applied, IInv, Shape
  <2>4. valid /\ Head(todo[c]).tool \in WriteTools =>
          \E w \in applied'[c] : w.at = Len(trace[c]) + 1 /\ w.action = Head(todo[c])
    BY DEF Applied, IInv, Shape
  <2>5. Len(trace[c]) \in Nat
    BY <1>1 DEF IsSeq
  <2>6. ASSUME NEW i \in 1..Len(trace'[c]), trace'[c][i].valid,
               trace'[c][i].action.tool \in WriteTools
        PROVE  \E w \in applied'[c] : w.at = i /\ w.action = trace'[c][i].action
    <3>1. CASE i = Len(trace[c]) + 1
      BY <3>1, <2>6, <2>4, <1>2, <1>3
    <3>2. CASE i \in 1..Len(trace[c])
      BY <3>2, <2>6, <2>1, <2>3, <1>2 DEF TraceIsTrue
    <3> QED BY <3>1, <3>2, <2>5, <1>2
  <2>7. ASSUME NEW w \in applied'[c]
        PROVE  /\ w.at \in 1..Len(trace'[c]) /\ trace'[c][w.at].valid
               /\ trace'[c][w.at].action = w.action
    <3>1. CASE w \in applied[c]
      BY <3>1, <2>2, <2>5, <1>2
    <3>2. CASE w \notin applied[c]
      BY <3>2, <2>3, <2>5, <1>2, <1>3
    <3> QED BY <3>1, <3>2
  <2> QED BY <2>6, <2>7 DEF TraceIsTrue
<1>9. Told(c)'
  <2>1. Len(trace[c]) \in Nat /\ Told(c) /\ events' = events
    BY <1>1 DEF IsSeq, IInv, CallInv
  <2>2. \A k \in 1..(2 * Len(trace[c])) : Flatten(trace'[c])[k] = Flatten(trace[c])[k]
    BY <1>1, <1>2, FlattenGrows
  <2>3. IsSeq(events[c]) /\ Len(events[c]) \in Nat
    BY <2>1 DEF Told, IsSeq
  <2>4. streamed' = streamed /\ Len(trace'[c]) = Len(trace[c]) + 1
    BY <1>2
  <2>5. streamed[c] => Len(events[c]) = 2 * Len(trace[c])
    BY <2>1 DEF Told
  <2>6. Len(events[c]) <= 2 * Len(trace[c])
    BY <2>1 DEF Told
  <2>7. \A k \in 1..Len(events[c]) : events[c][k] = Flatten(trace'[c])[k]
    <3> SUFFICES ASSUME NEW k \in 1..Len(events[c])
                 PROVE  events[c][k] = Flatten(trace'[c])[k]
      OBVIOUS
    <3>1. k \in 1..(2 * Len(trace[c]))
      BY <2>1, <2>3, <2>6
    <3>2. events[c][k] = Flatten(trace[c])[k]
      BY <2>1 DEF Told
    <3> QED BY <2>2, <3>1, <3>2
  <2>8. Len(events[c]) <= 2 * Len(trace'[c])
    BY <2>1, <2>3, <2>4, <2>6
  <2>9. state'[c] \notin {"new", "asked", "describing", "told call", "told result"}
    BY <1>6
  <2>10. state'[c] = "telling" => /\ streamed'[c]
                                 /\ Len(events[c]) = 2 * Len(trace'[c]) - 2
    <3>1. 2 * Len(trace'[c]) - 2 = 2 * Len(trace[c])
      BY <2>1, <2>4
    <3> QED BY <1>6, <2>4, <2>5, <3>1
  <2>11. state'[c] \in {"planning", "acting"} => ~streamed'[c]
    BY <1>6, <2>4
  <2>12. IsSeq(events'[c]) /\ events'[c] = events[c]
    BY <2>1, <2>3
  <2> HIDE DEF Record
  <2> QED BY <2>7, <2>8, <2>9, <2>10, <2>11, <2>12 DEF Told
<1> QED BY <1>4, <1>5, <1>7, <1>8, <1>9, OthersKeepAll DEF CallInv

\* The call is answered.
LEMMA FinishKeeps ==
  ASSUME IInv, NEW c \in Calls, Running(c, "planning"), Finish(c),
         applied' = applied, faults' \in 0..MaxFaults
  PROVE  Shape' /\ \A d \in Calls : CallInv(d)'
<1> USE DEF Finish, Goto, Running
<1>1. Shape'
  BY DEF IInv, Shape, States
<1>2. Alone(c)
  BY DEF Alone, Mine, IInv, Shape
<1>3. Placed(c)'
  BY AgentConstants DEF Placed, IInv, CallInv, Shape, Serving
<1>4. TraceIsTrue(c)'
  <2>1. TraceIsTrue(c) /\ outcome[c] = "none"
    BY DEF Placed, IInv, CallInv
  <2>2. trace'[c] = trace[c] /\ applied'[c] = applied[c]
    OBVIOUS
  <2> HIDE DEF Finish
  <2> QED BY <2>1, <2>2, TraceKept
<1>5. Told(c)'
  <2>1. IsSeq(trace[c]) /\ Told(c) /\ trace' = trace
    BY DEF IInv, CallInv, Shape
  <2>2. state'[c] = "over"
    BY DEF IInv, Shape
  <2>3. CASE streamed[c]
    BY <2>1, <2>2, <2>3 DEF Told
  <2>4. CASE ~streamed[c]
    <3>1. events'[c] = Flatten(trace[c])
      BY <2>4 DEF IInv, Shape
    <3>2. IsSeq(events'[c]) /\ Len(events'[c]) = 2 * Len(trace[c])
      BY <2>1, <3>1, FlattenIs
    <3>3. Len(events'[c]) <= 2 * Len(trace[c])
      BY <3>2 DEF IsSeq
    <3> QED BY <2>1, <2>2, <3>1, <3>2, <3>3 DEF Told
  <2> QED BY <2>3, <2>4
<1> QED BY <1>1, <1>2, <1>3, <1>4, <1>5, OthersKeepAll DEF CallInv

\* What becomes of a call when it only goes on to another place.
LEMMA GoingKeeps ==
  ASSUME IInv, NEW c \in Calls, Shape', Alone(c),
         UNCHANGED <<streamed[c], trace[c], events[c], outcome[c], applied[c]>>,
         Placed(c)',
         state[c] \in {"new", "asked", "planning", "acting", "told result"},
         state'[c] \in {"asked", "planning", "acting", "describing"},
         state'[c] = "asked" => state[c] = "new",
         state'[c] # "asked" /\ streamed[c] => Len(events[c]) = 2 * Len(trace[c])
  PROVE  \A d \in Calls : CallInv(d)'
<1>1. TraceIsTrue(c)'
  BY TraceKept DEF IInv, CallInv
<1>2. Told(c)'
  BY DEF Told, IInv, CallInv
<1> QED BY <1>1, <1>2, OthersKeepAll DEF CallInv

-----------------------------------------------------------------------------
(* The actions. *)

\* Only the agent that has the write tools writes.
LEMMA ApplyIs ==
  ASSUME IInv, NEW c \in Calls, NEW i, NEW a, Apply(c, i, a), a = Head(todo[c]),
         i = Len(trace[c]) + 1, Calling(c), Found(a)
  PROVE  Applied(c, a) /\ ClusterShape' /\ a.tool \in WriteTools
<1>1. a.tool \in WriteTools
  BY DEF Apply, RestartPod, RestartDeployment, ScaleDeployment, WriteTools
<1>2. agent[c] = "ops"
  BY <1>1 DEF Calling, ToolsOf, ClusterTools, WriteTools
<1>3. Applied(c, a)
  BY <1>2 DEF Applied, Apply
<1>4. a \in Actions /\ (a.tool = "scale_deployment" => a.n \in Nat)
  <2>1. todo[c] \in Seq(Actions) /\ todo[c] # <<>> /\ Acceptable(a)
    BY DEF Calling, Running, IInv, Shape, CallInv, Placed
  <2>2. a \in Actions
    BY <2>1
  <2> QED BY <2>1, <2>2 DEF Acceptable, Actions
<1>5. ClusterShape'
  <2>1. CASE RestartPod(a)
    BY <2>1 DEF RestartPod, IInv, ClusterShape, Lives
  <2>2. CASE RestartDeployment(a)
    <3>1. a.on \in Deployments => deployments[a.on].restarts + 1 \in Nat
      BY DEF IInv, ClusterShape
    <3>2. pods' = pods
          /\ deployments' = [deployments EXCEPT
                              ![a.on].restarts = deployments[a.on].restarts + 1]
      BY <2>2 DEF RestartDeployment
    <3> QED BY <3>1, <3>2 DEF IInv, ClusterShape
  <2>3. CASE ScaleDeployment(a)
    BY <2>3, <1>4 DEF ScaleDeployment, IInv, ClusterShape
  <2> QED BY <2>1, <2>2, <2>3 DEF Apply
<1> QED BY <1>1, <1>3, <1>5

\* Which event is the next one, of a step that is being told.
LEMMA NextEvent ==
  ASSUME NEW n \in Nat, NEW m \in Nat, NEW telling \in BOOLEAN,
         n = IF telling THEN 2 * m - 2 ELSE 2 * m - 1
  PROVE  /\ n + 1 <= 2 * m /\ n < 2 * m
         /\ telling => n + 1 = 2 * m - 1
         /\ ~telling => n + 1 = 2 * m
  OBVIOUS

\* What is told so far, or the next event.
LEMMA UpToNext ==
  ASSUME NEW n \in Nat, NEW k \in 1..(n + 1)
  PROVE  k \in 1..n \/ k = n + 1
  OBVIOUS

\* A stream tells the next event of its trace.
LEMMA YieldKeeps ==
  ASSUME IInv, NEW c \in Calls, YieldToolCall(c) \/ YieldToolResult(c)
  PROVE  /\ Shape' /\ ClusterShape' /\ \A d \in Calls : CallInv(d)'
         /\ Len(events[c]) < 2 * Len(trace[c])
         /\ events' = [events EXCEPT ![c] =
                         Append(@, Flatten(trace[c])[Len(events[c]) + 1])]
<1> DEFINE next == Flatten(trace[c])[Len(events[c]) + 1]
<1>1. PICK s \in {"told call", "told result"} :
        /\ Yield(c, s) /\ loop \in {c, Idle}
        /\ state[c] = IF s = "told call" THEN "telling" ELSE "told call"
  BY DEF YieldToolCall, YieldToolResult, Running
<1>2. /\ events' = [events EXCEPT ![c] = Append(@, next)]
      /\ state' = [state EXCEPT ![c] = s] /\ loop' = Idle
      /\ UNCHANGED <<pods, deployments, applied, initialised, verdict, agent,
                     streamed, rounds, todo, looked, trace, outcome, faults>>
  BY <1>1 DEF Yield, Goto, clusterVars
<1>3. Told(c)
  BY DEF IInv, CallInv
<1>s. IsSeq(events[c])
  BY <1>3 DEF Told
<1>n. Len(trace[c]) \in Nat /\ Len(events[c]) \in Nat
  BY <1>s DEF IInv, Shape, IsSeq
<1> HIDE DEF next
<1>4. /\ events'[c] = Append(events[c], next) /\ IsSeq(events'[c])
      /\ Len(events'[c]) = Len(events[c]) + 1 /\ events'[c][Len(events[c]) + 1] = next
      /\ \A k \in 1..Len(events[c]) : events'[c][k] = events[c][k]
  <2>1. events'[c] = Append(events[c], next)
    BY <1>2 DEF IInv, Shape
  <2>2. /\ IsSeq(Append(events[c], next))
        /\ Len(Append(events[c], next)) = Len(events[c]) + 1
        /\ Append(events[c], next)[Len(events[c]) + 1] = next
        /\ \A i \in 1..Len(events[c]) : Append(events[c], next)[i] = events[c][i]
    BY <1>s, AppendIs
  <2> QED BY <2>1, <2>2
<1>b. streamed[c]
  BY <1>1, <1>3 DEF Told
<1>5. /\ Len(events[c]) + 1 <= 2 * Len(trace[c])
      /\ Len(events[c]) < 2 * Len(trace[c])
      /\ s = "told call" => Len(events[c]) + 1 = 2 * Len(trace[c]) - 1
      /\ s # "told call" => Len(events[c]) + 1 = 2 * Len(trace[c])
  <2>1. Len(events[c]) = IF s = "told call" THEN 2 * Len(trace[c]) - 2
                                            ELSE 2 * Len(trace[c]) - 1
    BY <1>1, <1>3 DEF Told
  <2> QED BY <1>n, <2>1, NextEvent
<1>6. Shape' /\ ClusterShape'
  BY <1>1, <1>2 DEF IInv, Shape, ClusterShape, States
<1>7. Alone(c) /\ state'[c] = s
  BY <1>1, <1>2 DEF Alone, Mine, IInv, Shape
<1>8. Placed(c)'
  BY <1>1, <1>2, <1>7, AgentConstants DEF Placed, IInv, CallInv, Serving
<1>9. TraceIsTrue(c)'
  BY <1>2, TraceKept DEF IInv, CallInv
<1>10. Told(c)'
  <2>1. \A k \in 1..Len(events'[c]) : events'[c][k] = Flatten(trace[c])[k]
    <3> SUFFICES ASSUME NEW k \in 1..Len(events'[c])
                 PROVE  events'[c][k] = Flatten(trace[c])[k]
      OBVIOUS
    <3>1. CASE k = Len(events[c]) + 1
      BY <1>4, <3>1 DEF next
    <3>2. CASE k \in 1..Len(events[c])
      <4>1. events[c][k] = Flatten(trace[c])[k]
        BY <1>3, <3>2 DEF Told
      <4> QED BY <1>4, <3>2, <4>1
    <3>3. k \in 1..(Len(events[c]) + 1)
      BY <1>4
    <3>4. k \in 1..Len(events[c]) \/ k = Len(events[c]) + 1
      BY <1>n, <3>3, UpToNext
    <3> QED BY <3>1, <3>2, <3>4
  <2>2. UNCHANGED <<trace, streamed>>
    BY <1>2
  <2> QED BY <1>4, <1>5, <1>7, <1>b, <2>1, <2>2 DEF Told
<1> QED BY <1>2, <1>6, <1>7, <1>8, <1>9, <1>10, <1>5, OthersKeepAll DEF CallInv, next

\* The invariant holds initially.
LEMMA InitIInv == Init => IInv
<1> SUFFICES ASSUME Init PROVE IInv
  OBVIOUS
<1> USE DEF Init, ClusterInit
<1>1. \A c \in Calls : IsSeq(trace[c]) /\ Len(trace[c]) = 0 /\ trace[c] = <<>>
  BY EmptyIs
<1>2. Shape
  <2>1. <<>> \in Seq(Actions) /\ 0 \in 0..MaxRounds /\ 0 \in 0..MaxUid
        /\ 0 \in 0..MaxFaults
    BY ToolConstants, AgentConstants
  <2> QED BY <1>1, <2>1, AgentConstants DEF Shape, States
<1>3. ClusterShape
  BY ToolConstants DEF ClusterShape, Lives
<1>4. ASSUME NEW c \in Calls PROVE CallInv(c)
  <2>1. Placed(c)
    BY AgentConstants DEF Placed, Serving
  <2>2. TraceIsTrue(c)
    BY <1>1 DEF TraceIsTrue
  <2>3. IsSeq(events[c]) /\ Len(events[c]) = 0
    BY EmptyIs
  <2> QED BY <1>1, <2>1, <2>2, <2>3 DEF CallInv, Told
<1> QED BY <1>2, <1>3, <1>4 DEF IInv

\* What a call does, it does with its own state.
LEMMA CallStep ==
  ASSUME IInv, NEW c \in Calls, Classify(c) \/ Serve(c) \/ Close(c)
  PROVE  IInv'
<1> SUFFICES ClusterShape' /\ Shape' /\ \A d \in Calls : CallInv(d)'
  BY DEF IInv
<1>0. faults \in 0..MaxFaults /\ (Fault => faults' \in 0..MaxFaults)
  BY AgentConstants DEF IInv, Shape, Fault
<1> USE DEF clusterVars
<1>1. CASE Classify(c)
  <2>1. PICK reply \in {"WRITE", "other", "failure"} :
          /\ verdict' = [verdict EXCEPT ![c] = reply]
          /\ agent' = [agent EXCEPT ![c] = AgentFor(reply)]
          /\ faults' \in 0..MaxFaults
    BY <1>0, <1>1 DEF Classify
  <2>2. AgentFor(reply) \in {"cluster", "ops"}
        /\ (AgentFor(reply) = "ops" => reply = "WRITE")
    BY DEF AgentFor
  <2>3. /\ state[c] = "new" /\ loop = Idle /\ UNCHANGED loop
        /\ state' = [state EXCEPT ![c] = "asked"]
        /\ UNCHANGED <<pods, deployments, applied, initialised, streamed, rounds,
                       todo, looked, trace, events, outcome>>
    BY <1>1 DEF Classify, Goto
  <2> HIDE DEF clusterVars
  <2>4. Shape'
    BY <2>1, <2>2, <2>3 DEF IInv, Shape, States
  <2>5. Alone(c)
    BY <2>1, <2>3 DEF IInv, Shape, Alone, Mine
  <2>6. Placed(c)'
    BY <2>1, <2>2, <2>3, AgentConstants DEF Placed, IInv, CallInv, Shape, Serving
  <2>7. ClusterShape'
    BY <2>3 DEF IInv, ClusterShape
  <2>8. state'[c] = "asked"
    BY <2>3 DEF IInv, Shape
  <2> QED BY <2>3, <2>4, <2>5, <2>6, <2>7, <2>8, GoingKeeps
<1>2. CASE Begin(c)
  <2>1. ClusterShape' /\ faults' \in 0..MaxFaults /\ applied' = applied
        /\ loop = Idle /\ state[c] = "asked"
    BY <1>0, <1>2 DEF Begin, IInv, ClusterShape
  <2>2. CASE Raise(c)
    BY <2>1, <2>2, RaiseKeeps
  <2>3. CASE /\ Goto(c, "planning") /\ loop' = c
             /\ UNCHANGED <<verdict, agent, streamed, rounds, todo, looked, trace,
                            events, outcome>>
    <3>1. Shape' /\ Alone(c) /\ state'[c] = "planning"
      BY <1>2, <2>1, <2>3 DEF Begin, Goto, Alone, Mine, IInv, Shape, States
    <3>2. Placed(c)'
      BY <1>2, <2>1, <2>3, <3>1 DEF Begin, Placed, IInv, CallInv, Serving
    <3>3. Len(events[c]) = 2 * Len(trace[c])
      <4>1. Len(trace[c]) = 0 /\ Len(events[c]) <= 2 * Len(trace[c])
            /\ Len(events[c]) \in Nat
        BY <2>1 DEF IInv, CallInv, Told, IsSeq
      <4> QED BY <4>1
    <3> QED BY <2>1, <2>3, <3>1, <3>2, <3>3, GoingKeeps
  <2> QED BY <1>2, <2>2, <2>3 DEF Begin
<1>3. CASE Plan(c)
  <2>1. ClusterShape' /\ faults' \in 0..MaxFaults /\ applied' = applied
        /\ Running(c, "planning") /\ loop = c /\ state[c] = "planning"
    BY <1>0, <1>3 DEF Plan, IInv, ClusterShape, Running
  <2>2. CASE Finish(c)
    BY <2>1, <2>2, FinishKeeps
  <2>3. CASE Raise(c)
    BY <2>1, <2>3, RaiseKeeps
  <2>4. CASE /\ rounds[c] < MaxRounds
             /\ \E batch \in Asks[c][rounds[c] + 1] :
                  todo' = [todo EXCEPT ![c] = batch]
             /\ rounds' = [rounds EXCEPT ![c] = @ + 1]
             /\ Goto(c, "acting")
             /\ UNCHANGED <<verdict, agent, streamed, looked, trace, events,
                            outcome, loop, faults>>
    <3>1. rounds[c] + 1 \in 1..MaxRounds
      BY <2>4, AgentConstants DEF IInv, Shape
    <3>2. PICK batch \in Seq(Actions) : /\ todo' = [todo EXCEPT ![c] = batch]
                                       /\ batch # <<>>
      <4>1. Asks[c][rounds[c] + 1] \subseteq Seq(Actions) \ {<<>>}
        BY <3>1, AgentConstants
      <4> QED BY <2>4, <4>1
    <3>3. Shape'
      <4>1. todo' \in [Calls -> Seq(Actions)] /\ rounds' \in [Calls -> 0..MaxRounds]
        BY <2>4, <3>1, <3>2, AgentConstants DEF IInv, Shape
      <4>2. UNCHANGED initialised
        BY <1>3 DEF Plan
      <4> QED BY <2>1, <2>4, <4>1, <4>2 DEF Goto, IInv, Shape, States
    <3>4. Alone(c) /\ state'[c] = "acting"
      BY <1>3, <2>1, <2>4 DEF Plan, Goto, Alone, Mine, IInv, Shape
    <3>5. Placed(c)'
      BY <2>1, <2>4, <3>2, <3>4 DEF Placed, IInv, CallInv, Shape, Serving
    <3>6. streamed[c] => Len(events[c]) = 2 * Len(trace[c])
      BY <2>1 DEF IInv, CallInv, Told
    <3> QED BY <2>1, <2>4, <3>3, <3>4, <3>5, <3>6, GoingKeeps
  <2> QED BY <1>3, <2>2, <2>3, <2>4 DEF Plan
<1>4. CASE InvalidTool(c)
  <2>1. ClusterShape' /\ faults' \in 0..MaxFaults /\ applied' = applied /\ loop = c
        /\ state[c] = "acting" /\ Record(c, FALSE, 0, {})
    BY <1>0, <1>4 DEF InvalidTool, IInv, ClusterShape, Running
  <2> QED BY <2>1, RecordKeeps
<1>5. CASE Refuse(c) \/ CannotLoad(c) \/ RequestFails(c)
  <2>1. ClusterShape' /\ faults' \in 0..MaxFaults /\ applied' = applied /\ loop = c
        /\ state[c] = "acting" /\ Raise(c)
    BY <1>0, <1>5 DEF Refuse, CannotLoad, RequestFails, Calling, IInv, ClusterShape,
                      Running
  <2> QED BY <2>1, RaiseKeeps
<1>6. CASE AnswerIsLost(c)
  <2>1. Calling(c) /\ loop = c /\ state[c] = "acting" /\ Raise(c)
        /\ faults' \in 0..MaxFaults /\ Found(Head(todo[c]))
        /\ Apply(c, Len(trace[c]) + 1, Head(todo[c]))
    BY <1>0, <1>6 DEF AnswerIsLost, Calling, Running
  <2> QED BY <2>1, ApplyIs, RaiseKeeps
<1>7. CASE Read(c)
  <2>1. ClusterShape' /\ faults' \in 0..MaxFaults /\ applied' = applied /\ loop = c
        /\ state[c] = "acting"
        /\ Record(c, TRUE, 0, Observation(Head(todo[c])))
        /\ Head(todo[c]).tool \notin WriteTools
    BY <1>0, <1>7 DEF Read, IInv, ClusterShape, Calling, Running, ClusterTools,
                      WriteTools
  <2> QED BY <2>1, RecordKeeps
<1>8. CASE Write(c)
  <2> DEFINE a == Head(todo[c])
             uid == IF a.tool = "restart_pod" THEN pods[a.on].uid ELSE 0
  <2>1. Calling(c) /\ loop = c /\ state[c] = "acting" /\ faults' \in 0..MaxFaults
        /\ Found(a) /\ Apply(c, Len(trace[c]) + 1, a) /\ Record(c, TRUE, uid, {})
    BY <1>0, <1>8 DEF Write, Calling, Running
  <2> HIDE DEF uid
  <2> QED BY <2>1, ApplyIs, RecordKeeps
<1>9. CASE DescribeReadsPod(c)
  <2>1. /\ loop = c /\ state[c] = "acting" /\ Head(todo[c]).tool = "describe_pod"
        /\ Head(todo[c]).on \in Pods
    BY <1>9 DEF DescribeReadsPod, Calling, Running, Found, PodTools
  <2>2. pods[Head(todo[c]).on].uid \in 0..MaxUid
    BY <2>1 DEF IInv, ClusterShape
  <2>3. Shape' /\ ClusterShape'
    BY <1>9, <2>2 DEF DescribeReadsPod, Goto, IInv, Shape, ClusterShape, States
  <2>4. Alone(c) /\ state'[c] = "describing"
    BY <1>9, <2>1 DEF DescribeReadsPod, Goto, Alone, Mine, IInv, Shape
  <2>5. Placed(c)'
    BY <1>9, <2>1, <2>4 DEF DescribeReadsPod, Placed, IInv, CallInv, Serving
  <2>6. streamed[c] => Len(events[c]) = 2 * Len(trace[c])
    BY <2>1 DEF IInv, CallInv, Told
  <2>7. UNCHANGED <<streamed, trace, events, outcome, applied>>
    BY <1>9 DEF DescribeReadsPod
  <2> QED BY <2>1, <2>3, <2>4, <2>5, <2>6, <2>7, GoingKeeps
<1>10. CASE DescribeReadsEvents(c)
  <2>1. ClusterShape' /\ faults' \in 0..MaxFaults /\ applied' = applied /\ loop = c
        /\ state[c] = "describing"
    BY <1>0, <1>10 DEF DescribeReadsEvents, IInv, ClusterShape, Running
  <2>2. Head(todo[c]).tool \notin WriteTools
    BY <2>1 DEF IInv, CallInv, Placed, WriteTools
  <2>3. CASE Raise(c)
    BY <2>1, <2>3, RaiseKeeps
  <2>4. CASE Record(c, TRUE, looked[c], Observation(Head(todo[c])))
    BY <2>1, <2>2, <2>4, RecordKeeps
  <2> QED BY <1>10, <2>3, <2>4 DEF DescribeReadsEvents
<1>11. CASE YieldToolCall(c) \/ YieldToolResult(c)
  BY <1>11, YieldKeeps
<1>12. CASE Resume(c)
  <2>1. /\ loop = Idle /\ state[c] = "told result" /\ loop' = c
        /\ state'[c] \in {"acting", "planning"}
        /\ (state'[c] = "acting" => todo[c] # <<>>)
    BY <1>12 DEF Resume, Goto, IInv, Shape
  <2>2. Shape' /\ ClusterShape'
    BY <1>12 DEF Resume, Goto, IInv, Shape, ClusterShape, States
  <2>3. Alone(c)
    BY <1>12, <2>1 DEF Resume, Goto, Alone, Mine, IInv, Shape
  <2>4. Placed(c)'
    BY <1>12, <2>1 DEF Resume, Placed, IInv, CallInv, Serving
  <2>5. streamed[c] => Len(events[c]) = 2 * Len(trace[c])
    BY <2>1 DEF IInv, CallInv, Told
  <2>6. UNCHANGED <<streamed, trace, events, outcome, applied>>
    BY <1>12 DEF Resume
  <2> QED BY <2>1, <2>2, <2>3, <2>4, <2>5, <2>6, GoingKeeps
<1>13. CASE Close(c)
  <2>1. ClusterShape' /\ faults' \in 0..MaxFaults /\ applied' = applied
        /\ loop = Idle /\ state[c] \in {"told call", "told result"} /\ Raise(c)
    BY <1>0, <1>13 DEF Close, IInv, ClusterShape
  <2> QED BY <2>1, RaiseKeeps
<1> QED BY <1>1, <1>2, <1>3, <1>4, <1>5, <1>6, <1>7, <1>8, <1>9, <1>10, <1>11,
           <1>12, <1>13 DEF Serve, Act

\* What dies is over; what has not begun, or is over already, stays.
LEMMA DieKeeps ==
  ASSUME IInv, Die
  PROVE  IInv'
<1>1. /\ UNCHANGED <<pods, deployments, applied, verdict, agent, streamed,
                     rounds, trace, events>>
      /\ loop' = Idle /\ faults' \in 0..MaxFaults
  BY AgentConstants DEF Die, Fault, clusterVars, IInv, Shape
<1>2. Shape' /\ ClusterShape'
  <2>1. <<>> \in Seq(Actions) /\ 0 \in 0..MaxUid /\ "over" \in States
    BY ToolConstants DEF States
  <2>2. /\ state' \in [Calls -> States] /\ todo' \in [Calls -> Seq(Actions)]
        /\ looked' \in [Calls -> 0..MaxUid]
        /\ outcome' \in [Calls -> {"none", "answered", "broken"}]
    BY <2>1 DEF Die, IInv, Shape
  <2> QED BY <1>1, <2>2 DEF IInv, Shape, ClusterShape
<1>3. ASSUME NEW c \in Calls PROVE CallInv(c)'
  <2>1. CallInv(c)
    BY DEF IInv
  <2>2. CASE state[c] \in {"new", "asked", "over"}
    <3>1. UNCHANGED Mine(c)
      BY <1>1, <2>2 DEF Die, Mine
    <3>2. loop # c /\ loop' # c
      BY <1>1, <2>1, <2>2, AgentConstants DEF CallInv, Placed, Serving
    <3> QED BY <2>1, <3>1, <3>2, OthersKeep
  <2>3. CASE state[c] \notin {"new", "asked", "over"}
    <3>1. state'[c] = "over" /\ outcome'[c] = "broken"
      BY <2>3 DEF Die
    <3>2. Placed(c)'
      BY <1>1, <2>1, <3>1, <2>3, AgentConstants DEF CallInv, Placed, Serving
    <3>3. TraceIsTrue(c)'
      BY <1>1, <2>1, <3>1, TraceKept DEF CallInv
    <3>4. Told(c)'
      BY <1>1, <2>1, <3>1 DEF CallInv, Told
    <3> QED BY <3>2, <3>3, <3>4 DEF CallInv
  <2> QED BY <2>2, <2>3
<1> QED BY <1>2, <1>3 DEF IInv

\* The cluster's own steps leave the calls alone.
LEMMA ClusterKeeps ==
  ASSUME IInv, ClusterStep
  PROVE  IInv'
<1>1. UNCHANGED <<applied, verdict, agent, state, streamed, rounds, todo, looked,
                  trace, events, outcome, loop, faults>>
  BY DEF ClusterStep, Vanish, Recreate, Converge, callVars
<1>2. ClusterShape'
  <2>1. CASE \E p \in Pods : Recreate(p)
    <3>1. PICK p \in Pods : Recreate(p)
      BY <2>1
    <3>2. pods[p].uid + 1 \in 1..MaxUid
      BY <3>1, ToolConstants DEF Recreate, IInv, ClusterShape
    <3>3. pods' = [pods EXCEPT ![p] = [uid |-> pods[p].uid + 1, life |-> "up"]]
      BY <3>1 DEF Recreate
    <3> QED BY <3>1, <3>2, <3>3 DEF Recreate, IInv, ClusterShape, Lives
  <2>0. CASE \E p \in Pods : Vanish(p)
    BY <2>0 DEF Vanish, IInv, ClusterShape, Lives
  <2>2. CASE \E d \in Deployments : Converge(d)
    BY <2>2 DEF Converge, IInv, ClusterShape
  <2> QED BY <2>0, <2>1, <2>2 DEF ClusterStep
<1>3. Shape'
  BY <1>1 DEF IInv, Shape
<1>4. ASSUME NEW c \in Calls PROVE CallInv(c)'
  <2>1. CallInv(c) /\ UNCHANGED Mine(c)
    BY <1>1 DEF IInv, Mine
  <2> QED BY <1>1, <2>1, OthersKeep
<1> QED BY <1>2, <1>3, <1>4 DEF IInv

\* No step at all.
LEMMA StutterKeeps ==
  ASSUME IInv, UNCHANGED vars
  PROVE  IInv'
<1>1. UNCHANGED <<applied, verdict, agent, state, streamed, rounds, todo, looked,
                  trace, events, outcome, loop, faults, pods, deployments>>
  BY DEF vars, callVars
<1>2. Shape' /\ ClusterShape'
  BY <1>1 DEF IInv, Shape, ClusterShape
<1>3. ASSUME NEW c \in Calls PROVE CallInv(c)'
  <2>1. CallInv(c) /\ UNCHANGED Mine(c)
    BY <1>1 DEF IInv, Mine
  <2> QED BY <1>1, <2>1, OthersKeep
<1> QED BY <1>2, <1>3 DEF IInv

\* The inductive invariant.
THEOREM Invariant == Spec => []IInv
<1>1. IInv /\ [Next]_vars => IInv'
  BY CallStep, ClusterKeeps, DieKeeps, StutterKeeps DEF Next
<1> QED BY <1>1, InitIInv, PTL DEF Spec

-----------------------------------------------------------------------------
(* The properties. *)

Flag == initialised \in BOOLEAN

\* The client of Kubernetes is loaded or not.
LEMMA FlagKept ==
  ASSUME Flag, [Next]_vars
  PROVE  Flag'
<1>1. CASE ClusterStep \/ Die \/ UNCHANGED vars
  BY <1>1 DEF Flag, ClusterStep, Die, vars
<1>2. ASSUME NEW c \in Calls, Classify(c) \/ Serve(c) \/ Close(c)
      PROVE  Flag'
  BY <1>2 DEF Flag, Classify, Close, Serve, Begin, Plan, Act, InvalidTool,
     Refuse, CannotLoad, RequestFails, AnswerIsLost, Read, Write,
     DescribeReadsPod, DescribeReadsEvents, YieldToolCall, YieldToolResult,
     Yield, Resume, GetApi
<1> QED BY <1>1, <1>2 DEF Next

\* Type correctness, and the event loop is held by a call whose code runs.
THEOREM TypeCorrect == Spec => []TypeOK
<1>1. Init => Flag
  BY DEF Init, ClusterInit, Flag
<1>2. IInv /\ Flag => TypeOK
  <2> SUFFICES ASSUME IInv, Flag PROVE TypeOK
    OBVIOUS
  <2>1. \A c \in Calls : Len(events[c]) <= 2 * Len(trace[c])
    BY DEF IInv, CallInv, Told
  <2>2. \A c \in Calls : loop = c <=>
          state[c] \in {"planning", "acting", "describing", "telling"}
    BY DEF IInv, CallInv, Placed, Serving
  <2> QED BY <2>1, <2>2 DEF IInv, Shape, ClusterShape, TypeOK, Flag
<1>3. Flag /\ [Next]_vars => Flag'
  BY FlagKept
<1> QED BY <1>1, <1>2, <1>3, Invariant, PTL DEF Spec

\* The agent that can change the cluster works only on what /classify has
\* called a change, so nothing else changes it.
THEOREM OnlyClassifiedWrites == Spec => []WritesAreClassified
<1>1. IInv => WritesAreClassified
  BY DEF IInv, CallInv, Placed, WritesAreClassified
<1> QED BY <1>1, Invariant, PTL

\* Each write a trace shows was made, and each that was made is shown, but for
\* the last one of a call that broke off on a lost answer.
THEOREM TracesTrue == Spec => []TracesAreTrue
<1>1. IInv => TracesAreTrue
  BY DEF IInv, CallInv, TraceIsTrue, TracesAreTrue
<1> QED BY <1>1, Invariant, PTL

-----------------------------------------------------------------------------
(* The cluster and the changes made to it. *)

\* What the tool that c runs does, when it changes the cluster.
Changing(c) ==
  /\ Apply(c, Len(trace[c]) + 1, Head(todo[c])) /\ Found(Head(todo[c]))
  /\ outcome[c] = "none"

\* What changes the cluster: controllers, or a call that writes.
LEMMA WhatChanges ==
  ASSUME IInv, [Next]_vars
  PROVE  \/ UNCHANGED <<pods, deployments, applied>>
         \/ ClusterStep
         \/ \E c \in Calls : Changing(c)
<1>1. CASE Die \/ UNCHANGED vars
  BY <1>1 DEF Die, vars, clusterVars
<1>2. ASSUME NEW c \in Calls, Classify(c) \/ Serve(c) \/ Close(c)
      PROVE  UNCHANGED <<pods, deployments, applied>> \/ Changing(c)
  <2>1. CASE AnswerIsLost(c) \/ Write(c)
    <3>1. outcome[c] = "none"
      BY <2>1 DEF AnswerIsLost, Write, Calling, Running, IInv, CallInv, Placed
    <3> QED BY <2>1, <3>1 DEF AnswerIsLost, Write, Changing
  <2>2. CASE ~(AnswerIsLost(c) \/ Write(c))
    BY <1>2, <2>2 DEF Classify, Close, Serve, Begin, Plan, Act, InvalidTool,
       Refuse, CannotLoad, RequestFails, Read, DescribeReadsPod,
       DescribeReadsEvents, YieldToolCall, YieldToolResult, Yield, Resume,
       clusterVars
  <2> QED BY <2>1, <2>2
<1> QED BY <1>1, <1>2 DEF Next

\* The change that is made for c.
Change(c) ==
  [at |-> Len(trace[c]) + 1, action |-> Head(todo[c]),
   uid |-> IF Head(todo[c]).tool = "restart_pod" THEN pods[Head(todo[c]).on].uid
           ELSE 0]

\* A call that writes adds one change, which was not there.
LEMMA OneMore ==
  ASSUME IInv, NEW c \in Calls, Changing(c)
  PROVE  /\ Changes' = Changes \cup {<<c, Change(c)>>}
         /\ <<c, Change(c)>> \notin Changes
<1>1. applied' = [applied EXCEPT ![c] = @ \cup {Change(c)}]
  BY DEF Changing, Apply, Change
<1>2. \A d \in Calls : applied'[d] = IF d = c THEN applied[d] \cup {Change(c)}
                                     ELSE applied[d]
  BY <1>1 DEF IInv, Shape
<1> HIDE DEF Change
<1>3. Changes' = Changes \cup {<<c, Change(c)>>}
  <2> DEFINE K == Change(c)
  <2> HIDE DEF K
  <2>1. \A x : x \in Changes <=> \E d \in Calls : \E w \in applied[d] : x = <<d, w>>
    BY DEF Changes
  <2>2. \A x : x \in Changes' <=> \E d \in Calls : \E w \in applied'[d] : x = <<d, w>>
    BY DEF Changes
  <2>3. applied'[c] = applied[c] \cup {K} /\ \A d \in Calls \ {c} : applied'[d] = applied[d]
    BY <1>2 DEF K
  <2>4. \A x : x \in Changes' <=> x \in Changes \/ x = <<c, K>>
    BY <2>1, <2>2, <2>3
  <2> QED BY <2>4 DEF K
<1>4. Change(c) \notin applied[c]
  <2>1. Change(c).at = Len(trace[c]) + 1 /\ Len(trace[c]) \in Nat
    BY DEF Change, IInv, Shape, IsSeq
  <2>2. \A w \in applied[c] : w.at \in 1..Len(trace[c])
    BY DEF Changing, IInv, CallInv, TraceIsTrue
  <2> QED BY <2>1, <2>2
<1>5. <<c, Change(c)>> \notin Changes
  BY <1>4 DEF Changes
<1> QED BY <1>3, <1>5

\* Every step keeps PodsStopAsAsked.
LEMMA PodsStep ==
  ASSUME IInv, PodsStopAsAsked, [Next]_vars
  PROVE  PodsStopAsAsked'
<1> SUFFICES ASSUME NEW p \in Pods, NEW u \in 1..MaxUid
             PROVE  (Stopped(p, u) <=>
                       \E h \in Changes : /\ Is(h[2].action, "restart_pod", p)
                                          /\ h[2].uid = u)'
  BY DEF PodsStopAsAsked
<1>1. Stopped(p, u) <=> \E h \in Changes : /\ Is(h[2].action, "restart_pod", p)
                                           /\ h[2].uid = u
  BY DEF PodsStopAsAsked
<1>2. pods[p].uid \in 1..MaxUid /\ pods = [q \in Pods |-> pods[q]]
  BY DEF IInv, ClusterShape
<1>3. CASE UNCHANGED <<pods, deployments, applied>>
  BY <1>1, <1>3 DEF Stopped, Changes
<1>4. CASE ClusterStep
  <2>1. Changes' = Changes
    BY <1>4 DEF ClusterStep, Vanish, Recreate, Converge, Changes
  <2>2. Stopped(p, u)' <=> Stopped(p, u)
    <3>1. CASE \E q \in Pods : Vanish(q)
      BY <1>2, <3>1 DEF Vanish, Stopped, IInv, ClusterShape
    <3>2. CASE \E q \in Pods : Recreate(q)
      <4>1. PICK q \in Pods : Recreate(q)
        BY <3>2
      <4>2. pods[q].life = "gone"
            /\ pods' = [pods EXCEPT ![q] = [uid |-> pods[q].uid + 1, life |-> "up"]]
        BY <4>1 DEF Recreate
      <4>3. CASE p = q
        <5>1. pods[p].life = "gone"
          BY <4>2, <4>3
        <5>2. pods'[p] = [uid |-> pods[p].uid + 1, life |-> "up"]
          BY <1>2, <4>2, <4>3
        <5> QED BY <1>2, <5>1, <5>2 DEF Stopped
      <4>4. CASE p # q
        BY <1>2, <4>2, <4>4 DEF Stopped
      <4> QED BY <4>3, <4>4
    <3>3. CASE \E d \in Deployments : Converge(d)
      BY <3>3 DEF Converge, Stopped
    <3> QED BY <1>4, <3>1, <3>2, <3>3 DEF ClusterStep
  <2> QED BY <1>1, <2>1, <2>2
<1>5. ASSUME NEW c \in Calls, Changing(c)
      PROVE  (Stopped(p, u) <=>
                \E h \in Changes : /\ Is(h[2].action, "restart_pod", p)
                                   /\ h[2].uid = u)'
  <2> DEFINE a == Head(todo[c])
  <2>1. Changes' = Changes \cup {<<c, Change(c)>>}
    BY <1>5, OneMore
  <2>2. /\ Change(c).action = a
        /\ a.tool = "restart_pod" => Change(c).uid = pods[a.on].uid
    BY DEF Change
  <2>3. <<c, Change(c)>>[2] = Change(c)
    OBVIOUS
  <2>4. CASE RestartPod(a)
    <3>1. a.tool = "restart_pod" /\ a.on \in Pods
      BY <1>5, <2>4 DEF RestartPod, Changing, Found, PodTools
    <3>2. pods' = [pods EXCEPT ![a.on].life = "going"]
      BY <2>4 DEF RestartPod
    <3> HIDE DEF a, Change
    <3>3. Stopped(p, u)' <=> Stopped(p, u) \/ (p = a.on /\ u = pods[p].uid)
      <4>1. CASE p = a.on
        <5>1. pods'[p].uid = pods[p].uid /\ pods'[p].life = "going"
          BY <1>2, <3>1, <3>2, <4>1
        <5> QED BY <1>2, <4>1, <5>1 DEF Stopped
      <4>2. CASE p # a.on
        BY <1>2, <3>2, <4>2 DEF Stopped
      <4> QED BY <4>1, <4>2
    <3> QED BY <1>1, <2>1, <2>2, <2>3, <3>1, <3>3 DEF Is
  <2>5. CASE RestartDeployment(a) \/ ScaleDeployment(a)
    <3>1. a.tool # "restart_pod" /\ pods' = pods
      BY <2>5 DEF RestartDeployment, ScaleDeployment
    <3> HIDE DEF a, Change
    <3> QED BY <1>1, <2>1, <2>2, <2>3, <3>1 DEF Is, Stopped
  <2> QED BY <1>5, <2>4, <2>5 DEF Changing, Apply
<1> QED BY <1>3, <1>4, <1>5, WhatChanges

\* The pods that stop are those that were to be restarted, and all of them.
THEOREM PodsStop == Spec => []PodsStopAsAsked
<1>1. Init => PodsStopAsAsked
  <2> SUFFICES ASSUME Init, NEW p \in Pods, NEW u \in 1..MaxUid
               PROVE  ~Stopped(p, u) /\ Changes = {}
    BY DEF PodsStopAsAsked
  <2>1. Changes = {}
    BY DEF Init, ClusterInit, Changes
  <2> QED BY <2>1 DEF Init, ClusterInit, Stopped
<1>2. IInv /\ PodsStopAsAsked /\ [Next]_vars => PodsStopAsAsked'
  BY PodsStep
<1> QED BY <1>1, <1>2, Invariant, PTL DEF Spec

\* The restarts of d that were made.
Restarts(d) == {h \in Changes : Is(h[2].action, "restart_deployment", d)}

Counted == \A d \in Deployments : IsFiniteSet(Restarts(d))

\* Every step keeps RestartsStand.
LEMMA RestartsStep ==
  ASSUME IInv, Counted, RestartsStand, [Next]_vars
  PROVE  Counted' /\ RestartsStand'
<1> SUFFICES ASSUME NEW d \in Deployments
             PROVE  /\ IsFiniteSet(Restarts(d)')
                    /\ deployments'[d].restarts = Cardinality(Restarts(d)')
  BY DEF Counted, RestartsStand, Restarts
<1>1. /\ IsFiniteSet(Restarts(d))
      /\ deployments[d].restarts = Cardinality(Restarts(d))
  BY DEF Counted, RestartsStand, Restarts
<1>2. deployments = [e \in Deployments |-> deployments[e]]
      /\ deployments[d].restarts \in Nat
      /\ \A e \in Deployments : deployments[e] \in
           [replicas : Nat, observed : Nat, restarts : Nat]
  BY DEF IInv, ClusterShape
<1>3. CASE Restarts(d)' = Restarts(d)
           /\ deployments'[d].restarts = deployments[d].restarts
  BY <1>1, <1>3
<1>4. CASE UNCHANGED <<pods, deployments, applied>>
  BY <1>3, <1>4 DEF Restarts, Changes
<1>5. CASE ClusterStep
  <2>1. Restarts(d)' = Restarts(d)
    BY <1>5 DEF ClusterStep, Vanish, Recreate, Converge, Changes, Restarts
  <2>2. deployments'[d].restarts = deployments[d].restarts
    BY <1>2, <1>5 DEF ClusterStep, Vanish, Recreate, Converge
  <2> QED BY <1>3, <2>1, <2>2
<1>6. ASSUME NEW c \in Calls, Changing(c)
      PROVE  /\ IsFiniteSet(Restarts(d)')
             /\ deployments'[d].restarts = Cardinality(Restarts(d)')
  <2> DEFINE a == Head(todo[c])
  <2>1. /\ Changes' = Changes \cup {<<c, Change(c)>>}
        /\ <<c, Change(c)>> \notin Changes
    BY <1>6, OneMore
  <2>2. <<c, Change(c)>>[2].action = a
    BY DEF Change
  <2>3. CASE RestartDeployment(a) /\ a.on = d
    <3>1. a.tool = "restart_deployment"
      BY <2>3 DEF RestartDeployment
    <3>2. deployments'[d].restarts = deployments[d].restarts + 1
      BY <1>2, <2>3 DEF RestartDeployment
    <3> HIDE DEF a, Change
    <3>3. /\ Restarts(d)' = Restarts(d) \cup {<<c, Change(c)>>}
          /\ <<c, Change(c)>> \notin Restarts(d)
      BY <2>1, <2>2, <2>3, <3>1 DEF Restarts, Is
    <3> QED BY <1>1, <3>2, <3>3, FS_AddElement
  <2>4. CASE ~(RestartDeployment(a) /\ a.on = d)
    <3>1. deployments'[d].restarts = deployments[d].restarts
      <4>1. CASE RestartPod(a)
        BY <4>1 DEF RestartPod
      <4>2. CASE RestartDeployment(a)
        BY <1>2, <2>4, <4>2 DEF RestartDeployment
      <4>3. CASE ScaleDeployment(a)
        <5>1. deployments' = [deployments EXCEPT ![a.on].replicas = a.n]
          BY <4>3 DEF ScaleDeployment
        <5> HIDE DEF a
        <5>2. CASE d = a.on
          <6>1. deployments'[d] = [deployments[d] EXCEPT !.replicas = a.n]
            BY <1>2, <5>1, <5>2
          <6> QED BY <1>2, <6>1
        <5>3. CASE d # a.on
          BY <1>2, <5>1, <5>3
        <5> QED BY <5>2, <5>3
      <4> QED BY <1>6, <4>1, <4>2, <4>3 DEF Changing, Apply
    <3>2. ~Is(a, "restart_deployment", d)
      BY <1>6, <2>4 DEF Changing, Apply, RestartPod, RestartDeployment,
                        ScaleDeployment, Is
    <3> HIDE DEF a, Change
    <3>3. Restarts(d)' = Restarts(d)
      BY <2>1, <2>2, <3>2 DEF Restarts
    <3> QED BY <1>3, <3>1, <3>3
  <2> QED BY <2>3, <2>4
<1> QED BY <1>4, <1>5, <1>6, WhatChanges

\* Every restart that was made is still in the Deployment's template.
THEOREM RestartsAreKept == Spec => []RestartsStand
<1>1. Init => Counted /\ RestartsStand
  <2> SUFFICES ASSUME Init, NEW d \in Deployments
               PROVE  /\ IsFiniteSet(Restarts(d))
                      /\ deployments[d].restarts = Cardinality(Restarts(d))
    BY DEF Counted, RestartsStand, Restarts
  <2>1. Restarts(d) = {}
    BY DEF Init, ClusterInit, Changes, Restarts
  <2>2. deployments[d].restarts = 0
    BY DEF Init, ClusterInit
  <2> QED BY <2>1, <2>2, FS_EmptySet
<1>2. IInv /\ Counted /\ RestartsStand /\ [Next]_vars => Counted' /\ RestartsStand'
  BY RestartsStep
<1> QED BY <1>1, <1>2, Invariant, PTL DEF Spec

-----------------------------------------------------------------------------
(* What a list shows of the scaling that came before it. *)

OthersScaled(c, d, n) ==
  \E other \in Calls \ {c} : \E w \in applied[other] :
    Is(w.action, "scale_deployment", d) /\ w.action.n = n

\* The last scaling of d that c has asked for is its i-th step, and was made.
LastScaling(c, i, d) ==
  /\ trace[c][i].valid /\ Is(trace[c][i].action, "scale_deployment", d)
  /\ \A k \in (i + 1)..Len(trace[c]) :
       ~Is(trace[c][k].action, "scale_deployment", d)

\* What the invariant rests on: while a call goes on, a Deployment has the
\* replicas it last scaled it to, or another call's.
SpecShowsScale(c) ==
  outcome[c] = "none" =>
    \A d \in Deployments, i \in 1..Len(trace[c]) :
      LastScaling(c, i, d) =>
        \/ deployments[d].replicas = trace[c][i].action.n
        \/ OthersScaled(c, d, deployments[d].replicas)

\* A list in the trace of c that was made after a scaling of d.
ListAfter(c, i, j, r) ==
  /\ i < j /\ trace[c][i].valid
  /\ trace[c][j].action.tool = "list_deployments"
  /\ Is(trace[c][i].action, "scale_deployment", r.on)
  /\ \A k \in (i + 1)..(j - 1) :
       ~Is(trace[c][k].action, "scale_deployment", r.on)

ListsShowScale(c) ==
  \A i, j \in 1..Len(trace[c]) : \A r \in trace[c][j].seen :
    ListAfter(c, i, j, r) => \/ r.replicas = trace[c][i].action.n
                             \/ OthersScaled(c, r.on, r.replicas)

\* A step of the trace, of a tool that does not scale or that changes the
\* cluster.
Recorded(c, step) ==
  /\ trace'[c] = Append(trace[c], step) /\ step.action = Head(todo[c])
  /\ outcome[c] = "none"
  /\ \/ ~step.valid /\ step.seen = {} /\ UNCHANGED clusterVars
     \/ /\ step.action.tool # "scale_deployment" /\ UNCHANGED clusterVars
        /\ step.action.tool = "list_deployments"
             => step.seen = Observation(step.action)
     \/ step.valid /\ step.seen = {} /\ Changing(c)

TraceStep(c) ==
  \/ \E step : Recorded(c, step)
  \/ /\ trace'[c] = trace[c]
     /\ outcome'[c] = "none" => outcome[c] = "none" /\ ~Changing(c)

\* A step that leaves the trace alone.
LEMMA TraceStays ==
  ASSUME IInv, NEW c \in Calls, trace'[c] = trace[c], applied'[c] = applied[c],
         outcome'[c] = "none" => outcome[c] = "none"
  PROVE  TraceStep(c)
<1>1. ~Changing(c)
  <2> SUFFICES ASSUME Changing(c) PROVE FALSE
    OBVIOUS
  <2>1. applied' = [applied EXCEPT ![c] = @ \cup {Change(c)}]
    BY DEF Changing, Apply, Change
  <2>2. Change(c) \in applied[c]
    BY <2>1 DEF IInv, Shape
  <2>3. <<c, Change(c)>> \in Changes
    BY <2>2 DEF Changes
  <2> QED BY <2>3, OneMore
<1> QED BY <1>1 DEF TraceStep

\* An exception leaves the trace alone.
LEMMA RaiseStays ==
  ASSUME IInv, NEW c \in Calls, Raise(c)
  PROVE  TraceStep(c)
<1>1. trace'[c] = trace[c] /\ outcome'[c] = "broken"
  BY DEF Raise, IInv, Shape
<1> QED BY <1>1 DEF TraceStep

\* A tool that has run adds one step to the trace.
LEMMA RecordAppends ==
  ASSUME IInv, NEW c \in Calls, NEW valid, NEW uid, NEW seen,
         Record(c, valid, uid, seen)
  PROVE  trace'[c] = Append(trace[c], [action |-> Head(todo[c]), valid |-> valid,
                                       uid |-> uid, seen |-> seen])
  BY DEF Record, IInv, Shape

\* Every step of the system is a TraceStep of every call.
LEMMA TraceSteps ==
  ASSUME IInv, [Next]_vars, NEW c \in Calls
  PROVE  TraceStep(c)
<1> USE DEF clusterVars
<1>1. CASE UNCHANGED <<trace, applied, outcome>>
  BY <1>1, TraceStays
<1>2. CASE ClusterStep \/ UNCHANGED vars
  BY <1>1, <1>2 DEF ClusterStep, Vanish, Recreate, Converge, vars, callVars
<1>3. CASE Die
  <2>1. UNCHANGED <<trace, applied>> /\ (outcome'[c] = "none" => outcome[c] = "none")
    BY <1>3 DEF Die
  <2> QED BY <2>1, TraceStays
<1>4. ASSUME NEW e \in Calls, e # c, Classify(e) \/ Serve(e) \/ Close(e)
      PROVE  TraceStep(c)
  <2>1. trace'[c] = trace[c] /\ outcome'[c] = outcome[c]
    BY <1>4 DEF Classify, Close, Serve, Begin, Plan, Act, InvalidTool, Refuse,
       CannotLoad, RequestFails, AnswerIsLost, Read, Write, DescribeReadsPod,
       DescribeReadsEvents, YieldToolCall, YieldToolResult, Yield, Resume,
       Raise, Finish, Record, IInv, Shape
  <2>2. applied'[c] = applied[c]
    <3>1. CASE AnswerIsLost(e) \/ Write(e)
      BY <1>4, <3>1 DEF AnswerIsLost, Write, Apply, IInv, Shape
    <3>2. CASE ~(AnswerIsLost(e) \/ Write(e))
      BY <1>4, <3>2 DEF Classify, Close, Serve, Begin, Plan, Act, InvalidTool,
         Refuse, CannotLoad, RequestFails, Read, DescribeReadsPod,
         DescribeReadsEvents, YieldToolCall, YieldToolResult, Yield, Resume
    <3> QED BY <3>1, <3>2
  <2> QED BY <2>1, <2>2, TraceStays
<1>5. ASSUME Classify(c) \/ Serve(c) \/ Close(c)
      PROVE  TraceStep(c)
  <2>0. CASE Raise(c)
    BY <2>0, RaiseStays
  <2>1. CASE Classify(c) \/ Resume(c) \/ DescribeReadsPod(c) \/ YieldToolCall(c)
             \/ YieldToolResult(c)
    BY <1>1, <2>1 DEF Classify, Resume, DescribeReadsPod, YieldToolCall,
                      YieldToolResult, Yield
  <2>2. CASE Finish(c) /\ applied' = applied
    <3>1. trace'[c] = trace[c] /\ outcome'[c] = "answered"
      BY <2>2 DEF Finish, IInv, Shape
    <3> QED BY <2>2, <3>1, TraceStays
  <2>3. CASE Begin(c) \/ Plan(c)
    BY <1>1, <2>0, <2>2, <2>3 DEF Begin, Plan
  <2>4. CASE Refuse(c) \/ CannotLoad(c) \/ RequestFails(c) \/ AnswerIsLost(c)
             \/ Close(c)
    BY <2>0, <2>4 DEF Refuse, CannotLoad, RequestFails, AnswerIsLost, Close
  <2> DEFINE step(valid, uid, seen) ==
               [action |-> Head(todo[c]), valid |-> valid, uid |-> uid, seen |-> seen]
  <2>5. CASE InvalidTool(c)
    <3>1. /\ trace'[c] = Append(trace[c], step(FALSE, 0, {})) /\ outcome[c] = "none"
          /\ UNCHANGED clusterVars
      BY <2>5, RecordAppends DEF InvalidTool, Running, IInv, CallInv, Placed
    <3>2. Recorded(c, step(FALSE, 0, {}))
      BY <3>1 DEF Recorded
    <3> QED BY <3>2 DEF TraceStep
  <2>6. CASE Read(c)
    <3> DEFINE seen == Observation(Head(todo[c]))
    <3>1. /\ trace'[c] = Append(trace[c], step(TRUE, 0, seen)) /\ outcome[c] = "none"
          /\ UNCHANGED clusterVars /\ Head(todo[c]).tool # "scale_deployment"
      BY <2>6, RecordAppends DEF Read, Calling, Running, IInv, CallInv, Placed,
                                 ClusterTools
    <3> HIDE DEF seen
    <3>2. step(TRUE, 0, seen).seen = seen
      OBVIOUS
    <3>3. Recorded(c, step(TRUE, 0, seen))
      BY <3>1, <3>2 DEF Recorded, seen
    <3> QED BY <3>3 DEF TraceStep
  <2>7. CASE Write(c)
    <3> DEFINE uid == IF Head(todo[c]).tool = "restart_pod"
                      THEN pods[Head(todo[c]).on].uid ELSE 0
    <3>1. /\ trace'[c] = Append(trace[c], step(TRUE, uid, {})) /\ outcome[c] = "none"
          /\ Changing(c)
      BY <2>7, RecordAppends DEF Write, Calling, Running, IInv, CallInv, Placed,
                                 Changing
    <3> HIDE DEF uid
    <3>2. Recorded(c, step(TRUE, uid, {}))
      BY <3>1 DEF Recorded
    <3> QED BY <3>2 DEF TraceStep
  <2>8. CASE DescribeReadsEvents(c)
    <3> DEFINE seen == Observation(Head(todo[c]))
    <3>1. CASE Record(c, TRUE, looked[c], seen)
      <4>1. /\ trace'[c] = Append(trace[c], step(TRUE, looked[c], seen))
            /\ outcome[c] = "none" /\ UNCHANGED clusterVars
            /\ Head(todo[c]).tool = "describe_pod"
        BY <2>8, <3>1, RecordAppends DEF DescribeReadsEvents, Running, IInv,
                                         CallInv, Placed
      <4> HIDE DEF seen
      <4>2. Recorded(c, step(TRUE, looked[c], seen))
        BY <4>1 DEF Recorded
      <4> QED BY <4>2 DEF TraceStep
    <3> QED BY <2>0, <2>8, <3>1 DEF DescribeReadsEvents
  <2> QED BY <1>5, <2>1, <2>3, <2>4, <2>5, <2>6, <2>7, <2>8 DEF Serve, Act
<1> QED BY <1>2, <1>3, <1>4, <1>5 DEF Next

\* What becomes of the replicas of d: only a scaling of d changes them.
LEMMA ReplicasStep ==
  ASSUME IInv, [Next]_vars, NEW d \in Deployments
  PROVE  \/ deployments'[d].replicas = deployments[d].replicas
         \/ \E c \in Calls : Changing(c) /\ Is(Head(todo[c]), "scale_deployment", d)
<1>1. deployments = [e \in Deployments |-> deployments[e]]
      /\ \A e \in Deployments : deployments[e] \in
           [replicas : Nat, observed : Nat, restarts : Nat]
  BY DEF IInv, ClusterShape
<1>2. CASE ClusterStep
  BY <1>1, <1>2 DEF ClusterStep, Vanish, Recreate, Converge
<1>3. ASSUME NEW c \in Calls, Changing(c), ~Is(Head(todo[c]), "scale_deployment", d)
      PROVE  deployments'[d].replicas = deployments[d].replicas
  <2> DEFINE a == Head(todo[c])
  <2>1. CASE RestartPod(a)
    BY <2>1 DEF RestartPod
  <2>2. CASE RestartDeployment(a)
    <3>1. deployments' = [deployments EXCEPT
                           ![a.on].restarts = deployments[a.on].restarts + 1]
      BY <2>2 DEF RestartDeployment
    <3> HIDE DEF a
    <3>2. CASE d = a.on
      <4>1. deployments'[d] =
              [deployments[d] EXCEPT !.restarts = deployments[d].restarts + 1]
        BY <1>1, <3>1, <3>2
      <4> QED BY <1>1, <4>1
    <3>3. CASE d # a.on
      BY <1>1, <3>1, <3>3
    <3> QED BY <3>2, <3>3
  <2>3. CASE ScaleDeployment(a)
    <3>1. deployments' = [deployments EXCEPT ![a.on].replicas = a.n] /\ a.on # d
      BY <1>3, <2>3 DEF ScaleDeployment, Is
    <3> HIDE DEF a
    <3> QED BY <1>1, <3>1
  <2> QED BY <1>3, <2>1, <2>2, <2>3 DEF Changing, Apply
<1> QED BY <1>2, <1>3, WhatChanges

\* A call that scales a Deployment sets its replicas.
LEMMA ScalingIs ==
  ASSUME IInv, NEW d \in Deployments, NEW c \in Calls, Changing(c),
         Is(Head(todo[c]), "scale_deployment", d)
  PROVE  deployments'[d].replicas = Head(todo[c]).n
<1> DEFINE a == Head(todo[c])
<1>1. deployments' = [deployments EXCEPT ![a.on].replicas = a.n] /\ a.on = d
  BY DEF Changing, Apply, RestartPod, RestartDeployment, ScaleDeployment, Is
<1> HIDE DEF a
<1>2. deployments[d] \in [replicas : Nat, observed : Nat, restarts : Nat]
      /\ deployments = [e \in Deployments |-> deployments[e]]
  BY DEF IInv, ClusterShape
<1>3. deployments'[d] = [deployments[d] EXCEPT !.replicas = a.n]
  BY <1>1, <1>2
<1>4. deployments'[d].replicas = a.n
  BY <1>2, <1>3
<1> QED BY <1>4 DEF a

\* The history only grows.
LEMMA AppliedGrows ==
  ASSUME IInv, [Next]_vars
  PROVE  \A c \in Calls : applied[c] \subseteq applied'[c]
<1>1. ASSUME NEW e \in Calls, Changing(e)
      PROVE  \A c \in Calls : applied[c] \subseteq applied'[c]
  BY <1>1 DEF Changing, Apply, IInv, Shape
<1>2. CASE ClusterStep
  BY <1>2 DEF ClusterStep, Vanish, Recreate, Converge
<1> QED BY <1>1, <1>2, WhatChanges

\* What another call has scaled stays recorded.
LEMMA OthersStay ==
  ASSUME IInv, [Next]_vars, NEW c \in Calls, NEW d, NEW n, OthersScaled(c, d, n)
  PROVE  OthersScaled(c, d, n)'
  BY AppliedGrows DEF OthersScaled

\* Where the replicas of d come from, as c sees it.
LEMMA ScaledByOther ==
  ASSUME IInv, [Next]_vars, NEW c \in Calls, NEW d \in Deployments,
         ~(Changing(c) /\ Is(Head(todo[c]), "scale_deployment", d))
  PROVE  \/ deployments'[d].replicas = deployments[d].replicas
         \/ OthersScaled(c, d, deployments[d].replicas)'
<1> SUFFICES ASSUME NEW e \in Calls \ {c}, Changing(e),
                    Is(Head(todo[e]), "scale_deployment", d)
             PROVE  OthersScaled(c, d, deployments[d].replicas)'
  BY ReplicasStep
<1>1. deployments'[d].replicas = Head(todo[e]).n
  BY ScalingIs
<1>2. applied' = [applied EXCEPT ![e] = @ \cup {Change(e)}]
  BY DEF Changing, Apply, Change
<1>3. Change(e) \in applied'[e]
  BY <1>2 DEF IInv, Shape
<1>4. Change(e).action = Head(todo[e])
  BY DEF Change
<1> HIDE DEF Change
<1> QED BY <1>1, <1>3, <1>4 DEF OthersScaled, Is

\* Every step keeps SpecShowsScale.
LEMMA SpecStep ==
  ASSUME IInv, [Next]_vars, NEW c \in Calls, SpecShowsScale(c)
  PROVE  SpecShowsScale(c)'
<1> SUFFICES ASSUME outcome'[c] = "none", NEW d \in Deployments,
                    NEW i \in 1..Len(trace'[c]), LastScaling(c, i, d)'
             PROVE  \/ deployments'[d].replicas = trace'[c][i].action.n
                    \/ OthersScaled(c, d, deployments[d].replicas)'
  BY DEF SpecShowsScale
<1>1. ASSUME ~(Changing(c) /\ Is(Head(todo[c]), "scale_deployment", d)),
             outcome[c] = "none", i \in 1..Len(trace[c]), LastScaling(c, i, d),
             trace'[c][i] = trace[c][i]
      PROVE  \/ deployments'[d].replicas = trace'[c][i].action.n
             \/ OthersScaled(c, d, deployments[d].replicas)'
  <2>1. \/ deployments[d].replicas = trace[c][i].action.n
        \/ OthersScaled(c, d, deployments[d].replicas)
    BY <1>1 DEF SpecShowsScale
  <2>2. OthersScaled(c, d, deployments[d].replicas)
          => \E e \in Calls \ {c} : \E w \in applied'[e] :
               /\ Is(w.action, "scale_deployment", d)
               /\ w.action.n = deployments[d].replicas
    BY AppliedGrows DEF OthersScaled
  <2>3. \/ deployments'[d].replicas = deployments[d].replicas
        \/ OthersScaled(c, d, deployments[d].replicas)'
    BY <1>1, ScaledByOther
  <2>4. CASE deployments'[d].replicas = deployments[d].replicas
    BY <1>1, <2>1, <2>2, <2>4 DEF OthersScaled
  <2> QED BY <2>3, <2>4
<1>2. CASE /\ trace'[c] = trace[c]
           /\ outcome'[c] = "none" => outcome[c] = "none" /\ ~Changing(c)
  BY <1>1, <1>2 DEF LastScaling
<1>3. ASSUME NEW step, Recorded(c, step)
      PROVE  \/ deployments'[d].replicas = trace'[c][i].action.n
             \/ OthersScaled(c, d, deployments[d].replicas)'
  <2>1. /\ Len(trace[c]) \in Nat /\ Len(trace'[c]) = Len(trace[c]) + 1
        /\ trace'[c][Len(trace[c]) + 1] = step
        /\ \A k \in 1..Len(trace[c]) : trace'[c][k] = trace[c][k]
        /\ step.action = Head(todo[c]) /\ outcome[c] = "none"
    BY <1>3, AppendIs DEF Recorded, IInv, Shape, IsSeq
  <2>2. CASE i = Len(trace[c]) + 1
    <3>1. step.valid /\ Is(Head(todo[c]), "scale_deployment", d)
      BY <2>1, <2>2 DEF LastScaling
    <3>2. Changing(c)
      BY <1>3, <2>1, <3>1 DEF Recorded, Is
    <3> QED BY <2>1, <2>2, <3>1, <3>2, ScalingIs
  <2>3. CASE i \in 1..Len(trace[c])
    <3>1. ~Is(step.action, "scale_deployment", d)
      <4>1. Len(trace'[c]) \in (i + 1)..Len(trace'[c])
        BY <2>1, <2>3
      <4> QED BY <2>1, <4>1 DEF LastScaling
    <3>2. LastScaling(c, i, d)
      <4>1. ASSUME NEW k \in (i + 1)..Len(trace[c])
            PROVE  k \in (i + 1)..Len(trace'[c]) /\ trace'[c][k] = trace[c][k]
        BY <2>1, <2>3
      <4> QED BY <2>1, <2>3, <4>1 DEF LastScaling
    <3> QED BY <1>1, <2>1, <2>3, <3>1, <3>2
  <2> QED BY <2>1, <2>2, <2>3
<1> QED BY <1>2, <1>3, TraceSteps DEF TraceStep

\* Every step keeps ListsShowScale.
LEMMA ListsStep ==
  ASSUME IInv, [Next]_vars, NEW c \in Calls, SpecShowsScale(c), ListsShowScale(c)
  PROVE  ListsShowScale(c)'
<1> SUFFICES ASSUME NEW i \in 1..Len(trace'[c]), NEW j \in 1..Len(trace'[c]),
                    NEW r \in trace'[c][j].seen, ListAfter(c, i, j, r)'
             PROVE  \/ r.replicas = trace'[c][i].action.n
                    \/ OthersScaled(c, r.on, r.replicas)'
  BY DEF ListsShowScale
<1>0. Len(trace[c]) \in Nat
  BY DEF IInv, Shape, IsSeq
<1>1. ASSUME j \in 1..Len(trace[c]),
             \A k \in 1..Len(trace[c]) : trace'[c][k] = trace[c][k]
      PROVE  \/ r.replicas = trace'[c][i].action.n
             \/ OthersScaled(c, r.on, r.replicas)'
  <2>1. i \in 1..Len(trace[c])
    BY <1>0, <1>1 DEF ListAfter
  <2>2. \A k \in (i + 1)..(j - 1) : k \in 1..Len(trace[c])
    BY <1>0, <1>1, <2>1
  <2>3. ListAfter(c, i, j, r) /\ r \in trace[c][j].seen
    BY <1>1, <2>1, <2>2 DEF ListAfter
  <2>4. r.replicas = trace[c][i].action.n \/ OthersScaled(c, r.on, r.replicas)
    BY <1>1, <2>1, <2>3 DEF ListsShowScale
  <2> QED BY <1>1, <2>1, <2>4, OthersStay
<1>2. CASE trace'[c] = trace[c]
  BY <1>1, <1>2
<1>3. ASSUME NEW step, Recorded(c, step)
      PROVE  \/ r.replicas = trace'[c][i].action.n
             \/ OthersScaled(c, r.on, r.replicas)'
  <2>1. /\ Len(trace'[c]) = Len(trace[c]) + 1
        /\ trace'[c][Len(trace[c]) + 1] = step
        /\ \A k \in 1..Len(trace[c]) : trace'[c][k] = trace[c][k]
        /\ outcome[c] = "none"
    BY <1>3, AppendIs DEF Recorded, IInv, Shape
  <2>2. CASE j = Len(trace[c]) + 1
    <3>1. step.action.tool = "list_deployments" /\ r \in step.seen
      BY <2>1, <2>2 DEF ListAfter
    <3>2. UNCHANGED clusterVars /\ r \in Observation(step.action)
      BY <1>3, <3>1 DEF Recorded
    <3>3. r \in ListDeployments(step.action.on.namespace)
      BY <3>1, <3>2 DEF Observation
    <3>4. r.on \in Deployments /\ r.replicas = deployments[r.on].replicas
      <4>1. PICK d \in Deployments :
              r = [on |-> d, replicas |-> deployments[d].replicas]
        BY <3>3 DEF ListDeployments, In
      <4> QED BY <4>1
    <3>5. i \in 1..Len(trace[c]) /\ trace'[c][i] = trace[c][i]
      BY <1>0, <2>1, <2>2 DEF ListAfter
    <3>6. LastScaling(c, i, r.on)
      <4>1. \A k \in (i + 1)..Len(trace[c]) :
              k \in (i + 1)..(j - 1) /\ trace'[c][k] = trace[c][k]
        BY <1>0, <2>1, <2>2, <3>5
      <4> QED BY <3>5, <4>1 DEF ListAfter, LastScaling
    <3>7. \/ r.replicas = trace[c][i].action.n
          \/ OthersScaled(c, r.on, r.replicas)
      BY <2>1, <3>4, <3>5, <3>6 DEF SpecShowsScale
    <3> QED BY <3>5, <3>7, OthersStay
  <2>3. CASE j \in 1..Len(trace[c])
    BY <1>1, <2>1, <2>3
  <2> QED BY <1>0, <2>1, <2>2, <2>3
<1> QED BY <1>2, <1>3, TraceSteps DEF TraceStep

\* A list of Deployments made after a call's own scaling shows it, or what
\* another call has scaled to: never what was there before.
THEOREM ListsShow == Spec => []ListsShowOwnScale
<1> DEFINE J == \A c \in Calls : SpecShowsScale(c) /\ ListsShowScale(c)
<1>1. Init => J
  <2> SUFFICES ASSUME Init, NEW c \in Calls
               PROVE  SpecShowsScale(c) /\ ListsShowScale(c)
    OBVIOUS
  <2>1. Len(trace[c]) = 0
    BY EmptyIs DEF Init
  <2> QED BY <2>1 DEF SpecShowsScale, ListsShowScale
<1>2. IInv /\ J /\ [Next]_vars => J'
  BY SpecStep, ListsStep
<1>3. J => ListsShowOwnScale
  BY DEF ListsShowScale, ListAfter, OthersScaled, ListsShowOwnScale
<1> QED BY <1>1, <1>2, <1>3, Invariant, PTL DEF Spec

-----------------------------------------------------------------------------
(* Each call is an AgentCall. *)

\* What was there before an element was added.
LEMMA SubSeqIs ==
  ASSUME NEW s, NEW e, IsSeq(s)
  PROVE  SubSeq(Append(s, e), 1, Len(s)) = s
<1> DEFINE S == {s[i] : i \in 1..Len(s)} \cup {e}
           t == SubSeq(Append(s, e), 1, Len(s))
<1>1. s \in Seq(S) /\ e \in S /\ Len(s) \in Nat
  BY DEF IsSeq
<1>2. Append(s, e) \in Seq(S) /\ Len(Append(s, e)) = Len(s) + 1
  BY <1>1
<1> HIDE DEF S
<1>3. /\ t \in Seq(S) /\ Len(t) = Len(s)
      /\ \A i \in 1..Len(s) : t[i] = Append(s, e)[i]
  BY <1>1, <1>2, SubSeqProperties
<1> HIDE DEF t
<1>4. \A i \in 1..Len(s) : t[i] = s[i]
  BY <1>3, AppendIs
<1>5. t = s
  BY <1>1, <1>3, <1>4
<1> QED BY <1>5 DEF t

Calm(c) == UNCHANGED <<streamed[c], trace[c], events[c], outcome[c]>>

AgentStep(c) == Agent(c)!Next \/ UNCHANGED Agent(c)!vars

\* A call that does nothing stutters.
LEMMA CalmStep == ASSUME NEW c \in Calls, Calm(c) PROVE AgentStep(c)
  BY DEF Calm, AgentStep, Agent!vars

\* An exception is a BreakOff.
LEMMA RaiseIs ==
  ASSUME IInv, NEW c \in Calls, Raise(c), state[c] # "over"
  PROVE  \A d \in Calls : AgentStep(d)
<1>1. outcome[c] = "none" /\ outcome'[c] = "broken"
      /\ UNCHANGED <<streamed, trace, events>>
  BY DEF Raise, IInv, Shape, CallInv, Placed
<1>2. AgentStep(c)
  BY <1>1 DEF AgentStep, Agent!Next, Agent!BreakOff
<1>3. \A d \in Calls \ {c} : Calm(d)
  BY DEF Raise, Calm, IInv, Shape
<1> QED BY <1>2, <1>3, CalmStep

\* A tool that has run is a RunTool.
LEMMA RecordIs ==
  ASSUME IInv, NEW c \in Calls, NEW valid, NEW uid, NEW seen,
         Record(c, valid, uid, seen), state[c] \in {"acting", "describing"}
  PROVE  \A d \in Calls : AgentStep(d)
<1> DEFINE step == [action |-> Head(todo[c]), valid |-> valid, uid |-> uid,
                    seen |-> seen]
<1>1. outcome[c] = "none" /\ IsSeq(trace[c])
      /\ (streamed[c] => Len(events[c]) = 2 * Len(trace[c]))
  BY DEF IInv, Shape, CallInv, Placed, Told
<1>2. trace'[c] = Append(trace[c], step) /\ UNCHANGED <<streamed, events, outcome>>
  BY DEF Record, IInv, Shape
<1> HIDE DEF step
<1>3. Len(trace'[c]) = Len(trace[c]) + 1
      /\ SubSeq(trace'[c], 1, Len(trace[c])) = trace[c]
  BY <1>1, <1>2, AppendIs, SubSeqIs
<1>4. AgentStep(c)
  BY <1>1, <1>2, <1>3 DEF AgentStep, Agent!Next, Agent!RunTool, Agent!Reported
<1>5. \A d \in Calls \ {c} : Calm(d)
  BY DEF Record, Calm, IInv, Shape
<1> QED BY <1>4, <1>5, CalmStep

\* The answer is an Answer.
LEMMA FinishIs ==
  ASSUME IInv, NEW c \in Calls, Finish(c), state[c] = "planning"
  PROVE  \A d \in Calls : AgentStep(d)
<1>1. outcome[c] = "none" /\ IsSeq(trace[c]) /\ IsSeq(events[c])
      /\ (\A k \in 1..Len(events[c]) : events[c][k] = Flatten(trace[c])[k])
      /\ (streamed[c] => Len(events[c]) = 2 * Len(trace[c]))
  BY DEF IInv, Shape, CallInv, Placed, Told
<1>2. outcome'[c] = "answered" /\ UNCHANGED <<streamed, trace>>
  BY DEF Finish, IInv, Shape
<1>3. IsSeq(Flatten(trace[c])) /\ Len(Flatten(trace[c])) = 2 * Len(trace[c])
  BY <1>1, FlattenIs
<1>4. events'[c] = Flatten(trace[c])
  <2>1. CASE streamed[c]
    <3>1. events'[c] = events[c] /\ Len(events[c]) = Len(Flatten(trace[c]))
      BY <1>1, <1>3, <2>1 DEF Finish
    <3>2. events[c] = Flatten(trace[c])
      BY <1>1, <1>3, <3>1 DEF IsSeq
    <3> QED BY <3>1, <3>2
  <2>2. CASE ~streamed[c]
    BY <2>2 DEF Finish, IInv, Shape
  <2> QED BY <2>1, <2>2
<1>5. Agent(c)!Report(trace[c]) = Flatten(trace[c])
  BY DEF Agent!Report, Flatten
<1>6. AgentStep(c)
  BY <1>1, <1>2, <1>4, <1>5 DEF AgentStep, Agent!Next, Agent!Answer, Agent!Reported
<1>7. \A d \in Calls \ {c} : Calm(d)
  BY DEF Finish, Calm, IInv, Shape
<1> QED BY <1>6, <1>7, CalmStep

\* An event yielded is a Tell.
LEMMA YieldIs ==
  ASSUME IInv, NEW c \in Calls, YieldToolCall(c) \/ YieldToolResult(c)
  PROVE  \A d \in Calls : AgentStep(d)
<1>1. outcome[c] = "none" /\ streamed[c]
  BY DEF YieldToolCall, YieldToolResult, Running, IInv, CallInv, Placed, Told
<1>2. UNCHANGED <<streamed, trace, outcome>>
  BY DEF YieldToolCall, YieldToolResult, Yield
<1>3. Len(events[c]) < 2 * Len(trace[c])
      /\ events' = [events EXCEPT ![c] =
                      Append(@, Flatten(trace[c])[Len(events[c]) + 1])]
  BY YieldKeeps
<1>4. Len(events[c]) # 2 * Len(trace[c])
  <2>1. Len(events[c]) \in Nat /\ Len(trace[c]) \in Nat
    BY DEF IInv, Shape, CallInv, Told, IsSeq
  <2> QED BY <1>3, <2>1
<1>5. Agent(c)!Report(trace[c]) = Flatten(trace[c])
  BY DEF Agent!Report, Flatten
<1>6. events'[c] = Append(events[c], Flatten(trace[c])[Len(events[c]) + 1])
  BY <1>3 DEF IInv, Shape
<1>7. AgentStep(c)
  BY <1>1, <1>2, <1>4, <1>5, <1>6 DEF AgentStep, Agent!Next, Agent!Tell,
                                     Agent!Reported
<1>8. \A d \in Calls \ {c} : Calm(d)
  BY <1>2, <1>3 DEF Calm, IInv, Shape
<1> QED BY <1>7, <1>8, CalmStep

\* Every step is one of AgentCall, or none, for every call.
LEMMA StepIs ==
  ASSUME IInv, [Next]_vars
  PROVE  \A d \in Calls : AgentStep(d)
<1>1. CASE UNCHANGED <<streamed, trace, events, outcome>>
  BY <1>1, CalmStep DEF Calm
<1>2. CASE Die
  <2> SUFFICES ASSUME NEW c \in Calls PROVE AgentStep(c)
    OBVIOUS
  <2>1. UNCHANGED <<streamed, trace, events>>
    BY <1>2 DEF Die
  <2>2. CASE state[c] \in {"new", "asked", "over"}
    BY <1>2, <2>1, <2>2, CalmStep DEF Die, Calm
  <2>3. CASE state[c] \notin {"new", "asked", "over"}
    <3>1. outcome[c] = "none" /\ outcome'[c] = "broken"
      BY <1>2, <2>3 DEF Die, IInv, CallInv, Placed
    <3> QED BY <2>1, <3>1 DEF AgentStep, Agent!Next, Agent!BreakOff
  <2> QED BY <2>2, <2>3
<1>3. CASE ClusterStep \/ UNCHANGED vars
  BY <1>1, <1>3 DEF ClusterStep, vars, callVars
<1>4. ASSUME NEW c \in Calls, Classify(c) \/ Serve(c) \/ Close(c)
      PROVE  \A d \in Calls : AgentStep(d)
  <2>1. CASE Raise(c) /\ state[c] # "over"
    BY <2>1, RaiseIs
  <2>2. CASE Finish(c) /\ state[c] = "planning"
    BY <2>2, FinishIs
  <2>3. CASE YieldToolCall(c) \/ YieldToolResult(c)
    BY <2>3, YieldIs
  <2>4. CASE Classify(c) \/ Resume(c) \/ DescribeReadsPod(c)
    BY <1>1, <2>4 DEF Classify, Resume, DescribeReadsPod
  <2>5. CASE Begin(c) \/ Plan(c)
    BY <1>1, <2>1, <2>2, <2>5 DEF Begin, Plan, Running
  <2>6. CASE Refuse(c) \/ CannotLoad(c) \/ RequestFails(c) \/ AnswerIsLost(c)
             \/ Close(c)
    BY <2>1, <2>6 DEF Refuse, CannotLoad, RequestFails, AnswerIsLost, Close,
                      Calling, Running
  <2>7. CASE InvalidTool(c) \/ Read(c)
    BY <2>7, RecordIs DEF InvalidTool, Read, Calling, Running
  <2>8. CASE Write(c)
    BY <2>8, RecordIs DEF Write, Calling, Running
  <2>9. CASE DescribeReadsEvents(c)
    BY <2>1, <2>9, RecordIs DEF DescribeReadsEvents, Running
  <2> QED BY <1>4, <2>3, <2>4, <2>5, <2>6, <2>7, <2>8, <2>9 DEF Serve, Act
<1> QED BY <1>2, <1>3, <1>4 DEF Next

\* Each call is an AgentCall: tools are reported in the order they ran, a stream
\* runs none before the last is fully reported, and it ends once.
THEOREM CallsAreAgentCalls == Spec => AgentCallSpec
<1>1. Init => \A c \in Calls : Agent(c)!Init
  BY AgentConstants DEF Init, Agent!Init
<1>2. IInv /\ [Next]_vars
        => [\A c \in Calls : Agent(c)!Next \/ UNCHANGED Agent(c)!vars]_vars
  BY StepIs DEF AgentStep
<1> QED BY <1>1, <1>2, Invariant, PTL DEF Spec, AgentCallSpec
=============================================================================
