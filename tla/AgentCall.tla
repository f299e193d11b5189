------------------------------ MODULE AgentCall ------------------------------
(***************************************************************************)
(* What an agent promises the server for one call (agent/base.py: run and  *)
(* stream): the tools it has run are reported in the order it ran them,    *)
(* each as a call and its result; a streamed call runs no tool while an    *)
(* earlier one is not fully reported; an answer comes when everything has  *)
(* been reported, and a call that breaks off does nothing more.            *)
(***************************************************************************)
EXTENDS Naturals, Sequences

VARIABLES
  streamed,         \* stream or run
  trace,            \* the tools that have run, with arguments and results
  events,           \* what has been reported of them
  outcome           \* none yet, answered or broken

vars == <<streamed, trace, events, outcome>>

Outcomes == {"none", "answered", "broken"}

\* The events of a trace: two for each tool.
Report(steps) ==
  [k \in 1..(2 * Len(steps)) |->
     [type |-> IF k % 2 = 1 THEN "tool_call" ELSE "tool_result",
      step |-> steps[(k + 1) \div 2]]]

Reported == Len(events) = 2 * Len(trace)

Init ==
  /\ streamed \in BOOLEAN
  /\ trace = <<>> /\ events = <<>> /\ outcome = "none"

RunTool ==
  /\ outcome = "none" /\ (streamed => Reported)
  /\ Len(trace') = Len(trace) + 1 /\ SubSeq(trace', 1, Len(trace)) = trace
  /\ UNCHANGED <<streamed, events, outcome>>

Tell ==
  /\ outcome = "none" /\ streamed /\ ~Reported
  /\ events' = Append(events, Report(trace)[Len(events) + 1])
  /\ UNCHANGED <<streamed, trace, outcome>>

Answer ==
  /\ outcome = "none" /\ (streamed => Reported)
  /\ outcome' = "answered" /\ events' = Report(trace)
  /\ UNCHANGED <<streamed, trace>>

BreakOff ==
  /\ outcome = "none" /\ outcome' = "broken"
  /\ UNCHANGED <<streamed, trace, events>>

Next == RunTool \/ Tell \/ Answer \/ BreakOff

Spec == Init /\ [][Next]_vars
=============================================================================
