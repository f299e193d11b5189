------------------------------ MODULE ChatServer ------------------------------
(***************************************************************************)
(* The chat endpoint of the agent runtime: runtime/src/agent_runtime/      *)
(* server.py over ToolCallingExecutor, seen from the calls one web page    *)
(* makes.  A turn of the page makes at most one call, numbered alike.      *)
(*                                                                         *)
(* One event loop runs all handlers.  A plain call holds it from the start *)
(* of agent.run to its response (loop); a stream gives it up at every      *)
(* event it yields, which is where the client's disconnecting ends it.     *)
(* Saving a turn is one step, a step of SessionLog, which is what          *)
(* HistoryStore implements for a single pod.                               *)
(***************************************************************************)
EXTENDS Naturals, Sequences

CONSTANTS
  MaxTurns,   \* bound: questions asked
  Sessions,   \* the session ids
  StoreCap,   \* _MAX_PERSISTED_MESSAGES: 200 in the code
  MaxFaults   \* bound: deaths of the process, failing agents and saves

VARIABLES
  server,     \* the process: down, ready, or broken (its agents not built)
  storage,    \* HistoryStore.enabled
  store,      \* per session: the persisted messages
  calls,      \* per turn: its call of /chat/completions
  recovery,   \* the page's GET /sessions/{session_id}
  loop,       \* the call that holds the event loop, 0 when it is free
  warned,     \* the turns that were not saved and a warning logged
  faults
serverVars == <<server, storage, store, loop, warned, faults>>

Turns == 1..MaxTurns

-----------------------------------------------------------------------------
(* Data.  The page's own roles, tool and error, are never sent. *)

Messages == [role : {"user", "assistant", "tool", "error"}, turn : Turns]
Message(role, n) == [role |-> role, turn |-> n]

\* events: what has been sent to the client and it has not read.
Events == {"tool", "done", "error", "[DONE]", "close", "response", "reset"}
Calls == [state : {"none", "sent", "streaming", "acting", "ending",
                   "terminated", "running", "ran", "saved", "over"},
          stream : BOOLEAN, session : Sessions, messages : Seq(Messages),
          answer : Seq(Messages), events : Seq(Events), connected : BOOLEAN]

Recoveries == [state : {"none", "get", "headers", "body"},
               session : Sessions, messages : Seq(Messages)]

\* split_messages refuses a conversation that does not end with a question.
Valid(msgs) == msgs # <<>> /\ msgs[Len(msgs)].role = "user"

Newest(msgs) ==
  IF Len(msgs) > StoreCap
  THEN SubSeq(msgs, Len(msgs) - StoreCap + 1, Len(msgs))
  ELSE msgs

-----------------------------------------------------------------------------
(* Building blocks. *)

Fault == faults < MaxFaults /\ faults' = faults + 1

\* What a call sends is lost when its client has gone.
Step(n, state, events) ==
  calls' = [calls EXCEPT ![n].state = state,
                         ![n].events = IF calls[n].connected THEN @ \o events
                                       ELSE @]

\* _persist_turn: what is there, all the messages of the request, the answer.
\* It never raises.
PersistTurn(n) ==
  LET s == calls[n].session
  IN  \/ /\ storage
         /\ store' = [store EXCEPT ![s] = Newest(@ \o calls[n].messages
                                                   \o calls[n].answer)]
         /\ UNCHANGED <<warned, faults>>
      \/ ~storage /\ warned' = warned \cup {n} /\ UNCHANGED <<store, faults>>
      \/ storage /\ Fault /\ warned' = warned \cup {n} /\ UNCHANGED store

-----------------------------------------------------------------------------
\* get_chat_model raises, without an API key: there are no agents, no history.
AgentsFail == server' = "broken" /\ storage' = FALSE /\ Fault

\* lifespan.  The process stays up without agents, answering 503; a history
\* directory that cannot be made disables the history.
Start ==
  /\ server = "down"
  /\ \/ server' = "ready" /\ storage' = TRUE /\ UNCHANGED faults
     \/ server' = "ready" /\ storage' = FALSE /\ Fault
     \/ AgentsFail
  /\ UNCHANGED <<store, calls, recovery, loop, warned>>

\* chat_completions is called.  A process that is down or broken answers with
\* an error.
Accept(n) ==
  /\ calls[n].state = "sent" /\ loop = 0
  /\ \/ /\ server # "ready"
        /\ Step(n, "over", <<"reset">>) /\ UNCHANGED loop
     \/ /\ server = "ready" /\ calls[n].stream
        /\ Step(n, "streaming", <<>>) /\ UNCHANGED loop
     \/ /\ server = "ready" /\ ~calls[n].stream
        /\ Step(n, "running", <<>>) /\ loop' = n
  /\ UNCHANGED <<server, storage, store, recovery, warned, faults>>

(* event_source. *)

Streaming(n) == calls[n].state \in {"streaming", "acting"} /\ loop = 0

\* A tool was called, once at most: its two events are shown as one.
YieldTool(n) ==
  /\ calls[n].state = "streaming" /\ loop = 0 /\ Valid(calls[n].messages)
  /\ Step(n, "acting", <<"tool">>)
  /\ UNCHANGED <<serverVars, recovery>>

\* The executor's output.
YieldDone(n) ==
  /\ Streaming(n) /\ Valid(calls[n].messages)
  /\ calls' = [calls EXCEPT ![n].state = "ending",
                            ![n].answer = <<Message("assistant", n)>>,
                            ![n].events = IF calls[n].connected
                                          THEN Append(@, "done") ELSE @]
  /\ UNCHANGED <<serverVars, recovery>>

\* The agent raises: on messages it refuses, or when the model fails.
YieldError(n) ==
  /\ Streaming(n)
  /\ IF Valid(calls[n].messages) THEN Fault ELSE UNCHANGED faults
  /\ Step(n, "ending", <<"error">>)
  /\ UNCHANGED <<server, storage, store, recovery, loop, warned>>

YieldTerminator(n) ==
  /\ calls[n].state = "ending" /\ loop = 0
  /\ Step(n, "terminated", <<"[DONE]">>)
  /\ UNCHANGED <<serverVars, recovery>>

\* Mutant of EndStream: the body is closed and the turn saved some time later,
\* if at all.
EndStreamUnsaved(n) ==
  /\ calls[n].state = "terminated" /\ loop = 0
  /\ Step(n, "over", <<"close">>)
  /\ UNCHANGED <<serverVars, recovery>>

\* The finally clause, also when the client has gone; the body is closed after
\* it.
EndStream(n) ==
  /\ calls[n].state = "terminated" /\ loop = 0
  /\ PersistTurn(n) /\ Step(n, "over", <<"close">>)
  /\ UNCHANGED <<server, storage, recovery, loop>>

\* Mutant of CancelStream: a stream is ended though its client is there.
CancelAnyStream(n) ==
  /\ Streaming(n) \/ (calls[n].state = "ending" /\ loop = 0)
  /\ Step(n, "over", <<>>)
  /\ UNCHANGED <<serverVars, recovery>>

\* The client has gone: unless it has run to its end before that is noticed, the
\* generator is closed at the event it yields, and nothing is saved.
CancelStream(n) ==
  /\ Streaming(n) \/ (calls[n].state = "ending" /\ loop = 0)
  /\ ~calls[n].connected
  /\ Step(n, "over", <<>>)
  /\ UNCHANGED <<serverVars, recovery>>

(* A plain call: agent.run, _persist_turn, the response. *)

Run(n) ==
  /\ calls[n].state = "running"
  /\ \/ /\ Valid(calls[n].messages)
        /\ calls' = [calls EXCEPT ![n].state = "ran",
                                  ![n].answer = <<Message("assistant", n)>>]
        /\ UNCHANGED <<loop, faults>>
     \/ /\ IF Valid(calls[n].messages) THEN Fault ELSE UNCHANGED faults
        /\ Step(n, "over", <<"reset">>) /\ loop' = 0
  /\ UNCHANGED <<server, storage, store, recovery, warned>>

Save(n) ==
  /\ calls[n].state = "ran"
  /\ PersistTurn(n) /\ Step(n, "saved", <<>>)
  /\ UNCHANGED <<server, storage, recovery, loop>>

Respond(n) ==
  /\ calls[n].state = "saved"
  /\ Step(n, "over", <<"response">>) /\ loop' = 0
  /\ UNCHANGED <<server, storage, store, recovery, warned, faults>>

\* get_session: a snapshot, or an error when there is no history.
GetSession ==
  /\ recovery.state = "get" /\ loop = 0
  /\ recovery' = IF server = "ready" /\ storage
                 THEN [recovery EXCEPT !.state = "headers",
                                       !.messages = store[recovery.session]]
                 ELSE [recovery EXCEPT !.state = "none"]
  /\ UNCHANGED <<serverVars, calls>>

\* The process dies: killed by its liveness probe, which a held loop does not
\* answer, rolled, evicted.  Its connections are reset.
Die ==
  /\ server # "down" /\ Fault
  /\ server' = "down" /\ storage' = FALSE /\ loop' = 0
  /\ calls' = [n \in Turns |->
                 IF calls[n].state \in {"none", "sent", "over"} THEN calls[n]
                 ELSE [calls[n] EXCEPT !.state = "over",
                                       !.events = IF calls[n].connected
                                                  THEN Append(@, "reset")
                                                  ELSE @]]
  /\ \/ recovery' = [recovery EXCEPT !.state = "none", !.messages = <<>>]
     \/ UNCHANGED recovery
  /\ UNCHANGED <<store, warned>>

Handle(n) ==
  \/ Accept(n) \/ YieldDone(n) \/ YieldTerminator(n) \/ EndStream(n)
  \/ CancelStream(n) \/ YieldError(n) \/ Run(n) \/ Save(n) \/ Respond(n)

Init ==
  /\ server = "down" /\ storage = FALSE
  /\ store = [s \in Sessions |-> <<>>]
  /\ loop = 0 /\ warned = {} /\ faults = 0

Next ==
  \/ Start \/ GetSession \/ Die
  \/ \E n \in Turns : Handle(n) \/ YieldTool(n)
=============================================================================
