------------------------------- MODULE ChatPage -------------------------------
(***************************************************************************)
(* The single-page chat UI (webui/index.html): its conversation, the copy  *)
(* in localStorage, and the continuations of its two asynchronous          *)
(* functions, send and tryRecoverServerHistory, between which the user may *)
(* click anything.                                                         *)
(***************************************************************************)
EXTENDS Filter

CONSTANTS
  MaxTurns, Sessions,
  PageCap,      \* MAX_MESSAGES: 200 in the code
  MaxReloads    \* bound: times the page is loaded again

VARIABLES
  messages,     \* what the page shows
  stored,       \* localStorage: the same, across reloads
  session,      \* the session id, in localStorage too
  pc,           \* send: idle, classifying, or reading the answer
  turns,        \* questions asked so far
  reloads,
  switched,     \* history: a new session was started during send or recovery
  calls, recovery
pageVars == <<messages, stored, session, pc, turns, reloads, switched>>

Message(role, n) == [role |-> role, turn |-> n]

-----------------------------------------------------------------------------
\* messages.slice(-MAX_MESSAGES)
Capped(msgs) ==
  IF Len(msgs) > PageCap THEN SubSeq(msgs, Len(msgs) - PageCap + 1, Len(msgs))
  ELSE msgs

\* Mutant of Pushed: messages.push() in the place of pushMessage().
PushedUncapped(msgs, m) == Append(msgs, m)

\* pushMessage.
Pushed(msgs, m) == Capped(Append(msgs, m))

\* chatHistoryForServer.
ChatHistory(msgs) == WithRoles(msgs, {"user", "assistant", "system"})

Recovered == [recovery EXCEPT !.state = "none", !.messages = <<>>]

\* A page is loaded; it asks the server for the history of its session.
Init ==
  /\ messages = <<>> /\ stored = <<>>
  /\ session \in Sessions /\ \A s \in Sessions : session <= s
  /\ pc = "idle" /\ turns = 0 /\ reloads = 0
  /\ switched = FALSE
  /\ recovery = [state |-> "get", session |-> session, messages |-> <<>>]
  /\ calls = [n \in 1..MaxTurns |->
                [state |-> "none", stream |-> FALSE, session |-> session,
                 messages |-> <<>>, answer |-> <<>>, events |-> <<>>,
                 connected |-> TRUE]]

-----------------------------------------------------------------------------
(* send. *)

Send ==
  /\ pc = "idle" /\ turns < MaxTurns
  /\ turns' = turns + 1
  /\ messages' = Pushed(messages, Message("user", turns + 1))
  /\ stored' = Capped(messages')
  /\ pc' = "classify"
  /\ UNCHANGED <<session, reloads, switched, calls, recovery>>

\* /classify has or failed; the call is made with the session and
\* the conversation of now.
Classified ==
  /\ pc = "classify"
  /\ \E stream \in BOOLEAN :
       calls' = [calls EXCEPT ![turns].state = "sent",
                              ![turns].stream = stream,
                              ![turns].session = session,
                              ![turns].messages = ChatHistory(messages)]
  /\ pc' = "read"
  /\ UNCHANGED <<messages, stored, session, turns, reloads, switched,
                 recovery>>

\* The last lines of send: the conversation is saved, the page is not busy.
Finish(msgs) ==
  /\ messages' = msgs /\ stored' = Capped(msgs)
  /\ pc' = "idle"

\* Mutant of Fail: an error leaves send before its last lines.
FailBusy ==
  /\ messages' = Pushed(messages, Message("error", turns))
  /\ UNCHANGED <<pc, stored>>

Fail == Finish(Pushed(messages, Message("error", turns)))

\* The next event of streamChat, or the response of nonStreamChat.  After an
\* error event nobody reads the rest of the body, and the browser drops it.
Read ==
  LET call == calls[turns]
      event == Head(call.events)
      withTool == Pushed(messages, Message("tool", turns))
  IN  /\ pc = "read" /\ call.events # <<>>
      /\ calls' = [calls EXCEPT ![turns].events = IF event = "error" THEN <<>>
                                                  ELSE Tail(@),
                                ![turns].connected = @ /\ event # "error"]
      /\ \/ /\ event = "tool"
            /\ messages' = withTool
            /\ UNCHANGED <<stored, pc>>
         \/ event \in {"done", "[DONE]"} /\ UNCHANGED <<messages, stored, pc>>
         \/ event \in {"error", "reset"} /\ Fail
         \/ /\ event \in {"close", "response"}
            /\ \E shown \in {messages} \cup
                            (IF event = "response" THEN {withTool} ELSE {}) :
                 Finish(Pushed(shown, Message("assistant", turns)))
      /\ UNCHANGED <<session, turns, reloads, switched, recovery>>

-----------------------------------------------------------------------------
(* tryRecoverServerHistory: a conversation that is not empty wins, when the
   headers are there; the body is awaited after that check. *)

RecoverHeaders ==
  /\ recovery.state = "headers"
  /\ recovery' = IF messages = <<>> THEN [recovery EXCEPT !.state = "body"]
                 ELSE Recovered
  /\ UNCHANGED <<pageVars, calls>>

\* Mutant of RecoverBody: what is recovered is not saved.
RecoverUnsaved ==
  /\ recovery.state = "body" /\ recovery' = Recovered
  /\ IF recovery.messages # <<>> THEN messages' = recovery.messages
     ELSE UNCHANGED messages
  /\ UNCHANGED <<stored, session, pc, turns, reloads, switched, calls>>

RecoverBody ==
  /\ recovery.state = "body" /\ recovery' = Recovered
  /\ IF recovery.messages # <<>>
     THEN messages' = recovery.messages /\ stored' = Capped(messages')
     ELSE UNCHANGED <<messages, stored>>
  /\ UNCHANGED <<session, pc, turns, reloads, switched, calls>>

-----------------------------------------------------------------------------
(* The buttons, which work while send is waiting, and the browser's. *)

\* Mutant of NewSession: the conversation goes on in the new session.
NewSessionKeeps ==
  /\ session + 1 \in Sessions /\ session' = session + 1
  /\ switched' = (switched \/ pc # "idle" \/ recovery.state # "none")
  /\ UNCHANGED <<messages, stored, pc, turns, reloads, calls, recovery>>

NewSession ==
  /\ session + 1 \in Sessions /\ session' = session + 1
  /\ messages' = <<>> /\ stored' = <<>>
  /\ switched' = (switched \/ pc # "idle" \/ recovery.state # "none")
  /\ UNCHANGED <<pc, turns, reloads, calls, recovery>>

Clear ==
  /\ messages # <<>> /\ messages' = <<>> /\ stored' = <<>>
  /\ UNCHANGED <<session, pc, turns, reloads, switched, calls,
                 recovery>>

\* The page goes away, its connections with it, and comes back.
Reload ==
  /\ reloads < MaxReloads /\ reloads' = reloads + 1
  /\ messages' = stored /\ pc' = "idle"
  /\ recovery' = [state |-> "get", session |-> session, messages |-> <<>>]
  /\ calls' = IF pc = "read" \* an aborted fetch
              THEN [calls EXCEPT ![turns].connected = FALSE,
                                 ![turns].events = <<>>]
              ELSE calls
  /\ UNCHANGED <<stored, session, turns, switched>>

Run == Classified \/ Read \/ RecoverHeaders \/ RecoverBody

Next == Send \/ Run \/ NewSession \/ Clear \/ Reload
=============================================================================
