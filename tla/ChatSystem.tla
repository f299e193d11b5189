------------------------------ MODULE ChatSystem ------------------------------
(***************************************************************************)
(* One web page and the agent runtime it talks to, through the calls the   *)
(* page makes and the events it has not read yet.                          *)
(***************************************************************************)
EXTENDS Naturals, Sequences

CONSTANTS MaxTurns, Sessions, StoreCap, MaxFaults, PageCap, MaxReloads

\* MAX_MESSAGES and _MAX_PERSISTED_MESSAGES are both 200.
ASSUME CapsAssumption ==
  /\ StoreCap \in Nat \ {0} /\ PageCap \in Nat
  /\ StoreCap <= PageCap
ASSUME SessionsAssumption == Sessions \subseteq Nat /\ Sessions # {}
ASSUME BoundsAssumption ==
  MaxTurns \in Nat /\ MaxFaults \in Nat /\ MaxReloads \in Nat

VARIABLES
  server, storage, store, loop, warned, faults,
  messages, stored, session, pc, turns, reloads, switched,
  calls, recovery

serverVars == <<server, storage, store, loop, warned, faults>>
pageVars   == <<messages, stored, session, pc, turns, reloads,
                switched>>
vars       == <<serverVars, pageVars, calls, recovery>>

Server == INSTANCE ChatServer
Page   == INSTANCE ChatPage

Init == Server!Init /\ Page!Init

ServerStep == Server!Next /\ UNCHANGED pageVars
PageStep   == Page!Next /\ UNCHANGED serverVars
Next == ServerStep \/ PageStep

Spec == Init /\ [][Next]_vars

(* The process is started again, the event loop runs its handlers (the calls
   to the model have timeouts) and the browser its continuations.  Users owe
   nothing. *)
Fairness ==
  /\ WF_vars(Server!Start /\ UNCHANGED pageVars)
  /\ \A n \in 1..MaxTurns :
       WF_vars(Server!Handle(n) /\ UNCHANGED pageVars)
  /\ WF_vars(Page!Run /\ UNCHANGED serverVars)

FairSpec == Spec /\ Fairness

-----------------------------------------------------------------------------
(* Properties. *)

Elements(s) == {s[i] : i \in 1..Len(s)}

\* Type correctness; neither the page's conversation, in memory and in
\* localStorage, nor a session's file outgrows its cap, also with tool events
\* and with a recovered conversation.
TypeOK ==
  /\ server \in {"down", "ready", "broken"} /\ storage \in BOOLEAN
  /\ \A s \in Sessions : /\ store[s] \in Seq(Server!Messages)
                         /\ Len(store[s]) <= StoreCap
  /\ calls \in [1..MaxTurns -> Server!Calls]
  /\ recovery \in Server!Recoveries
  /\ loop \in 0..MaxTurns /\ warned \subseteq 1..MaxTurns /\ faults \in Nat
  /\ messages \in Seq(Server!Messages) /\ Len(messages) <= PageCap
  /\ stored \in Seq(Server!Messages) /\ Len(stored) <= PageCap
  /\ session \in Sessions /\ pc \in {"idle", "classify", "read"}
  /\ turns \in 0..MaxTurns /\ reloads \in Nat
  /\ switched \in BOOLEAN

\* An answer the page shows as complete is on record: streamed or not, it is in
\* the file of the session it was asked in (a full file may have dropped it), or
\* a warning was logged; no death of the process comes between the end of the
\* body and the save, whatever other calls, reloads and clicks do.
AnswersAreOnRecord ==
  \A m \in Elements(messages) : m.role = "assistant" =>
    LET s == calls[m.turn].session
    IN  m \in Elements(store[s]) \/ Len(store[s]) = StoreCap
        \/ m.turn \in warned

\* Between two turns localStorage holds what the page shows, so that a reload
\* changes nothing, after errors, recoveries, new sessions and clears too.
StoredIsShown == pc = "idle" => stored = messages

\* Sessions do not mix, in the page or in the files: every message belongs to a
\* turn of its session, as long as no session is started while send or the
\* recovery is under way: those then put what they bring into the new one.
OfSession(msgs, s) ==
  \A m \in Elements(msgs) :
    m.role \in {"user", "assistant"} /\ calls[m.turn].state # "none"
      => calls[m.turn].session = s
SessionsAreSeparate ==
  ~switched => /\ OfSession(messages, session)
               /\ \A s \in Sessions : OfSession(store[s], s)

\* send never waits for nothing: while it reads, its call is under way or has
\* left an event for it, whatever ends the call: an error of the agent, a death
\* of the process, a refusal, a stream the server cancels.
AnswerIsComing ==
  pc = "read" => \/ calls[turns].state \notin {"none", "over"}
                 \/ calls[turns].events # <<>>

\* The page never stays busy: every send ends, with an answer or an error,
\* through failing agents and deaths of the process in mid-stream.
SendEnds == pc # "idle" ~> pc = "idle"

-----------------------------------------------------------------------------
(* What the code's comments say of it, and it does not do. *)

\* "load prior context from disk and persist the new turn on completion"
\* (server.py:20): no message is saved twice.
TurnsAreSavedOnce ==
  \A s \in Sessions : \A i, j \in 1..Len(store[s]) :
    store[s][i] = store[s][j] => i = j
=============================================================================
