---------------------------- MODULE ChatSystemProofs ----------------------------
(***************************************************************************)
(* ChatSystem for any number of turns, any sessions and caps, any number   *)
(* of faults and reloads.                                                  *)
(*                                                                         *)
(* None of the properties is inductive.  What the page shows comes from    *)
(* events, recovered files and localStorage, and what a file holds from    *)
(* what the page sent; so the invariant speaks of every list on the way    *)
(* (Traced, Separate), of what each call may still tell (Promises), and    *)
(* of how far send is (Cursor).  ServerMoves says what a step of the       *)
(* server may do to the lists, PageKeeps what a step of the page may.      *)
(***************************************************************************)
EXTENDS ChatSystem, FilterTheorems, TLAPS

Turns == 1..MaxTurns
Lists == Seq(Server!Messages)

-----------------------------------------------------------------------------
(* What the operators on conversations do. *)

\* The last messages of a list, as both caps take them.
LEMMA SuffixIs ==
  ASSUME NEW s \in Lists, NEW cap \in Nat, NEW t,
         t = IF Len(s) > cap THEN SubSeq(s, Len(s) - cap + 1, Len(s)) ELSE s
  PROVE  /\ t \in Lists /\ Len(t) <= cap /\ Elements(t) \subseteq Elements(s)
         /\ t = s \/ Len(t) = cap
<1>1. Len(s) \in Nat /\ \A j \in 1..Len(s) : s[j] \in Server!Messages
  BY LenProperties, ElementOfSeq DEF Lists
<1>2. CASE Len(s) > cap
  <2> DEFINE m == Len(s) - cap + 1
  <2>1. /\ t = SubSeq(s, m, Len(s)) /\ m \in Int /\ m >= 1
        /\ Len(s) - m + 1 = cap /\ Len(s) \in Int
        /\ (m <= Len(s) \/ cap = 0)
    BY <1>1, <1>2
  <2>2. \A j \in m..Len(s) : s[j] \in Server!Messages
    BY <1>1, <2>1
  <2> HIDE DEF m
  <2>3. /\ t \in Lists /\ Len(t) = (IF m <= Len(s) THEN cap ELSE 0)
        /\ \A i \in 1..cap : t[i] = s[m + i - 1]
    BY <2>1, <2>2, SubSeqProperties DEF Lists
  <2>4. Len(t) = cap
    BY <2>1, <2>3
  <2>5. \A i \in 1..cap : m + i - 1 \in 1..Len(s)
    BY <1>1, <2>1
  <2>6. Elements(t) \subseteq Elements(s)
    BY <2>3, <2>4, <2>5 DEF Elements
  <2> QED BY <2>3, <2>4, <2>6
<1>3. CASE ~ (Len(s) > cap)
  BY <1>1, <1>3
<1> QED BY <1>2, <1>3

\* _MAX_PERSISTED_MESSAGES: what a file keeps of a list.
LEMMA NewestIs ==
  ASSUME NEW s \in Lists
  PROVE  /\ Server!Newest(s) \in Lists /\ Len(Server!Newest(s)) <= StoreCap
         /\ Elements(Server!Newest(s)) \subseteq Elements(s)
         /\ Server!Newest(s) = s \/ Len(Server!Newest(s)) = StoreCap
<1>1. StoreCap \in Nat
  BY CapsAssumption
<1>2. Server!Newest(s) =
        IF Len(s) > StoreCap THEN SubSeq(s, Len(s) - StoreCap + 1, Len(s))
        ELSE s
  BY DEF Server!Newest
<1> QED BY <1>1, <1>2, SuffixIs

\* MAX_MESSAGES: what the page keeps of a list.
LEMMA CappedIs ==
  ASSUME NEW s \in Lists
  PROVE  /\ Page!Capped(s) \in Lists /\ Len(Page!Capped(s)) <= PageCap
         /\ Elements(Page!Capped(s)) \subseteq Elements(s)
         /\ Len(s) <= PageCap => Page!Capped(s) = s
<1>1. Len(s) <= PageCap => Page!Capped(s) = s
  BY LenProperties, CapsAssumption DEF Page!Capped, Lists
<1> QED BY <1>1, SuffixIs, CapsAssumption DEF Page!Capped

\* The empty conversation.
LEMMA ElementsOfNone == Elements(<<>>) = {} /\ <<>> \in Lists /\ Len(<<>>) = 0
  BY EmptySeq DEF Elements, Lists

\* Two conversations, one after the other.
LEMMA ElementsOfConcat ==
  ASSUME NEW s \in Lists, NEW t \in Lists
  PROVE  s \o t \in Lists /\ Elements(s \o t) = Elements(s) \cup Elements(t)
<1>1. /\ s \o t \in Lists
      /\ Range(s \o t) = Range(s) \cup Range(t)
  BY ConcatProperties, RangeConcatenation DEF Lists
<1> QED BY <1>1, RangeEquality DEF Lists, Elements

\* A conversation of one message.
LEMMA ElementsOfOne ==
  ASSUME NEW m \in Server!Messages
  PROVE  <<m>> \in Lists /\ Elements(<<m>>) = {m}
<1>1. <<m>> \in Lists /\ Len(<<m>>) = 1 /\ <<m>>[1] = m
  BY DEF Lists
<1>2. 1..Len(<<m>>) = {1}
  BY <1>1
<1> QED BY <1>1, <1>2 DEF Elements

\* pushMessage adds its message and nothing else.
LEMMA PushedIs ==
  ASSUME NEW s \in Lists, NEW m \in Server!Messages
  PROVE  /\ Page!Pushed(s, m) \in Lists /\ Len(Page!Pushed(s, m)) <= PageCap
         /\ Elements(Page!Pushed(s, m)) \subseteq Elements(s) \cup {m}
<1>1. Append(s, m) = s \o <<m>> /\ <<m>> \in Lists
  BY AppendIsConcat, ElementsOfOne DEF Lists
<1>2. /\ Append(s, m) \in Lists
      /\ Elements(Append(s, m)) = Elements(s) \cup {m}
  BY <1>1, ElementsOfConcat, ElementsOfOne
<1> QED BY <1>2, CappedIs DEF Page!Pushed

\* What is sent is part of what is shown.
LEMMA ChatHistoryIs ==
  ASSUME NEW s \in Lists
  PROVE  /\ Page!ChatHistory(s) \in Lists
         /\ Elements(Page!ChatHistory(s)) \subseteq Elements(s)
<1> DEFINE roles == {"user", "assistant", "system"}
<1>1. Page!ChatHistory(s) = WithRoles(s, roles)
  BY DEF Page!ChatHistory, Page!WithRoles, Page!Kept, WithRoles, Kept
<1> HIDE DEF roles
<1>2. WithRoles(s, roles) \in Lists
  BY WithRolesType DEF Lists
<1>3. Range(WithRoles(s, roles)) \subseteq Range(s)
  BY WithRolesKeeps DEF Lists
<1>4. /\ Range(WithRoles(s, roles)) = Elements(WithRoles(s, roles))
      /\ Range(s) = Elements(s)
  BY <1>2, RangeEquality DEF Lists, Elements
<1> QED BY <1>1, <1>2, <1>3, <1>4

-----------------------------------------------------------------------------
(* The types.                                                               *)

CallsTyped == calls \in [Turns -> Server!Calls]

\* TypeOK, the domain of store, and what a recovered conversation and a turn
\* under way are.
ServerTyped ==
  /\ server \in {"down", "ready", "broken"} /\ storage \in BOOLEAN
  /\ store \in [Sessions -> Lists]
  /\ \A s \in Sessions : Len(store[s]) <= StoreCap
  /\ loop \in 0..MaxTurns /\ warned \subseteq Turns /\ faults \in Nat

RecoveryTyped ==
  recovery \in Server!Recoveries /\ Len(recovery.messages) <= StoreCap

PageTyped ==
  /\ messages \in Lists /\ Len(messages) <= PageCap
  /\ stored \in Lists /\ Len(stored) <= PageCap
  /\ session \in Sessions /\ pc \in {"idle", "classify", "read"}
  /\ turns \in 0..MaxTurns /\ reloads \in Nat /\ switched \in BOOLEAN
  /\ pc # "idle" => turns \in Turns

Typed == ServerTyped /\ CallsTyped /\ RecoveryTyped /\ PageTyped

\* The types are at least those of TypeOK.
LEMMA TypedIs == Typed => TypeOK
  BY DEF Typed, ServerTyped, CallsTyped, RecoveryTyped, PageTyped, TypeOK, Turns,
         Lists

States == {"none", "sent", "streaming", "acting", "ending", "terminated",
           "running", "ran", "saved", "over"}

\* Whether the client is there or not, what waits for it are events.
LEMMA EventsIs ==
  ASSUME CallsTyped, NEW n \in Turns, NEW events \in Seq(Server!Events)
  PROVE  (IF calls[n].connected THEN calls[n].events \o events
          ELSE calls[n].events) \in Seq(Server!Events)
<1>1. calls[n].events \in Seq(Server!Events)
  BY DEF CallsTyped, Server!Calls
<1> QED BY <1>1, ConcatProperties

-----------------------------------------------------------------------------
(* What a step does to the calls.  All but Classified leave the session and *)
(* the messages of each call alone, and whether it was made.                *)

Answer(n) == Page!Message("assistant", n)

Kin ==
  /\ CallsTyped'
  /\ \A k \in Turns :
       /\ calls'[k].session = calls[k].session
       /\ calls'[k].messages = calls[k].messages
       /\ calls'[k].answer \in {calls[k].answer, <<Answer(k)>>}
       /\ calls'[k].state = "none" <=> calls[k].state = "none"

\* One call is replaced by another that agrees with it.
LEMMA OneChanges ==
  ASSUME CallsTyped, NEW n \in Turns, NEW c \in Server!Calls,
         calls' = [calls EXCEPT ![n] = c],
         c.session = calls[n].session, c.messages = calls[n].messages,
         c.answer \in {calls[n].answer, <<Answer(n)>>},
         c.state = "none" <=> calls[n].state = "none"
  PROVE  Kin
<1>1. CallsTyped'
  BY DEF CallsTyped
<1>2. calls'[n] = c /\ \A k \in Turns : k # n => calls'[k] = calls[k]
  BY DEF CallsTyped
<1> QED BY <1>1, <1>2 DEF Kin

\* A step that leaves the calls alone.
LEMMA NoneChanges ==
  ASSUME CallsTyped, calls' = calls
  PROVE  Kin
  BY DEF CallsTyped, Kin

\* What Step does.
LEMMA StepIs ==
  ASSUME CallsTyped, NEW n \in Turns, NEW state \in States \ {"none"},
         NEW events \in Seq(Server!Events), Server!Step(n, state, events),
         calls[n].state # "none"
  PROVE  /\ Kin /\ \A k \in Turns : k # n => calls'[k] = calls[k]
         /\ calls'[n].state = state /\ calls'[n].answer = calls[n].answer
         /\ calls'[n].connected = calls[n].connected
         /\ calls'[n].events = IF calls[n].connected
                               THEN calls[n].events \o events
                               ELSE calls[n].events
<1> DEFINE told == IF calls[n].connected THEN calls[n].events \o events
                   ELSE calls[n].events
           c == [calls[n] EXCEPT !.state = state, !.events = told]
<1>1. calls' = [calls EXCEPT ![n] = c]
  BY DEF Server!Step, CallsTyped
<1>2. told \in Seq(Server!Events)
  BY EventsIs
<1>3. calls[n] \in Server!Calls
  BY DEF CallsTyped
<1> HIDE DEF told
<1>4. /\ c.state = state /\ c.events = told /\ c.session = calls[n].session
      /\ c.messages = calls[n].messages /\ c.answer = calls[n].answer
      /\ c.connected = calls[n].connected
  BY <1>3 DEF Server!Calls
<1>5. c \in Server!Calls
  BY <1>2, <1>3 DEF Server!Calls, States
<1> HIDE DEF c
<1>6. calls'[n] = c /\ \A k \in Turns : k # n => calls'[k] = calls[k]
  BY <1>1 DEF CallsTyped
<1>7. Kin
  BY <1>1, <1>4, <1>5, OneChanges
<1> QED BY <1>4, <1>6, <1>7 DEF told

\* The answer of an agent, with the event that tells of it or without one.
LEMMA AnswerIs ==
  ASSUME CallsTyped, NEW n \in Turns, NEW state \in States \ {"none"},
         NEW events \in Seq(Server!Events), calls[n].state # "none",
         calls' = [calls EXCEPT
                     ![n] = [calls[n] EXCEPT !.state = state,
                                             !.answer = <<Answer(n)>>,
                                             !.events = events]]
  PROVE  /\ Kin /\ \A k \in Turns : k # n => calls'[k] = calls[k]
         /\ calls'[n].state = state /\ calls'[n].answer = <<Answer(n)>>
         /\ calls'[n].connected = calls[n].connected
         /\ calls'[n].events = events
<1> DEFINE answer == <<Answer(n)>>
           c == [calls[n] EXCEPT !.state = state, !.answer = answer,
                                 !.events = events]
<1>1. answer \in Seq(Server!Messages)
  BY DEF Answer, Page!Message, Server!Messages, Turns, Server!Turns
<1>2. calls[n] \in Server!Calls
  BY DEF CallsTyped
<1>3. calls' = [calls EXCEPT ![n] = c]
  OBVIOUS
<1>a. answer = <<Answer(n)>>
  OBVIOUS
<1> HIDE DEF answer
<1>4. /\ c.state = state /\ c.events = events /\ c.session = calls[n].session
      /\ c.messages = calls[n].messages /\ c.answer = answer
      /\ c.connected = calls[n].connected
  BY <1>2 DEF Server!Calls
<1>5. c \in Server!Calls
  BY <1>1, <1>2 DEF Server!Calls, States
<1> HIDE DEF c
<1>6. calls'[n] = c /\ \A k \in Turns : k # n => calls'[k] = calls[k]
  BY <1>3 DEF CallsTyped
<1>7. Kin
  <2>1. c.answer \in {calls[n].answer, <<Answer(n)>>}
    BY <1>4, <1>a
  <2>2. c.state = "none" <=> calls[n].state = "none"
    BY <1>4
  <2> QED BY <1>3, <1>4, <1>5, <2>1, <2>2, OneChanges
<1> QED BY <1>4, <1>6, <1>7, <1>a

\* The events that are sent are events.
LEMMA EventLists ==
  /\ <<>> \in Seq(Server!Events)
  /\ \A e \in Server!Events : <<e>> \in Seq(Server!Events)
  OBVIOUS

-----------------------------------------------------------------------------
(* What a step of the server does to what is on record.                     *)

AnswersTyped == \A n \in Turns : calls[n].answer \in {<<>>, <<Answer(n)>>}

\* The call was made, and the message is in the file of its session, or the
\* file is full, or its turn was not saved and a warning logged.
OnRecord(m) ==
  /\ calls[m.turn].state # "none"
  /\ LET s == calls[m.turn].session
     IN  m \in Elements(store[s]) \/ Len(store[s]) = StoreCap
         \/ m.turn \in warned

\* A file only grows, until it is full.
Grows ==
  /\ \A s \in Sessions : \/ Len(store'[s]) = StoreCap
                         \/ /\ Len(store[s]) # StoreCap
                            /\ Elements(store[s]) \subseteq Elements(store'[s])
  /\ warned \subseteq warned'

\* What comes into a file comes from a call of its session: what was sent with
\* it, or its answer.
FilesFlow ==
  \A s \in Sessions : \A m \in Elements(store'[s]) :
    \/ m \in Elements(store[s])
    \/ \E n \in Turns : /\ calls[n].session = s /\ calls[n].state # "none"
                        /\ \/ m \in Elements(calls[n].messages)
                           \/ m = Answer(n)

\* What is recovered comes from the file of the session it was asked for.
RecoveryFlows ==
  /\ recovery'.session = recovery.session
  /\ recovery'.state # "none" => recovery.state # "none"
  /\ Elements(recovery'.messages) \subseteq
       Elements(recovery.messages) \cup Elements(store[recovery.session])

ServerMoves ==
  /\ ServerTyped' /\ RecoveryTyped' /\ Kin
  /\ Grows /\ FilesFlow /\ RecoveryFlows

\* What is on record stays on record.
LEMMA RecordStays ==
  ASSUME ServerTyped, CallsTyped, Kin, Grows, NEW m, m.turn \in Turns, OnRecord(m)
  PROVE  OnRecord(m)'
<1> DEFINE s == calls[m.turn].session
<1>1. s \in Sessions /\ calls'[m.turn].session = s
      /\ calls'[m.turn].state # "none"
  BY DEF CallsTyped, Server!Calls, Kin, OnRecord
<1>2. \/ m \in Elements(store'[s]) \/ Len(store'[s]) = StoreCap
      \/ m.turn \in warned'
  BY <1>1 DEF OnRecord, Grows
<1> QED BY <1>1, <1>2 DEF OnRecord

\* A step that leaves the files alone.
LEMMA FilesStay ==
  ASSUME ServerTyped, UNCHANGED <<store, warned>>
  PROVE  Grows /\ FilesFlow
  BY DEF Grows, FilesFlow, ServerTyped

\* A step that leaves the recovery alone.
LEMMA RecoveryStays ==
  ASSUME RecoveryTyped, UNCHANGED recovery
  PROVE  RecoveryTyped' /\ RecoveryFlows
  BY DEF RecoveryTyped, RecoveryFlows, Server!Recoveries

\* _persist_turn: the file is extended and trimmed, or a warning logged.
LEMMA PersistTurnIs ==
  ASSUME Typed, AnswersTyped, NEW n \in Turns, Server!PersistTurn(n),
         calls[n].state # "none", UNCHANGED <<server, storage, loop>>, Kin
  PROVE  /\ ServerTyped' /\ Grows /\ FilesFlow
         /\ calls[n].answer = <<Answer(n)>> => OnRecord(Answer(n))'
<1> DEFINE s == calls[n].session
           asked == calls[n].messages
           answer == calls[n].answer
<1>0. /\ s \in Sessions /\ asked \in Lists /\ answer \in Lists
      /\ Answer(n).turn = n /\ calls'[n].session = s
      /\ calls'[n].state # "none"
  BY DEF Typed, CallsTyped, Server!Calls, Lists, Kin, Answer, Page!Message
<1>1. CASE warned' = warned \cup {n} /\ UNCHANGED store /\ faults' \in Nat
  <2>1. ServerTyped'
    BY <1>1 DEF Typed, ServerTyped
  <2>2. Grows /\ FilesFlow
    BY <1>1 DEF Typed, ServerTyped, Grows, FilesFlow
  <2>3. OnRecord(Answer(n))'
    BY <1>0, <1>1 DEF OnRecord
  <2> QED BY <2>1, <2>2, <2>3
<1>2. CASE /\ store' = [store EXCEPT ![s] = Server!Newest(@ \o asked \o answer)]
           /\ UNCHANGED <<warned, faults>>
  <2> DEFINE old == store[s]
             all == old \o asked \o answer
             new == Server!Newest(all)
  <2>1. old \in Lists /\ Len(old) <= StoreCap
    BY <1>0 DEF Typed, ServerTyped
  <2>2. /\ all \in Lists
        /\ Elements(all) = Elements(old) \cup Elements(asked)
                                        \cup Elements(answer)
        /\ Len(all) >= Len(old)
    <3>1. old \o asked \in Lists
          /\ Elements(old \o asked) = Elements(old) \cup Elements(asked)
      BY <1>0, <2>1, ElementsOfConcat
    <3>2. /\ all \in Lists
          /\ Elements(all) = Elements(old \o asked) \cup Elements(answer)
      BY <1>0, <3>1, ElementsOfConcat
    <3>3. /\ Len(old \o asked) = Len(old) + Len(asked)
          /\ Len(all) = Len(old \o asked) + Len(answer)
          /\ Len(old) \in Nat /\ Len(asked) \in Nat /\ Len(answer) \in Nat
      BY <1>0, <2>1, <3>1, ConcatProperties, LenProperties DEF Lists
    <3>4. Len(all) = Len(old) + Len(asked) + Len(answer)
      BY <3>3
    <3> HIDE DEF all, old, asked, answer
    <3>5. \A a, b, c \in Nat : a + b + c >= a
      OBVIOUS
    <3>6. Len(all) >= Len(old)
      BY <3>3, <3>4, <3>5
    <3> QED BY <3>1, <3>2, <3>6
  <2>3. /\ new \in Lists /\ Len(new) <= StoreCap
        /\ Elements(new) \subseteq Elements(all)
        /\ new = all \/ Len(new) = StoreCap
    BY <2>2, NewestIs
  <2>5. store' = [store EXCEPT ![s] = new]
    BY <1>2
  <2> HIDE DEF all, new
  <2>4. Len(new) = StoreCap \/ /\ Len(old) # StoreCap
                               /\ Elements(old) \subseteq Elements(new)
    <3>1. Len(new) \in Nat /\ Len(old) \in Nat /\ StoreCap \in Nat
      BY <2>1, <2>3, LenProperties, CapsAssumption DEF Lists
    <3>2. CASE new = all
      <4>1. Elements(old) \subseteq Elements(new)
        BY <2>2, <3>2
      <4>2. Len(old) = StoreCap => Len(new) = StoreCap
        BY <2>2, <2>3, <3>1, <3>2
      <4> QED BY <4>1, <4>2
    <3>3. CASE Len(new) = StoreCap
      BY <3>3
    <3> QED BY <2>3, <3>2, <3>3
  <2>6. /\ store'[s] = new /\ \A t \in Sessions : t # s => store'[t] = store[t]
        /\ store' \in [Sessions -> Lists]
    BY <1>0, <2>3, <2>5 DEF Typed, ServerTyped
  <2>7. ServerTyped'
    BY <1>2, <2>3, <2>6 DEF Typed, ServerTyped
  <2>8. Grows
    BY <1>2, <2>4, <2>6 DEF Typed, ServerTyped, Grows
  <2>9. Elements(answer) \subseteq {Answer(n)}
    <3>1. <<Answer(n)>>[1] = Answer(n) /\ Len(<<Answer(n)>>) = 1
          /\ Len(<<>>) = 0
      OBVIOUS
    <3>2. Elements(<<Answer(n)>>) = {Answer(n)} /\ Elements(<<>>) = {}
      BY <3>1 DEF Elements
    <3> QED BY <3>2 DEF AnswersTyped
  <2>10. FilesFlow
    <3> SUFFICES ASSUME NEW t \in Sessions, NEW m \in Elements(store'[t]),
                        m \notin Elements(store[t])
                 PROVE  /\ calls[n].session = t
                        /\ m \in Elements(calls[n].messages) \/ m = Answer(n)
      BY DEF FilesFlow
    <3>1. t = s
      BY <2>6
    <3> QED BY <2>2, <2>3, <2>6, <2>9, <3>1
  <2>11. answer = <<Answer(n)>> => OnRecord(Answer(n))'
    <3> SUFFICES ASSUME answer = <<Answer(n)>> PROVE OnRecord(Answer(n))'
      OBVIOUS
    <3>1. <<Answer(n)>>[1] = Answer(n) /\ 1 \in 1..Len(<<Answer(n)>>)
      OBVIOUS
    <3>2. Answer(n) \in Elements(answer)
      BY <3>1 DEF Elements
    <3>3. Answer(n) \in Elements(new) \/ Len(new) = StoreCap
      BY <2>2, <2>3, <3>2
    <3> QED BY <1>0, <2>6, <3>3 DEF OnRecord
  <2> QED BY <2>7, <2>8, <2>10, <2>11
<1>3. faults \in Nat /\ (Server!Fault => faults' \in Nat)
  BY DEF Typed, ServerTyped, Server!Fault
<1> QED BY <1>1, <1>2, <1>3 DEF Server!PersistTurn

-----------------------------------------------------------------------------
(* What a call promises the page: an answer it reads to its end is on       *)
(* record, unless it has read an error before.                              *)

HasError(events) == \E j \in 1..Len(events) : events[j] = "error"

\* The events that end an answer.
Told(n) ==
  \A i \in 1..Len(calls[n].events) :
    calls[n].events[i] \in {"close", "response"} =>
      \/ OnRecord(Answer(n))
      \/ \E j \in 1..Len(calls[n].events) : j < i /\ calls[n].events[j] = "error"

\* What a call is about to tell.
Due(n) ==
  /\ calls[n].state \in {"ending", "terminated"} /\ calls[n].connected =>
       calls[n].answer = <<Answer(n)>> \/ HasError(calls[n].events)
  /\ calls[n].state = "ran" => calls[n].answer = <<Answer(n)>>
  /\ calls[n].state = "saved" => OnRecord(Answer(n))

Promises == \A n \in Turns : Told(n) /\ Due(n)

\* An answer is a message of its turn.
LEMMA AnswerIsMessage ==
  ASSUME NEW n \in Turns
  PROVE  /\ Answer(n) \in Server!Messages /\ Answer(n).turn = n
         /\ Answer(n).role = "assistant"
  BY DEF Answer, Page!Message, Server!Messages, Turns, Server!Turns

\* A call that stays as it is keeps its promises.
LEMMA OthersPromise ==
  ASSUME ServerTyped, CallsTyped, Kin, Grows, NEW k \in Turns,
         calls'[k] = calls[k], Told(k), Due(k)
  PROVE  Told(k)' /\ Due(k)'
<1>1. OnRecord(Answer(k)) => OnRecord(Answer(k))'
  BY RecordStays, AnswerIsMessage
<1> QED BY <1>1 DEF Told, Due, HasError, Answer

\* One more event.
LEMMA OneMoreEvent ==
  ASSUME ServerTyped, CallsTyped, Kin, Grows, NEW n \in Turns, Told(n),
         NEW e \in Server!Events,
         calls'[n].events = IF calls[n].connected
                            THEN calls[n].events \o <<e>>
                            ELSE calls[n].events,
         e \in {"close", "response"} /\ calls[n].connected =>
           OnRecord(Answer(n))' \/ HasError(calls[n].events)
  PROVE  /\ Told(n)'
         /\ HasError(calls[n].events) => HasError(calls'[n].events)
         /\ e = "error" /\ calls[n].connected => HasError(calls'[n].events)
<1> DEFINE old == calls[n].events
           new == calls'[n].events
<1>1. OnRecord(Answer(n)) => OnRecord(Answer(n))'
  BY RecordStays, AnswerIsMessage
<1>2. old \in Seq(Server!Events)
  BY DEF CallsTyped, Server!Calls
<1>3. CASE ~calls[n].connected
  <2>1. new = old
    BY <1>3
  <2> QED BY <1>1, <1>3, <2>1 DEF Told, HasError, Answer
<1>4. CASE calls[n].connected
  <2>1. new = old \o <<e>> /\ <<e>> \in Seq(Server!Events)
    BY <1>4
  <2>2. /\ Len(old) \in Nat /\ Len(new) = Len(old) + 1
        /\ new[Len(old) + 1] = e
        /\ \A i \in 1..Len(old) : new[i] = old[i]
    <3>1. Append(old, e) = new
      BY <1>2, <2>1, AppendIsConcat
    <3> QED BY <1>2, <3>1, AppendProperties, LenProperties
  <2>3. HasError(old) => HasError(new)
    <3> SUFFICES ASSUME NEW j \in 1..Len(old), old[j] = "error"
                 PROVE  HasError(new)
      BY DEF HasError
    <3>1. j \in 1..Len(new) /\ new[j] = "error"
      BY <2>2
    <3> QED BY <3>1 DEF HasError
  <2>4. e = "error" => HasError(new)
    <3>1. Len(old) + 1 \in 1..Len(new)
      BY <2>2
    <3> QED BY <2>2, <3>1 DEF HasError
  <2>5. ASSUME NEW i \in 1..Len(new), new[i] \in {"close", "response"}
        PROVE  \/ OnRecord(Answer(n))'
               \/ \E j \in 1..Len(new) : j < i /\ new[j] = "error"
    <3>1. CASE i \in 1..Len(old)
      <4>1. \/ OnRecord(Answer(n))
            \/ \E j \in 1..Len(old) : j < i /\ old[j] = "error"
        BY <2>2, <2>5, <3>1 DEF Told
      <4>2. \A j \in 1..Len(old) : j \in 1..Len(new) /\ new[j] = old[j]
        BY <2>2
      <4> QED BY <1>1, <4>1, <4>2
    <3>2. CASE i = Len(old) + 1
      <4>1. OnRecord(Answer(n))' \/ HasError(old)
        BY <1>4, <2>2, <2>5, <3>2
      <4>2. \A j \in 1..Len(old) : j \in 1..Len(new) /\ new[j] = old[j] /\ j < i
        BY <2>2, <3>2
      <4> QED BY <4>1, <4>2 DEF HasError
    <3>3. i \in 1..Len(old) \/ i = Len(old) + 1
      BY <2>2
    <3> QED BY <3>1, <3>2, <3>3
  <2> QED BY <2>3, <2>4, <2>5 DEF Told, Answer
<1> QED BY <1>3, <1>4

\* A call that sends nothing keeps what it has told.
LEMMA NoMoreEvents ==
  ASSUME ServerTyped, CallsTyped, Kin, Grows, NEW n \in Turns, Told(n),
         calls'[n].events = calls[n].events
  PROVE  Told(n)'
<1>1. OnRecord(Answer(n)) => OnRecord(Answer(n))'
  BY RecordStays, AnswerIsMessage
<1> QED BY <1>1 DEF Told, Answer

-----------------------------------------------------------------------------
(* The steps of the server.                                                 *)

SInv == Typed /\ AnswersTyped /\ Promises

\* A step of one call that leaves files and recovery alone and adds an event.
LEMMA CallSteps ==
  ASSUME SInv, NEW n \in Turns, NEW state \in States \ {"none"},
         NEW e \in Server!Events, Server!Step(n, state, <<e>>),
         calls[n].state # "none", Grows,
         e \in {"close", "response"} /\ calls[n].connected =>
           OnRecord(Answer(n))' \/ HasError(calls[n].events),
         state \in {"ending", "terminated"} /\ calls[n].connected =>
           \/ calls[n].answer = <<Answer(n)>>
           \/ HasError(calls[n].events) \/ e = "error",
         state \notin {"ran", "saved"}
  PROVE  Promises'
<1>0. ServerTyped /\ CallsTyped /\ Told(n) /\ <<e>> \in Seq(Server!Events)
  BY DEF SInv, Typed, Promises
<1>1. /\ Kin /\ (\A k \in Turns : k # n => calls'[k] = calls[k])
      /\ calls'[n].state = state /\ calls'[n].answer = calls[n].answer
      /\ calls'[n].connected = calls[n].connected
      /\ calls'[n].events = IF calls[n].connected
                            THEN calls[n].events \o <<e>>
                            ELSE calls[n].events
  BY <1>0, StepIs
<1>2. /\ Told(n)'
      /\ HasError(calls[n].events) => HasError(calls'[n].events)
      /\ e = "error" /\ calls[n].connected => HasError(calls'[n].events)
  BY <1>0, <1>1, OneMoreEvent
<1>3. Due(n)'
  BY <1>1, <1>2 DEF Due, Answer
<1>4. ASSUME NEW k \in Turns, k # n PROVE Told(k)' /\ Due(k)'
  <2>1. Told(k) /\ Due(k) /\ calls'[k] = calls[k]
    BY <1>1, <1>4 DEF SInv, Promises
  <2> QED BY <1>0, <1>1, <2>1, OthersPromise
<1> QED BY <1>2, <1>3, <1>4 DEF Promises

\* A step that tells nothing.
LEMMA CallIsSilent ==
  ASSUME SInv, NEW n \in Turns, Kin, Grows,
         \A k \in Turns : k # n => calls'[k] = calls[k],
         calls'[n].events = calls[n].events, Due(n)'
  PROVE  Promises'
<1>0. ServerTyped /\ CallsTyped /\ Told(n)
  BY DEF SInv, Typed, Promises
<1>1. Told(n)'
  BY <1>0, NoMoreEvents
<1>2. ASSUME NEW k \in Turns, k # n PROVE Told(k)' /\ Due(k)'
  <2>1. Told(k) /\ Due(k) /\ calls'[k] = calls[k]
    BY <1>2 DEF SInv, Promises
  <2> QED BY <1>0, <2>1, OthersPromise
<1> QED BY <1>1, <1>2 DEF Promises

\* To send no event is to send nothing.
LEMMA NothingTold ==
  ASSUME CallsTyped, NEW n \in Turns
  PROVE  calls[n].events \o <<>> = calls[n].events
<1>1. calls[n].events \in Seq(Server!Events)
  BY DEF CallsTyped, Server!Calls
<1> QED BY <1>1, ConcatEmptySeq

\* A recovery that is over.
LEMMA RecoveryOver ==
  ASSUME RecoveryTyped,
         recovery' = [recovery EXCEPT !.state = "none", !.messages = <<>>]
  PROVE  /\ RecoveryTyped' /\ recovery'.session = recovery.session
         /\ recovery'.messages = <<>> /\ recovery'.state = "none"
<1>1. Len(<<>>) <= StoreCap /\ <<>> \in Lists
  BY ElementsOfNone, CapsAssumption
<1>2. /\ recovery' \in Server!Recoveries /\ recovery'.messages = <<>>
      /\ recovery'.session = recovery.session /\ recovery'.state = "none"
  BY <1>1 DEF RecoveryTyped, Server!Recoveries, Lists
<1> QED BY <1>1, <1>2 DEF RecoveryTyped

\* Every step of the server: what it does to files and recovery, and that
\* every call keeps its promises.
LEMMA ServerSteps ==
  ASSUME SInv, Server!Next
  PROVE  ServerMoves /\ Promises'
<1>0. /\ Typed /\ ServerTyped /\ CallsTyped /\ RecoveryTyped /\ AnswersTyped
      /\ \A k \in Turns : Told(k) /\ Due(k)
  BY DEF SInv, Typed, Promises
<1>t. Server!Turns = Turns
  BY DEF Server!Turns, Turns
<1>f. UNCHANGED faults \/ Server!Fault => faults' \in Nat
  BY <1>0 DEF ServerTyped, Server!Fault
<1>n. ASSUME calls' = calls, Grows PROVE Kin /\ Promises'
  <2>1. Kin
    BY <1>0, <1>n, NoneChanges
  <2>2. \A k \in Turns : Told(k)' /\ Due(k)'
    BY <1>0, <1>n, <2>1, OthersPromise
  <2> QED BY <2>1, <2>2 DEF Promises
<1>1. CASE Server!Start
  <2>1. UNCHANGED <<store, calls, recovery, loop, warned>>
    BY <1>1 DEF Server!Start
  <2>2. /\ server' \in {"ready", "broken"} /\ storage' \in BOOLEAN
        /\ UNCHANGED faults \/ Server!Fault
    BY <1>1 DEF Server!Start, Server!AgentsFail
  <2>3. ServerTyped'
    BY <1>0, <1>f, <2>1, <2>2 DEF ServerTyped
  <2> QED BY <1>0, <1>n, <2>1, <2>3, FilesStay, RecoveryStays DEF ServerMoves
<1>2. CASE Server!GetSession
  <2>1. UNCHANGED <<server, storage, store, loop, warned, faults, calls>>
    BY <1>2 DEF Server!GetSession, Server!serverVars
  <2>2. ServerTyped'
    BY <1>0, <2>1 DEF ServerTyped
  <2>3. recovery.session \in Sessions /\ recovery.messages \in Lists
    BY <1>0 DEF RecoveryTyped, Server!Recoveries, Lists
  <2>4. RecoveryTyped' /\ RecoveryFlows
    <3>1. CASE recovery' = [recovery EXCEPT
                              !.state = "headers",
                              !.messages = store[recovery.session]]
      <4> DEFINE list == store[recovery.session]
      <4>1. list \in Lists /\ Len(list) <= StoreCap
        BY <1>0, <2>3 DEF ServerTyped
      <4>2. recovery' = [recovery EXCEPT !.state = "headers", !.messages = list]
        BY <3>1
      <4>a. list = store[recovery.session]
        OBVIOUS
      <4> HIDE DEF list
      <4>3. /\ recovery' \in Server!Recoveries /\ recovery'.messages = list
            /\ recovery'.session = recovery.session
        BY <1>0, <4>1, <4>2 DEF RecoveryTyped, Server!Recoveries, Lists
      <4>4. recovery.state # "none"
        BY <1>2 DEF Server!GetSession
      <4> QED BY <4>1, <4>3, <4>4, <4>a DEF RecoveryTyped, RecoveryFlows
    <3>2. CASE recovery' = [recovery EXCEPT !.state = "none"]
      <4>1. /\ recovery' \in Server!Recoveries
            /\ recovery'.messages = recovery.messages
            /\ recovery'.session = recovery.session
            /\ recovery'.state = "none"
        BY <1>0, <3>2 DEF RecoveryTyped, Server!Recoveries
      <4> QED BY <1>0, <4>1 DEF RecoveryTyped, RecoveryFlows
    <3> QED BY <1>2, <3>1, <3>2 DEF Server!GetSession
  <2> QED BY <1>0, <1>n, <2>1, <2>2, <2>4, FilesStay DEF ServerMoves
<1>3. CASE Server!Die
  <2>1. /\ UNCHANGED <<store, warned>> /\ Server!Fault
        /\ server' = "down" /\ storage' = FALSE /\ loop' = 0
    BY <1>3 DEF Server!Die
  <2>2. ServerTyped' /\ Grows /\ FilesFlow
    <3>1. 0 \in 0..MaxTurns
      BY BoundsAssumption
    <3>2. faults' \in Nat
      BY <1>f, <2>1
    <3>3. ServerTyped'
      BY <1>0, <2>1, <3>1, <3>2 DEF ServerTyped
    <3> QED BY <1>0, <2>1, <3>3, FilesStay
  <2>3. RecoveryTyped' /\ RecoveryFlows
    <3>1. CASE recovery' = [recovery EXCEPT !.state = "none", !.messages = <<>>]
      BY <1>0, <3>1, RecoveryOver, ElementsOfNone DEF RecoveryFlows
    <3>2. CASE UNCHANGED recovery
      BY <1>0, <3>2, RecoveryStays
    <3> QED BY <1>3, <3>1, <3>2 DEF Server!Die
  <2>4. ASSUME NEW k \in Turns
        PROVE  /\ calls'[k] \in Server!Calls
               /\ calls'[k].session = calls[k].session
               /\ calls'[k].messages = calls[k].messages
               /\ calls'[k].answer = calls[k].answer
               /\ calls'[k].state = "none" <=> calls[k].state = "none"
               /\ \/ calls'[k] = calls[k]
                  \/ /\ calls'[k].state = "over"
                     /\ calls'[k].events = IF calls[k].connected
                                           THEN calls[k].events \o <<"reset">>
                                           ELSE calls[k].events
    <3> DEFINE events == IF calls[k].connected
                         THEN Append(calls[k].events, "reset")
                         ELSE calls[k].events
    <3>1. calls[k] \in Server!Calls /\ calls[k].events \in Seq(Server!Events)
      BY <1>0 DEF CallsTyped, Server!Calls
    <3>2. events \in Seq(Server!Events)
      BY <3>1 DEF Server!Events
    <3>3. Append(calls[k].events, "reset") = calls[k].events \o <<"reset">>
      BY <3>1, AppendIsConcat DEF Server!Events
    <3>4. calls'[k] = IF calls[k].state \in {"none", "sent", "over"} THEN calls[k]
                     ELSE [calls[k] EXCEPT !.state = "over", !.events = events]
      BY <1>3, <1>t DEF Server!Die
    <3>a. events = IF calls[k].connected THEN Append(calls[k].events, "reset")
                   ELSE calls[k].events
      OBVIOUS
    <3> HIDE DEF events
    <3>5. CASE calls[k].state \in {"none", "sent", "over"}
      BY <3>1, <3>4, <3>5
    <3>6. CASE calls[k].state \notin {"none", "sent", "over"}
      <4>1. calls'[k] = [calls[k] EXCEPT !.state = "over", !.events = events]
        BY <3>4, <3>6
      <4>2. calls'[k] \in Server!Calls
        BY <3>1, <3>2, <4>1 DEF Server!Calls
      <4>3. /\ calls'[k].session = calls[k].session
            /\ calls'[k].messages = calls[k].messages
            /\ calls'[k].answer = calls[k].answer
            /\ calls'[k].state = "over" /\ calls'[k].events = events
        BY <3>1, <4>1 DEF Server!Calls
      <4> QED BY <3>3, <3>6, <3>a, <4>2, <4>3
    <3> QED BY <3>5, <3>6
  <2>5. Kin
    <3>1. calls' = [k \in Turns |-> calls'[k]]
      BY <1>3, <1>t DEF Server!Die
    <3>2. CallsTyped'
      BY <2>4, <3>1 DEF CallsTyped
    <3> QED BY <2>4, <3>2 DEF Kin
  <2>6. ASSUME NEW k \in Turns PROVE Told(k)' /\ Due(k)'
    <3>1. CASE calls'[k] = calls[k]
      BY <1>0, <2>2, <2>5, <3>1, OthersPromise
    <3>2. CASE /\ calls'[k].state = "over"
               /\ calls'[k].events = IF calls[k].connected
                                     THEN calls[k].events \o <<"reset">>
                                     ELSE calls[k].events
      <4>1. "reset" \in Server!Events
        BY DEF Server!Events
      <4>2. Told(k)'
        BY <1>0, <2>2, <2>5, <3>2, <4>1, OneMoreEvent
      <4> QED BY <3>2, <4>2 DEF Due
    <3> QED BY <2>4, <3>1, <3>2
  <2> QED BY <2>2, <2>3, <2>5, <2>6 DEF ServerMoves, Promises
<1>4. ASSUME NEW n \in Turns, Server!Accept(n)
      PROVE  ServerMoves /\ Promises'
  <2>1. /\ UNCHANGED <<server, storage, store, recovery, warned, faults>>
        /\ calls[n].state = "sent" /\ loop' \in {loop, n}
    BY <1>4 DEF Server!Accept
  <2>2. ServerTyped' /\ Grows /\ FilesFlow
    <3>1. loop' \in 0..MaxTurns
      BY <1>0, <2>1, BoundsAssumption DEF ServerTyped, Turns
    <3>2. ServerTyped'
      BY <1>0, <2>1, <3>1 DEF ServerTyped
    <3> QED BY <1>0, <2>1, <3>2, FilesStay
  <2>3. RecoveryTyped' /\ RecoveryFlows
    BY <1>0, <2>1, RecoveryStays
  <2>4. CASE Server!Step(n, "over", <<"reset">>)
    <3>1. "reset" \in Server!Events /\ "over" \in States \ {"none"}
          /\ <<"reset">> \in Seq(Server!Events)
      BY EventLists DEF Server!Events, States
    <3>2. Kin
      BY <1>0, <2>1, <2>4, <3>1, StepIs
    <3>3. Promises'
      BY <2>1, <2>2, <2>4, <3>1, CallSteps
    <3> QED BY <2>2, <2>3, <3>2, <3>3 DEF ServerMoves
  <2>5. ASSUME NEW state \in {"streaming", "running"}, Server!Step(n, state, <<>>)
        PROVE  ServerMoves /\ Promises'
    <3>1. state \in States \ {"none"} /\ <<>> \in Seq(Server!Events)
      BY EventLists DEF States
    <3>2. /\ Kin /\ (\A k \in Turns : k # n => calls'[k] = calls[k])
          /\ calls'[n].state = state
          /\ calls'[n].events = IF calls[n].connected
                                THEN calls[n].events \o <<>> ELSE calls[n].events
      BY <1>0, <2>1, <2>5, <3>1, StepIs
    <3>3. calls'[n].events = calls[n].events
      BY <1>0, <3>2, NothingTold
    <3>4. Due(n)'
      BY <3>2 DEF Due
    <3>5. Promises'
      BY <2>2, <3>2, <3>3, <3>4, CallIsSilent
    <3> QED BY <2>2, <2>3, <3>2, <3>5 DEF ServerMoves
  <2> QED BY <1>4, <2>4, <2>5 DEF Server!Accept
<1>5. ASSUME NEW n \in Turns, Server!YieldTool(n)
      PROVE  ServerMoves /\ Promises'
  <2>1. /\ UNCHANGED <<server, storage, store, loop, warned, faults, recovery>>
        /\ calls[n].state = "streaming" /\ Server!Step(n, "acting", <<"tool">>)
    BY <1>5 DEF Server!YieldTool, Server!serverVars
  <2>2. /\ ServerTyped' /\ Grows /\ FilesFlow
        /\ RecoveryTyped' /\ RecoveryFlows
    BY <1>0, <2>1, FilesStay, RecoveryStays DEF ServerTyped
  <2>3. "tool" \in Server!Events /\ "acting" \in States \ {"none"}
        /\ <<"tool">> \in Seq(Server!Events)
    BY EventLists DEF Server!Events, States
  <2>4. Kin
    BY <1>0, <2>1, <2>3, StepIs
  <2>5. Promises'
    BY <2>1, <2>2, <2>3, CallSteps
  <2> QED BY <2>2, <2>4, <2>5 DEF ServerMoves
<1>6. ASSUME NEW n \in Turns, Server!YieldDone(n)
      PROVE  ServerMoves /\ Promises'
  <2>1. /\ UNCHANGED <<server, storage, store, loop, warned, faults, recovery>>
        /\ calls[n].state # "none"
    BY <1>6 DEF Server!YieldDone, Server!Streaming, Server!serverVars
  <2>2. /\ ServerTyped' /\ Grows /\ FilesFlow
        /\ RecoveryTyped' /\ RecoveryFlows
    BY <1>0, <2>1, FilesStay, RecoveryStays DEF ServerTyped
  <2> DEFINE events == IF calls[n].connected
                       THEN Append(calls[n].events, "done") ELSE calls[n].events
  <2>3. calls[n].events \in Seq(Server!Events) /\ "done" \in Server!Events
    BY <1>0 DEF CallsTyped, Server!Calls, Server!Events
  <2>4. /\ events \in Seq(Server!Events)
        /\ events = IF calls[n].connected THEN calls[n].events \o <<"done">>
                    ELSE calls[n].events
    BY <2>3, AppendProperties, AppendIsConcat
  <2>5. calls' = [calls EXCEPT
                    ![n] = [calls[n] EXCEPT !.state = "ending",
                                            !.answer = <<Answer(n)>>,
                                            !.events = events]]
    BY <1>0, <1>6 DEF Server!YieldDone, CallsTyped, Answer, Server!Message,
                      Page!Message
  <2> HIDE DEF events
  <2>6. /\ Kin /\ (\A k \in Turns : k # n => calls'[k] = calls[k])
        /\ calls'[n].state = "ending" /\ calls'[n].answer = <<Answer(n)>>
        /\ calls'[n].events = events
    BY <1>0, <2>1, <2>4, <2>5, AnswerIs DEF States
  <2>7. Told(n)'
    BY <1>0, <2>2, <2>3, <2>4, <2>6, OneMoreEvent
  <2>8. Due(n)'
    BY <2>6 DEF Due, Answer
  <2>9. ASSUME NEW k \in Turns, k # n PROVE Told(k)' /\ Due(k)'
    BY <1>0, <2>2, <2>6, <2>9, OthersPromise
  <2> QED BY <2>2, <2>6, <2>7, <2>8, <2>9 DEF ServerMoves, Promises
<1>7. ASSUME NEW n \in Turns, Server!YieldError(n)
      PROVE  ServerMoves /\ Promises'
  <2>1. /\ UNCHANGED <<server, storage, store, loop, warned, recovery>>
        /\ calls[n].state # "none" /\ Server!Step(n, "ending", <<"error">>)
        /\ UNCHANGED faults \/ Server!Fault
    BY <1>7 DEF Server!YieldError, Server!Streaming
  <2>2. /\ ServerTyped' /\ Grows /\ FilesFlow
        /\ RecoveryTyped' /\ RecoveryFlows
    BY <1>0, <1>f, <2>1, FilesStay, RecoveryStays DEF ServerTyped
  <2>3. "error" \in Server!Events /\ "ending" \in States \ {"none"}
        /\ <<"error">> \in Seq(Server!Events)
    BY EventLists DEF Server!Events, States
  <2>4. Kin
    BY <1>0, <2>1, <2>3, StepIs
  <2>5. Promises'
    BY <2>1, <2>2, <2>3, CallSteps
  <2> QED BY <2>2, <2>4, <2>5 DEF ServerMoves
<1>8. ASSUME NEW n \in Turns, Server!YieldTerminator(n)
      PROVE  ServerMoves /\ Promises'
  <2>1. /\ UNCHANGED <<server, storage, store, loop, warned, faults, recovery>>
        /\ calls[n].state = "ending" /\ Server!Step(n, "terminated", <<"[DONE]">>)
    BY <1>8 DEF Server!YieldTerminator, Server!serverVars
  <2>2. /\ ServerTyped' /\ Grows /\ FilesFlow
        /\ RecoveryTyped' /\ RecoveryFlows
    BY <1>0, <2>1, FilesStay, RecoveryStays DEF ServerTyped
  <2>3. "[DONE]" \in Server!Events /\ "terminated" \in States \ {"none"}
        /\ <<"[DONE]">> \in Seq(Server!Events)
    BY EventLists DEF Server!Events, States
  <2>4. Kin
    BY <1>0, <2>1, <2>3, StepIs
  <2>5. calls[n].connected => \/ calls[n].answer = <<Answer(n)>>
                              \/ HasError(calls[n].events)
    BY <1>0, <2>1 DEF Due
  <2>6. Promises'
    BY <2>1, <2>2, <2>3, <2>5, CallSteps
  <2> QED BY <2>2, <2>4, <2>6 DEF ServerMoves
<1>9. ASSUME NEW n \in Turns, Server!EndStream(n)
      PROVE  ServerMoves /\ Promises'
  <2>1. /\ UNCHANGED <<server, storage, recovery, loop>>
        /\ calls[n].state = "terminated" /\ Server!Step(n, "over", <<"close">>)
        /\ Server!PersistTurn(n)
    BY <1>9 DEF Server!EndStream
  <2>2. "close" \in Server!Events /\ "over" \in States \ {"none"}
        /\ <<"close">> \in Seq(Server!Events)
    BY EventLists DEF Server!Events, States
  <2>3. Kin
    BY <1>0, <2>1, <2>2, StepIs
  <2>4. /\ ServerTyped' /\ Grows /\ FilesFlow
        /\ calls[n].answer = <<Answer(n)>> => OnRecord(Answer(n))'
    BY <1>0, <2>1, <2>3, PersistTurnIs
  <2>5. calls[n].connected => \/ calls[n].answer = <<Answer(n)>>
                              \/ HasError(calls[n].events)
    BY <1>0, <2>1 DEF Due
  <2>6. Promises'
    BY <2>1, <2>2, <2>4, <2>5, CallSteps
  <2> QED BY <1>0, <2>1, <2>3, <2>4, <2>6, RecoveryStays DEF ServerMoves
<1>10. ASSUME NEW n \in Turns, Server!CancelStream(n)
       PROVE  ServerMoves /\ Promises'
  <2>1. /\ UNCHANGED <<server, storage, store, loop, warned, faults, recovery>>
        /\ calls[n].state # "none" /\ Server!Step(n, "over", <<>>)
    BY <1>10 DEF Server!CancelStream, Server!Streaming, Server!serverVars
  <2>2. /\ ServerTyped' /\ Grows /\ FilesFlow
        /\ RecoveryTyped' /\ RecoveryFlows
    BY <1>0, <2>1, FilesStay, RecoveryStays DEF ServerTyped
  <2>3. "over" \in States \ {"none"} /\ <<>> \in Seq(Server!Events)
    BY EventLists DEF States
  <2>4. /\ Kin /\ (\A k \in Turns : k # n => calls'[k] = calls[k])
        /\ calls'[n].state = "over"
        /\ calls'[n].events = IF calls[n].connected
                              THEN calls[n].events \o <<>> ELSE calls[n].events
    BY <1>0, <2>1, <2>3, StepIs
  <2>5. calls'[n].events = calls[n].events
    BY <1>0, <2>4, NothingTold
  <2>6. Due(n)'
    BY <2>4 DEF Due
  <2>7. Promises'
    BY <2>2, <2>4, <2>5, <2>6, CallIsSilent
  <2> QED BY <2>2, <2>4, <2>7 DEF ServerMoves
<1>11. ASSUME NEW n \in Turns, Server!Run(n)
       PROVE  ServerMoves /\ Promises'
  <2>1. /\ UNCHANGED <<server, storage, store, warned, recovery>>
        /\ calls[n].state # "none" /\ loop' \in {loop, 0}
        /\ UNCHANGED faults \/ Server!Fault
    BY <1>11 DEF Server!Run
  <2>2. /\ ServerTyped' /\ Grows /\ FilesFlow
        /\ RecoveryTyped' /\ RecoveryFlows
    <3>1. loop' \in 0..MaxTurns
      BY <1>0, <2>1, BoundsAssumption DEF ServerTyped
    <3>2. faults' \in Nat
      BY <1>f, <2>1
    <3>3. ServerTyped'
      BY <1>0, <2>1, <3>1, <3>2 DEF ServerTyped
    <3> QED BY <1>0, <2>1, <3>3, FilesStay, RecoveryStays
  <2>3. CASE Server!Step(n, "over", <<"reset">>)
    <3>1. "reset" \in Server!Events /\ "over" \in States \ {"none"}
          /\ <<"reset">> \in Seq(Server!Events)
      BY EventLists DEF Server!Events, States
    <3>2. Kin
      BY <1>0, <2>1, <2>3, <3>1, StepIs
    <3>3. Promises'
      BY <2>1, <2>2, <2>3, <3>1, CallSteps
    <3> QED BY <2>2, <3>2, <3>3 DEF ServerMoves
  <2>4. CASE calls' = [calls EXCEPT
                         ![n].state = "ran",
                         ![n].answer = <<Server!Message("assistant", n)>>]
    <3> DEFINE events == calls[n].events
    <3>1. events \in Seq(Server!Events)
      BY <1>0 DEF CallsTyped, Server!Calls
    <3>2. calls[n] \in Server!Calls
      BY <1>0 DEF CallsTyped
    <3>3. [calls[n] EXCEPT !.state = "ran", !.answer = <<Answer(n)>>] =
            [calls[n] EXCEPT !.state = "ran", !.answer = <<Answer(n)>>,
                             !.events = events]
      BY <3>2 DEF Server!Calls
    <3>4. calls' = [calls EXCEPT
                      ![n] = [calls[n] EXCEPT !.state = "ran",
                                              !.answer = <<Answer(n)>>]]
      BY <1>0, <2>4 DEF CallsTyped, Answer, Server!Message, Page!Message
    <3>a. events = calls[n].events
      OBVIOUS
    <3> HIDE DEF events
    <3>b. calls' = [calls EXCEPT
                      ![n] = [calls[n] EXCEPT !.state = "ran",
                                              !.answer = <<Answer(n)>>,
                                              !.events = events]]
      BY <3>3, <3>4
    <3>5. /\ Kin /\ (\A k \in Turns : k # n => calls'[k] = calls[k])
          /\ calls'[n].state = "ran" /\ calls'[n].answer = <<Answer(n)>>
          /\ calls'[n].events = calls[n].events
      BY <1>0, <2>1, <3>1, <3>b, <3>a, AnswerIs DEF States
    <3>6. Due(n)'
      BY <3>5 DEF Due, Answer
    <3>7. Promises'
      BY <2>2, <3>5, <3>6, CallIsSilent
    <3> QED BY <2>2, <3>5, <3>7 DEF ServerMoves
  <2> QED BY <1>11, <2>3, <2>4 DEF Server!Run
<1>12. ASSUME NEW n \in Turns, Server!Save(n)
       PROVE  ServerMoves /\ Promises'
  <2>1. /\ UNCHANGED <<server, storage, recovery, loop>>
        /\ calls[n].state = "ran" /\ Server!Step(n, "saved", <<>>)
        /\ Server!PersistTurn(n)
    BY <1>12 DEF Server!Save
  <2>2. "saved" \in States \ {"none"} /\ <<>> \in Seq(Server!Events)
    BY EventLists DEF States
  <2>3. /\ Kin /\ (\A k \in Turns : k # n => calls'[k] = calls[k])
        /\ calls'[n].state = "saved"
        /\ calls'[n].events = IF calls[n].connected
                              THEN calls[n].events \o <<>> ELSE calls[n].events
    BY <1>0, <2>1, <2>2, StepIs
  <2>4. calls'[n].events = calls[n].events
    BY <1>0, <2>3, NothingTold
  <2>5. /\ ServerTyped' /\ Grows /\ FilesFlow
        /\ calls[n].answer = <<Answer(n)>> => OnRecord(Answer(n))'
    BY <1>0, <2>1, <2>3, PersistTurnIs
  <2>6. OnRecord(Answer(n))'
    BY <1>0, <2>1, <2>5 DEF Due
  <2>7. Due(n)'
    BY <2>3, <2>6 DEF Due, Answer
  <2>8. Promises'
    BY <2>3, <2>4, <2>5, <2>7, CallIsSilent
  <2> QED BY <1>0, <2>1, <2>3, <2>5, <2>8, RecoveryStays DEF ServerMoves
<1>13. ASSUME NEW n \in Turns, Server!Respond(n)
       PROVE  ServerMoves /\ Promises'
  <2>1. /\ UNCHANGED <<server, storage, store, warned, faults, recovery>>
        /\ calls[n].state = "saved" /\ loop' = 0
        /\ Server!Step(n, "over", <<"response">>)
    BY <1>13 DEF Server!Respond
  <2>2. /\ ServerTyped' /\ Grows /\ FilesFlow
        /\ RecoveryTyped' /\ RecoveryFlows
    <3>1. loop' \in 0..MaxTurns
      BY <2>1, BoundsAssumption
    <3>2. ServerTyped'
      BY <1>0, <2>1, <3>1 DEF ServerTyped
    <3> QED BY <1>0, <2>1, <3>2, FilesStay, RecoveryStays
  <2>3. "response" \in Server!Events /\ "over" \in States \ {"none"}
        /\ <<"response">> \in Seq(Server!Events)
    BY EventLists DEF Server!Events, States
  <2>4. Kin
    BY <1>0, <2>1, <2>3, StepIs
  <2>5. OnRecord(Answer(n))'
    <3>1. OnRecord(Answer(n))
      BY <1>0, <2>1 DEF Due
    <3> QED BY <1>0, <2>2, <2>4, <3>1, RecordStays, AnswerIsMessage
  <2>6. Promises'
    BY <2>1, <2>2, <2>3, <2>5, CallSteps
  <2> QED BY <2>2, <2>4, <2>6 DEF ServerMoves
<1> QED
  BY <1>1, <1>2, <1>3, <1>4, <1>5, <1>6, <1>7, <1>8, <1>9, <1>10, <1>11, <1>12,
     <1>13, <1>t DEF Server!Next, Server!Handle

-----------------------------------------------------------------------------
(* The invariant: where the messages in every list come from.               *)

\* What the page may show: a message of a turn asked, an answer on record.
Shown(m) == m.turn <= turns /\ (m.role = "assistant" => OnRecord(m))

\* What is known elsewhere: send has not made the call of the turn it is about
\* to ask, and nothing but the page knows of that turn.
Known(m) == Shown(m) /\ (pc = "classify" => m.turn < turns)

AllKnown(list) == \A m \in Elements(list) : Known(m)

Traced ==
  /\ \A m \in Elements(messages) \cup Elements(stored) : Shown(m)
  /\ AllKnown(recovery.messages)
  /\ \A s \in Sessions : AllKnown(store[s])
  /\ \A n \in Turns : AllKnown(calls[n].messages)

\* send reads the answer of a call it has made; no call is made ahead of it.
Cursor ==
  /\ pc = "read" => calls[turns].state # "none"
  /\ \A n \in Turns : calls[n].state # "none" =>
       n <= turns /\ (pc = "classify" => n < turns)

\* Every list, and what is under way, belongs to one session.
Separate ==
  ~switched =>
    /\ OfSession(messages, session) /\ OfSession(stored, session)
    /\ \A s \in Sessions : OfSession(store[s], s)
    /\ \A n \in Turns : OfSession(calls[n].messages, calls[n].session)
    /\ OfSession(recovery.messages, recovery.session)
    /\ recovery.state # "none" => recovery.session = session
    /\ pc = "read" => calls[turns].session = session

PInv == Cursor /\ Traced /\ Separate /\ StoredIsShown
IInv == SInv /\ PInv

\* The page's clock goes forward: no step but those of send moves it, and send
\* starts with the next turn.
Later ==
  /\ turns <= turns'
  /\ pc' = "classify" => turns < turns' \/ (pc = "classify" /\ turns' = turns)
  /\ pc' = "read" => pc = "read" /\ turns' = turns

-----------------------------------------------------------------------------
(* What stays true of a message.                                            *)

\* What a list contains is a message of some turn.
LEMMA ElementIs ==
  ASSUME NEW l \in Lists, NEW m \in Elements(l)
  PROVE  m \in Server!Messages /\ m.turn \in Turns
<1>1. m \in Server!Messages
  BY ElementOfSeq DEF Elements, Lists
<1> QED BY <1>1 DEF Server!Messages, Server!Turns, Turns

\* What is shown, and what is known, of a message stays true.
LEMMA KnownStays ==
  ASSUME ServerTyped, CallsTyped, PageTyped, PageTyped', Kin, Grows, Later,
         NEW m, m.turn \in Turns
  PROVE  (Shown(m) => Shown(m)') /\ (Known(m) => Known(m)')
<1>1. OnRecord(m) => OnRecord(m)'
  BY RecordStays
<1>2. m.turn \in Nat /\ turns \in Nat /\ turns' \in Nat
  BY DEF Turns, PageTyped
<1>3. Shown(m) => Shown(m)'
  <2>1. m.turn <= turns => m.turn <= turns'
    BY <1>2 DEF Later
  <2> QED BY <1>1, <2>1 DEF Shown
<1>4. Known(m) => (pc' = "classify" => m.turn < turns')
  BY <1>2 DEF Known, Shown, Later
<1> QED BY <1>3, <1>4 DEF Known

\* A list that belongs to a session goes on belonging to it.
LEMMA OfSessionStays ==
  ASSUME CallsTyped, Kin, NEW l \in Lists, NEW s, OfSession(l, s)
  PROVE  OfSession(l, s)'
<1> SUFFICES ASSUME NEW m \in Elements(l), m.role \in {"user", "assistant"},
                    calls'[m.turn].state # "none"
             PROVE  calls'[m.turn].session = s
  BY DEF OfSession, Elements
<1>1. m.turn \in Turns
  BY ElementIs
<1> QED BY <1>1 DEF OfSession, Kin

\* send keeps its place among the calls.
LEMMA CursorStays ==
  ASSUME CallsTyped, PageTyped, PageTyped', Kin, Later, Cursor
  PROVE  Cursor'
<1>1. turns \in Nat /\ turns' \in Nat /\ \A n \in Turns : n \in Nat
  BY DEF PageTyped, Turns
<1>2. ASSUME NEW n \in Turns, calls'[n].state # "none"
      PROVE  n <= turns' /\ (pc' = "classify" => n < turns')
  <2>1. n <= turns /\ (pc = "classify" => n < turns)
    BY <1>2 DEF Kin, Cursor
  <2> QED BY <1>1, <2>1 DEF Later
<1>3. pc' = "read" => calls'[turns'].state # "none"
  <2> SUFFICES ASSUME pc' = "read" PROVE calls'[turns'].state # "none"
    OBVIOUS
  <2>1. pc = "read" /\ turns' = turns /\ turns \in Turns
    BY DEF Later, PageTyped
  <2> QED BY <2>1 DEF Cursor, Kin
<1> QED BY <1>2, <1>3 DEF Cursor

\* A step of the server keeps what the page relies on.
LEMMA ServerKeeps ==
  ASSUME IInv, ServerMoves, Promises', UNCHANGED pageVars
  PROVE  IInv'
<1>0. /\ ServerTyped /\ CallsTyped /\ RecoveryTyped /\ PageTyped
      /\ AnswersTyped /\ Cursor /\ Traced /\ Separate /\ StoredIsShown
      /\ Kin /\ Grows /\ FilesFlow /\ RecoveryFlows
      /\ ServerTyped' /\ CallsTyped' /\ RecoveryTyped'
  BY DEF IInv, SInv, PInv, Typed, ServerMoves, Kin
<1>1. PageTyped' /\ Later /\ StoredIsShown'
  <2>1. UNCHANGED <<messages, stored, session, pc, turns, reloads, switched>>
    BY DEF pageVars
  <2>2. turns <= turns
    BY <1>0 DEF PageTyped
  <2> QED BY <1>0, <2>1, <2>2 DEF PageTyped, Later, StoredIsShown
<1>2. AnswersTyped'
  BY <1>0 DEF AnswersTyped, Kin, Answer
<1>3. Cursor'
  BY <1>0, <1>1, CursorStays
<1>l. /\ messages \in Lists /\ stored \in Lists /\ recovery.messages \in Lists
      /\ \A s \in Sessions : store[s] \in Lists /\ store'[s] \in Lists
      /\ \A n \in Turns : /\ calls[n].messages \in Lists
                          /\ calls[n].session \in Sessions
      /\ recovery.session \in Sessions
  BY <1>0 DEF PageTyped, ServerTyped, CallsTyped, RecoveryTyped, Server!Calls,
              Server!Recoveries, Lists
<1>k. \A m : m.turn \in Turns =>
        (Shown(m) => Shown(m)') /\ (Known(m) => Known(m)')
  BY <1>0, <1>1, KnownStays
<1>4. Traced'
  <2>1. \A m \in Elements(messages') \cup Elements(stored') : Shown(m)'
    <3>1. messages' = messages /\ stored' = stored
      BY DEF pageVars
    <3> QED BY <1>0, <1>l, <1>k, <3>1, ElementIs DEF Traced
  <2>2. \A s \in Sessions : \A m \in Elements(store[s]) : Known(m)'
    BY <1>0, <1>l, <1>k, ElementIs DEF Traced, AllKnown
  <2>3. \A n \in Turns : \A m \in Elements(calls[n].messages) : Known(m)'
    BY <1>0, <1>l, <1>k, ElementIs DEF Traced, AllKnown
  <2>4. \A m \in Elements(recovery'.messages) : Known(m)'
    <3>1. \A m \in Elements(recovery.messages) : Known(m)'
      BY <1>0, <1>l, <1>k, ElementIs DEF Traced, AllKnown
    <3> QED BY <1>0, <1>l, <2>2, <3>1 DEF RecoveryFlows
  <2>5. ASSUME NEW s \in Sessions, NEW m \in Elements(store'[s]) PROVE Known(m)'
    <3>1. CASE m \in Elements(store[s])
      BY <2>2, <3>1
    <3>2. ASSUME NEW n \in Turns, calls[n].state # "none",
                 m \in Elements(calls[n].messages)
          PROVE  Known(m)'
      BY <2>3, <3>2
    <3>3. ASSUME NEW n \in Turns, calls[n].state # "none",
                 calls[n].session = s, m = Answer(n)
          PROVE  Known(m)'
      <4>1. m.turn = n
        BY <3>3, AnswerIsMessage
      <4>2. calls'[n].state # "none" /\ calls'[n].session = s
        BY <1>0, <3>3 DEF Kin
      <4>3. OnRecord(m)'
        BY <2>5, <4>1, <4>2 DEF OnRecord
      <4>4. n <= turns' /\ (pc' = "classify" => n < turns')
        BY <1>3, <4>2 DEF Cursor
      <4> QED BY <4>1, <4>3, <4>4 DEF Known, Shown
    <3> QED BY <1>0, <3>1, <3>2, <3>3 DEF FilesFlow
  <2>6. \A n \in Turns : calls'[n].messages = calls[n].messages
    BY <1>0 DEF Kin
  <2> QED BY <2>1, <2>3, <2>4, <2>5, <2>6 DEF Traced, AllKnown
<1>5. Separate'
  <2> SUFFICES ASSUME ~switched' PROVE Separate'
    BY DEF Separate
  <2>1. /\ ~switched /\ messages' = messages /\ stored' = stored
        /\ session' = session /\ pc' = pc /\ turns' = turns
    BY DEF pageVars
  <2>2. OfSession(messages, session)' /\ OfSession(stored, session)'
    <3>1. OfSession(messages, session) /\ OfSession(stored, session)
      BY <1>0, <2>1 DEF Separate
    <3> QED BY <1>0, <1>l, <2>1, <3>1, OfSessionStays DEF OfSession
  <2>3. ASSUME NEW s \in Sessions, NEW m \in Elements(store[s]),
               m.role \in {"user", "assistant"}, calls'[m.turn].state # "none"
        PROVE  calls'[m.turn].session = s
    <3>1. m.turn \in Turns /\ OfSession(store[s], s)
      BY <1>0, <1>l, <2>1, ElementIs DEF Separate
    <3> QED BY <1>0, <2>3, <3>1 DEF OfSession, Kin
  <2>4. ASSUME NEW n \in Turns, NEW m \in Elements(calls[n].messages),
               m.role \in {"user", "assistant"}, calls'[m.turn].state # "none"
        PROVE  calls'[m.turn].session = calls[n].session
    <3>1. m.turn \in Turns /\ OfSession(calls[n].messages, calls[n].session)
      BY <1>0, <1>l, <2>1, ElementIs DEF Separate
    <3> QED BY <1>0, <2>4, <3>1 DEF OfSession, Kin
  <2>5. ASSUME NEW s \in Sessions, NEW m \in Elements(store'[s]),
               m.role \in {"user", "assistant"}, calls'[m.turn].state # "none"
        PROVE  calls'[m.turn].session = s
    <3>1. CASE m \in Elements(store[s])
      BY <2>3, <2>5, <3>1
    <3>2. ASSUME NEW n \in Turns, calls[n].session = s,
                 m \in Elements(calls[n].messages)
          PROVE  calls'[m.turn].session = s
      BY <2>4, <2>5, <3>2
    <3>3. ASSUME NEW n \in Turns, calls[n].session = s, m = Answer(n)
          PROVE  calls'[m.turn].session = s
      BY <1>0, <3>3, AnswerIsMessage DEF Kin
    <3> QED BY <1>0, <3>1, <3>2, <3>3 DEF FilesFlow
  <2>6. OfSession(recovery.messages, recovery.session)'
    <3> SUFFICES ASSUME NEW m \in Elements(recovery'.messages),
                        m.role \in {"user", "assistant"},
                        calls'[m.turn].state # "none"
                 PROVE  calls'[m.turn].session = recovery'.session
      BY DEF OfSession, Elements
    <3>1. CASE m \in Elements(recovery.messages)
      <4>1. /\ m.turn \in Turns
            /\ OfSession(recovery.messages, recovery.session)
        BY <1>0, <1>l, <2>1, <3>1, ElementIs DEF Separate
      <4> QED BY <1>0, <3>1, <4>1 DEF OfSession, Kin, RecoveryFlows
    <3>2. CASE m \in Elements(store[recovery.session])
      BY <1>0, <1>l, <2>3, <3>2 DEF RecoveryFlows
    <3> QED BY <1>0, <3>1, <3>2 DEF RecoveryFlows
  <2>7. recovery'.state # "none" => recovery'.session = session'
    BY <1>0, <2>1 DEF RecoveryFlows, Separate
  <2>8. pc' = "read" => calls'[turns'].session = session'
    <3> SUFFICES ASSUME pc = "read" PROVE calls'[turns].session = session
      BY <2>1
    <3>1. turns \in Turns /\ calls[turns].session = session
      BY <1>0, <2>1 DEF PageTyped, Separate
    <3> QED BY <1>0, <3>1 DEF Kin
  <2>9. \A s \in Sessions : OfSession(store[s], s)'
    BY <2>5 DEF OfSession, Elements
  <2>10. \A n \in Turns : OfSession(calls[n].messages, calls[n].session)'
    <3>1. \A n \in Turns : /\ calls'[n].messages = calls[n].messages
                           /\ calls'[n].session = calls[n].session
      BY <1>0 DEF Kin
    <3> QED BY <2>4, <3>1 DEF OfSession, Elements
  <2> QED BY <2>2, <2>6, <2>7, <2>8, <2>9, <2>10 DEF Separate
<1> QED BY <1>0, <1>1, <1>2, <1>3, <1>4, <1>5 DEF IInv, SInv, PInv, Typed

-----------------------------------------------------------------------------
(* The steps of the page.                                                   *)

\* A message the page may add.
Fits(m) ==
  /\ Shown(m)
  /\ ~switched /\ m.role \in {"user", "assistant"}
       /\ calls[m.turn].state # "none" => calls[m.turn].session = session

\* Every step of the page but Classified: what it adds fits, the rest stays.
LEMMA PageKeeps ==
  ASSUME IInv, UNCHANGED serverVars, Kin, Later,
         PageTyped', RecoveryTyped', Promises', StoredIsShown',
         ~switched' => ~switched /\ (pc' = "read" => session' = session),
         \A m \in Elements(messages') \cup Elements(stored') :
           \/ m \in Elements(messages) \cup Elements(stored) /\ session' = session
           \/ Fits(m)',
         \/ recovery'.messages = <<>>
         \/ /\ recovery'.messages = recovery.messages
            /\ recovery'.session = recovery.session,
         ~switched' /\ recovery'.state # "none" => recovery'.session = session'
  PROVE  IInv'
<1>0. /\ ServerTyped /\ CallsTyped /\ RecoveryTyped /\ PageTyped
      /\ AnswersTyped /\ Cursor /\ Traced /\ Separate /\ StoredIsShown
      /\ store' = store /\ warned' = warned /\ Grows
      /\ ServerTyped' /\ CallsTyped'
  <2>1. Typed /\ ServerTyped /\ UNCHANGED <<server, storage, store, loop, warned,
                                            faults>>
    BY DEF IInv, SInv, Typed, serverVars
  <2> QED BY <2>1, FilesStay DEF IInv, SInv, PInv, Typed, ServerTyped, Kin
<1>1. AnswersTyped' /\ Cursor'
  BY <1>0, CursorStays DEF AnswersTyped, Kin, Answer
<1>l. /\ messages \in Lists /\ stored \in Lists /\ recovery.messages \in Lists
      /\ \A s \in Sessions : store[s] \in Lists
      /\ \A n \in Turns : calls[n].messages \in Lists
  BY <1>0 DEF PageTyped, ServerTyped, CallsTyped, RecoveryTyped, Server!Calls,
              Server!Recoveries, Lists
<1>k. \A m : m.turn \in Turns =>
        (Shown(m) => Shown(m)') /\ (Known(m) => Known(m)')
  BY <1>0, KnownStays
<1>2. Traced'
  <2>1. \A m \in Elements(messages) \cup Elements(stored) : Shown(m)'
    BY <1>0, <1>l, <1>k, ElementIs DEF Traced
  <2>2. \A m \in Elements(messages') \cup Elements(stored') : Shown(m)'
    BY <2>1 DEF Fits
  <2>3. \A m \in Elements(recovery'.messages) : Known(m)'
    <3>1. \A m \in Elements(recovery.messages) : Known(m)'
      BY <1>0, <1>l, <1>k, ElementIs DEF Traced, AllKnown
    <3> QED BY <3>1, ElementsOfNone
  <2>4. \A s \in Sessions : \A m \in Elements(store'[s]) : Known(m)'
    BY <1>0, <1>l, <1>k, ElementIs DEF Traced, AllKnown
  <2>5. \A n \in Turns : \A m \in Elements(calls'[n].messages) : Known(m)'
    BY <1>0, <1>l, <1>k, ElementIs DEF Traced, AllKnown, Kin
  <2> QED BY <2>2, <2>3, <2>4, <2>5 DEF Traced, AllKnown
<1>3. Separate'
  <2> SUFFICES ASSUME ~switched' PROVE Separate'
    BY DEF Separate
  <2>1. ~switched
    OBVIOUS
  <2>2. ASSUME NEW m \in Elements(messages') \cup Elements(stored'),
               m.role \in {"user", "assistant"}, calls'[m.turn].state # "none"
        PROVE  calls'[m.turn].session = session'
    <3>1. CASE m \in Elements(messages) \cup Elements(stored) /\ session' = session
      <4>1. m.turn \in Turns
        BY <1>l, <3>1, ElementIs
      <4>2. OfSession(messages, session) /\ OfSession(stored, session)
        BY <1>0, <2>1 DEF Separate
      <4> QED BY <1>0, <2>2, <3>1, <4>1, <4>2 DEF OfSession, Kin
    <3>2. CASE Fits(m)'
      BY <2>2, <3>2 DEF Fits
    <3> QED BY <3>1, <3>2
  <2>3. OfSession(recovery.messages, recovery.session)'
    <3>1. CASE recovery'.messages = <<>>
      BY <3>1, ElementsOfNone DEF OfSession, Elements
    <3>2. CASE /\ recovery'.messages = recovery.messages
               /\ recovery'.session = recovery.session
      <4>1. OfSession(recovery.messages, recovery.session)
        BY <1>0, <2>1 DEF Separate
      <4>2. \A m \in Elements(recovery.messages) : m.turn \in Turns
        BY <1>l, ElementIs
      <4> QED BY <1>0, <3>2, <4>1, <4>2 DEF OfSession, Kin, Elements
    <3> QED BY <3>1, <3>2
  <2>4. \A s \in Sessions : OfSession(store[s], s)'
    <3> SUFFICES ASSUME NEW s \in Sessions PROVE OfSession(store[s], s)'
      OBVIOUS
    <3>1. OfSession(store[s], s)
      BY <1>0, <2>1 DEF Separate
    <3>2. \A m \in Elements(store[s]) : m.turn \in Turns
      BY <1>l, ElementIs
    <3> QED BY <1>0, <3>1, <3>2 DEF OfSession, Kin, Elements
  <2>5. \A n \in Turns : OfSession(calls[n].messages, calls[n].session)'
    <3> SUFFICES ASSUME NEW n \in Turns
                 PROVE  OfSession(calls[n].messages, calls[n].session)'
      OBVIOUS
    <3>1. OfSession(calls[n].messages, calls[n].session)
      BY <1>0, <2>1 DEF Separate
    <3>2. \A m \in Elements(calls[n].messages) : m.turn \in Turns
      BY <1>l, ElementIs
    <3> QED BY <1>0, <3>1, <3>2 DEF OfSession, Kin, Elements
  <2>6. pc' = "read" => calls'[turns'].session = session'
    <3> SUFFICES ASSUME pc' = "read" PROVE calls'[turns'].session = session'
      OBVIOUS
    <3>1. pc = "read" /\ turns' = turns /\ session' = session /\ turns \in Turns
      BY <1>0 DEF Later, PageTyped
    <3>2. calls[turns].session = session
      BY <1>0, <2>1, <3>1 DEF Separate
    <3> QED BY <3>1, <3>2 DEF Kin
  <2>7. OfSession(messages, session)' /\ OfSession(stored, session)'
    BY <2>2 DEF OfSession, Elements
  <2> QED BY <2>3, <2>4, <2>5, <2>6, <2>7 DEF Separate
<1> QED BY <1>0, <1>1, <1>2, <1>3 DEF IInv, SInv, PInv, Typed

\* What the client does to a call: it takes events, or goes.
LEMMA ClientReads ==
  ASSUME CallsTyped, NEW n \in Turns, NEW events \in Seq(Server!Events),
         NEW connected \in BOOLEAN,
         calls' = [calls EXCEPT ![n].events = events, ![n].connected = connected]
  PROVE  /\ Kin /\ \A k \in Turns : k # n => calls'[k] = calls[k]
         /\ calls'[n].state = calls[n].state /\ calls'[n].answer = calls[n].answer
         /\ calls'[n].connected = connected /\ calls'[n].events = events
<1> DEFINE c == [calls[n] EXCEPT !.events = events, !.connected = connected]
<1>1. calls' = [calls EXCEPT ![n] = c] /\ calls[n] \in Server!Calls
  BY DEF CallsTyped
<1>2. /\ c.state = calls[n].state /\ c.events = events
      /\ c.session = calls[n].session /\ c.messages = calls[n].messages
      /\ c.answer = calls[n].answer /\ c.connected = connected
      /\ c \in Server!Calls
  BY <1>1 DEF Server!Calls
<1> HIDE DEF c
<1>3. calls'[n] = c /\ \A k \in Turns : k # n => calls'[k] = calls[k]
  BY <1>1 DEF CallsTyped
<1>4. Kin
  BY <1>1, <1>2, OneChanges
<1> QED BY <1>2, <1>3, <1>4

\* A client that has gone is promised nothing.
LEMMA ClientGoes ==
  ASSUME SInv, Grows, NEW n \in Turns,
         calls' = [calls EXCEPT ![n].events = <<>>, ![n].connected = FALSE]
  PROVE  Kin /\ Promises'
<1>0. ServerTyped /\ CallsTyped /\ \A k \in Turns : Told(k) /\ Due(k)
  BY DEF SInv, Typed, Promises
<1>1. /\ Kin /\ (\A k \in Turns : k # n => calls'[k] = calls[k])
      /\ calls'[n].state = calls[n].state /\ calls'[n].answer = calls[n].answer
      /\ calls'[n].connected = FALSE /\ calls'[n].events = <<>>
  BY <1>0, EventLists, ClientReads
<1>2. OnRecord(Answer(n)) => OnRecord(Answer(n))'
  BY <1>0, <1>1, RecordStays, AnswerIsMessage
<1>3. Told(n)'
  <2>1. Len(calls'[n].events) = 0
    BY <1>1
  <2> QED BY <2>1 DEF Told
<1>4. Due(n)'
  BY <1>0, <1>1, <1>2 DEF Due, Answer
<1>5. ASSUME NEW k \in Turns, k # n PROVE Told(k)' /\ Due(k)'
  BY <1>0, <1>1, <1>5, OthersPromise
<1> QED BY <1>1, <1>3, <1>4, <1>5 DEF Promises

\* A client that has taken an event is promised the rest.
LEMMA ClientTakes ==
  ASSUME SInv, Grows, NEW n \in Turns,
         calls[n].events # <<>>, Head(calls[n].events) # "error",
         calls' = [calls EXCEPT ![n].events = Tail(calls[n].events),
                                ![n].connected = calls[n].connected]
  PROVE  Kin /\ Promises'
<1> DEFINE old == calls[n].events
           new == Tail(old)
<1>0. ServerTyped /\ CallsTyped /\ \A k \in Turns : Told(k) /\ Due(k)
  BY DEF SInv, Typed, Promises
<1>a. /\ old \in Seq(Server!Events) /\ old # <<>> /\ old[1] # "error"
      /\ calls[n].connected \in BOOLEAN
  BY <1>0 DEF CallsTyped, Server!Calls
<1>b. /\ new \in Seq(Server!Events) /\ Len(old) \in Nat /\ Len(new) \in Nat
      /\ Len(old) = Len(new) + 1
      /\ \A i \in 1..Len(new) : i + 1 \in 1..Len(old) /\ new[i] = old[i + 1]
  BY <1>a, HeadTailProperties, LenProperties, EmptySeq
<1>1. /\ Kin /\ (\A k \in Turns : k # n => calls'[k] = calls[k])
      /\ calls'[n].state = calls[n].state /\ calls'[n].answer = calls[n].answer
      /\ calls'[n].connected = calls[n].connected /\ calls'[n].events = new
  BY <1>0, <1>a, <1>b, ClientReads
<1>2. OnRecord(Answer(n)) => OnRecord(Answer(n))'
  BY <1>0, <1>1, RecordStays, AnswerIsMessage
<1> HIDE DEF new
<1>3. ASSUME NEW j \in 1..Len(old), old[j] = "error"
      PROVE  j - 1 \in 1..Len(new) /\ new[j - 1] = "error"
  <2>1. j # 1
    BY <1>3, <1>a
  <2>2. j - 1 \in 1..Len(new) /\ (j - 1) + 1 = j
    BY <1>b, <2>1
  <2> QED BY <1>3, <1>b, <2>2
<1>4. Told(n)'
  <2>1. ASSUME NEW i \in 1..Len(new), new[i] \in {"close", "response"}
        PROVE  \/ OnRecord(Answer(n))'
               \/ \E j \in 1..Len(new) : j < i /\ new[j] = "error"
    <3>1. CASE OnRecord(Answer(n))
      BY <1>2, <3>1
    <3>2. CASE \E j \in 1..Len(old) : j < i + 1 /\ old[j] = "error"
      <4>1. PICK j \in 1..Len(old) : j < i + 1 /\ old[j] = "error"
        BY <3>2
      <4>2. j - 1 \in 1..Len(new) /\ new[j - 1] = "error"
        BY <1>3, <4>1
      <4>3. j - 1 < i
        BY <4>1
      <4> QED BY <4>2, <4>3
    <3>3. old[i + 1] = new[i] /\ i + 1 \in 1..Len(old)
      BY <1>b
    <3> QED BY <1>0, <2>1, <3>1, <3>2, <3>3 DEF Told
  <2>2. calls'[n].events = new
    BY <1>1
  <2> QED BY <2>1, <2>2 DEF Told, Answer
<1>5. Due(n)'
  <2>1. HasError(old) => HasError(new)
    BY <1>3 DEF HasError
  <2> QED BY <1>0, <1>1, <1>2, <2>1 DEF Due, Answer
<1>6. ASSUME NEW k \in Turns, k # n PROVE Told(k)' /\ Due(k)'
  BY <1>0, <1>1, <1>6, OthersPromise
<1> QED BY <1>1, <1>4, <1>5, <1>6 DEF Promises

\* A message of the page's, on record if it is an answer.
LEMMA PushesFit ==
  ASSUME IInv, PageTyped', Kin, Grows, NEW m \in Server!Messages,
         m.role = "assistant" => OnRecord(m), m.turn = turns', m.turn \in Turns,
         \/ m.role \in {"error", "tool"}
         \/ m.role = "user" /\ calls'[m.turn].state = "none"
         \/ /\ m.role = "assistant" /\ pc = "read" /\ turns' = turns
            /\ session' = session /\ switched' = switched
  PROVE  Fits(m)'
<1>0. ServerTyped /\ CallsTyped /\ Separate
  BY DEF IInv, SInv, PInv, Typed
<1>1. Shown(m)'
  <2>1. m.turn <= turns'
    BY DEF PageTyped
  <2>2. m.role = "assistant" => OnRecord(m)'
    BY <1>0, RecordStays
  <2> QED BY <2>1, <2>2 DEF Shown
<1>2. CASE m.role \in {"error", "tool"}
  BY <1>1, <1>2 DEF Fits
<1>3. CASE m.role = "user" /\ calls'[m.turn].state = "none"
  BY <1>1, <1>3 DEF Fits
<1>4. CASE /\ m.role = "assistant" /\ pc = "read" /\ turns' = turns
           /\ session' = session /\ switched' = switched
  <2>1. ~switched' => calls'[m.turn].session = session'
    BY <1>0, <1>4 DEF Separate, Kin
  <2> QED BY <1>1, <2>1 DEF Fits
<1> QED BY <1>2, <1>3, <1>4

\* A step of the page that leaves the calls alone.
LEMMA CallsStay ==
  ASSUME IInv, UNCHANGED serverVars, calls' = calls
  PROVE  Kin /\ Promises'
<1>0. /\ ServerTyped /\ CallsTyped /\ UNCHANGED <<store, warned>>
      /\ \A k \in Turns : Told(k) /\ Due(k)
  BY DEF IInv, SInv, Typed, Promises, serverVars
<1>1. Kin /\ Grows
  BY <1>0, NoneChanges, FilesStay
<1>2. \A k \in Turns : Told(k)' /\ Due(k)'
  BY <1>0, <1>1, OthersPromise
<1> QED BY <1>1, <1>2 DEF Promises

\* A question is asked: its call has not been made.
LEMMA SendKeeps ==
  ASSUME IInv, Page!Send, UNCHANGED serverVars
  PROVE  IInv'
<1> DEFINE m == Page!Message("user", turns + 1)
           new == Page!Pushed(messages, m)
<1>0. /\ PageTyped /\ CallsTyped /\ ServerTyped /\ RecoveryTyped /\ SInv
      /\ Cursor /\ Separate /\ Grows
  <2>1. IInv /\ UNCHANGED <<store, warned>>
    BY DEF serverVars
  <2> QED BY <2>1, FilesStay DEF IInv, SInv, PInv, Typed
<1>1. /\ pc = "idle" /\ turns < MaxTurns /\ turns' = turns + 1
      /\ messages' = new /\ stored' = Page!Capped(new) /\ pc' = "classify"
      /\ UNCHANGED <<session, reloads, switched, calls, recovery>>
  BY DEF Page!Send
<1>2. turns' \in Turns /\ turns \in Nat
  BY <1>0, <1>1, BoundsAssumption DEF PageTyped, Turns
<1>3. /\ m \in Server!Messages /\ m.role = "user" /\ m.turn = turns'
  BY <1>1, <1>2 DEF Page!Message, Server!Messages, Server!Turns, Turns
<1>4. /\ new \in Lists /\ Len(new) <= PageCap
      /\ Elements(new) \subseteq Elements(messages) \cup {m}
      /\ Page!Capped(new) = new
  BY <1>0, <1>3, PushedIs, CappedIs DEF PageTyped
<1>5. PageTyped' /\ StoredIsShown'
  <2>1. turns' \in 0..MaxTurns
    BY <1>2, BoundsAssumption DEF Turns
  <2> HIDE DEF new
  <2> QED BY <1>0, <1>1, <1>2, <1>4, <2>1 DEF PageTyped, StoredIsShown
<1>6. Kin /\ Promises'
  BY <1>1, CallsStay
<1>7. ASSUME NEW x, x = m PROVE Fits(x)'
  <2>1. calls'[m.turn].state = "none"
    <3>1. ~(turns + 1 <= turns)
      BY <1>2
    <3> QED BY <1>0, <1>1, <1>2, <1>3, <3>1 DEF Cursor
  <2> HIDE DEF m
  <2> QED BY <1>0, <1>2, <1>3, <1>5, <1>6, <1>7, <2>1, PushesFit
<1>8. Later
  BY <1>1, <1>2 DEF Later
<1>9. \A x \in Elements(messages') \cup Elements(stored') :
        x \in Elements(messages) \cup Elements(stored) \/ Fits(x)'
  BY <1>1, <1>4, <1>7
<1>10. RecoveryTyped' /\ (~switched' /\ recovery'.state # "none" =>
                            recovery'.session = session')
  BY <1>0, <1>1 DEF RecoveryTyped, Separate
<1> QED BY <1>1, <1>5, <1>6, <1>8, <1>9, <1>10, PageKeeps

\* The last lines of send.
LEMMA FinishIs ==
  ASSUME PageTyped, NEW list \in Lists, Len(list) <= PageCap,
         Page!Finish(list)
  PROVE  /\ messages' = list /\ stored' = list /\ pc' = "idle"
  BY CappedIs DEF Page!Finish

\* An event is read: an answer that is shown was promised.
LEMMA ReadKeeps ==
  ASSUME IInv, Page!Read, UNCHANGED serverVars
  PROVE  IInv'
<1> DEFINE call == calls[turns]
           event == Head(call.events)
           tool == Page!Message("tool", turns)
           error == Page!Message("error", turns)
           answer == Answer(turns)
           withTool == Page!Pushed(messages, tool)
<1>0. /\ PageTyped /\ CallsTyped /\ ServerTyped /\ RecoveryTyped /\ SInv
      /\ Cursor /\ Separate /\ Grows /\ Told(turns)
      /\ pc = "read" /\ turns \in Turns /\ call.events # <<>>
      /\ UNCHANGED <<session, turns, reloads, switched, recovery>>
  <2>1. IInv /\ UNCHANGED <<store, warned>>
    BY DEF serverVars
  <2>2. /\ pc = "read" /\ call.events # <<>>
        /\ UNCHANGED <<session, turns, reloads, switched, recovery>>
    BY DEF Page!Read
  <2>3. PageTyped /\ Promises /\ turns \in Turns
    BY <2>1, <2>2 DEF IInv, SInv, Typed, PageTyped
  <2> QED BY <2>1, <2>2, <2>3, FilesStay DEF IInv, SInv, PInv, Typed, Promises
<1>1. /\ calls' = [calls EXCEPT ![turns].events = IF event = "error" THEN <<>>
                                                  ELSE Tail(call.events),
                                ![turns].connected =
                                   call.connected /\ event # "error"]
      /\ \/ messages' = withTool /\ UNCHANGED <<stored, pc>>
         \/ UNCHANGED <<messages, stored, pc>>
         \/ Page!Finish(Page!Pushed(messages, error))
         \/ /\ event \in {"close", "response"}
            /\ \E shown \in {messages, withTool} :
                 Page!Finish(Page!Pushed(shown, answer))
  <2>1. CallsTyped
    BY <1>0
  <2> QED BY <2>1 DEF Page!Read, Page!Fail, Answer, CallsTyped
<1>2. Kin /\ Promises'
  <2>1. CASE event = "error"
    <3>1. calls' = [calls EXCEPT ![turns].events = <<>>,
                                 ![turns].connected = FALSE]
      BY <1>1, <2>1
    <3> QED BY <1>0, <3>1, ClientGoes
  <2>2. CASE event # "error"
    <3>1. call.connected \in BOOLEAN
      BY <1>0 DEF CallsTyped, Server!Calls
    <3>2. (call.connected /\ event # "error") = call.connected
      BY <2>2, <3>1
    <3>3. calls' = [calls EXCEPT ![turns].events = Tail(call.events),
                                 ![turns].connected = call.connected]
      BY <1>1, <2>2, <3>2
    <3> QED BY <1>0, <2>2, <3>3, ClientTakes
  <2> QED BY <2>1, <2>2
<1>3. /\ tool \in Server!Messages /\ tool.role = "tool" /\ tool.turn = turns
      /\ error \in Server!Messages /\ error.role = "error" /\ error.turn = turns
      /\ answer \in Server!Messages /\ answer.role = "assistant"
      /\ answer.turn = turns
  BY <1>0 DEF Page!Message, Answer, Server!Messages, Server!Turns, Turns
<1>4. event \in {"close", "response"} => OnRecord(answer)
  <2>1. call.events \in Seq(Server!Events)
    BY <1>0 DEF CallsTyped, Server!Calls
  <2>2. 1 \in 1..Len(call.events) /\ event = call.events[1]
    BY <1>0, <2>1, LenProperties, EmptySeq
  <2>3. \A j \in 1..Len(call.events) : ~(j < 1)
    OBVIOUS
  <2> QED BY <1>0, <2>2, <2>3 DEF Told
<1> HIDE DEF event
<1>5. ASSUME PageTyped', StoredIsShown',
             pc' \in {pc, "idle"},
             \A x \in Elements(messages') \cup Elements(stored') :
               \/ x \in Elements(messages) \cup Elements(stored)
               \/ x \in {tool, error}
               \/ x = answer /\ event \in {"close", "response"}
      PROVE  IInv'
  <2>1. ASSUME NEW x \in Server!Messages, x.turn = turns,
               \/ x.role \in {"tool", "error"}
               \/ x.role = "assistant" /\ OnRecord(x)
        PROVE  Fits(x)'
    BY <1>0, <1>2, <1>5, <2>1, PushesFit
  <2> HIDE DEF tool, error, answer
  <2>3. \A x \in Elements(messages') \cup Elements(stored') :
          \/ x \in Elements(messages) \cup Elements(stored) /\ session' = session
          \/ Fits(x)'
    <3> SUFFICES ASSUME NEW x, \/ x \in {tool, error}
                               \/ x = answer /\ event \in {"close", "response"}
                 PROVE  Fits(x)'
      BY <1>0, <1>5
    <3> QED BY <1>3, <1>4, <2>1
  <2>4. Later
    <3>1. turns <= turns
      BY <1>0 DEF PageTyped
    <3> QED BY <1>0, <1>5, <3>1 DEF Later
  <2>5. RecoveryTyped' /\ (~switched' /\ recovery'.state # "none" =>
                             recovery'.session = session')
    BY <1>0 DEF RecoveryTyped, Separate
  <2> QED BY <1>0, <1>2, <1>5, <2>3, <2>4, <2>5, PageKeeps
<1>6. /\ withTool \in Lists /\ Len(withTool) <= PageCap
      /\ Elements(withTool) \subseteq Elements(messages) \cup {tool}
  BY <1>0, <1>3, PushedIs DEF PageTyped
<1> HIDE DEF withTool, tool, error, answer
<1>7. CASE messages' = withTool /\ UNCHANGED <<stored, pc>>
  <2>1. PageTyped' /\ StoredIsShown'
    BY <1>0, <1>6, <1>7 DEF PageTyped, StoredIsShown
  <2> QED BY <1>5, <1>6, <1>7, <2>1
<1>8. CASE UNCHANGED <<messages, stored, pc>>
  <2>1. PageTyped' /\ StoredIsShown'
    BY <1>0, <1>8 DEF PageTyped, StoredIsShown
  <2> QED BY <1>5, <1>8, <2>1
<1>9. ASSUME NEW list \in Lists, NEW m \in Server!Messages,
             Elements(list) \subseteq Elements(messages) \cup {tool},
             Page!Finish(Page!Pushed(list, m)),
             m = error \/ (m = answer /\ event \in {"close", "response"})
      PROVE  IInv'
  <2> DEFINE new == Page!Pushed(list, m)
  <2>1. /\ new \in Lists /\ Len(new) <= PageCap
        /\ Elements(new) \subseteq Elements(list) \cup {m}
    BY <1>9, PushedIs
  <2>2. Page!Finish(new)
    BY <1>9
  <2> HIDE DEF new
  <2>3. messages' = new /\ stored' = new /\ pc' = "idle"
    BY <1>0, <2>1, <2>2, FinishIs
  <2>4. PageTyped' /\ StoredIsShown'
    BY <1>0, <2>1, <2>3 DEF PageTyped, StoredIsShown
  <2> QED BY <1>5, <1>9, <2>1, <2>3, <2>4
<1>10. CASE Page!Finish(Page!Pushed(messages, error))
  BY <1>0, <1>3, <1>9, <1>10 DEF PageTyped
<1>11. CASE /\ event \in {"close", "response"}
            /\ \E shown \in {messages, withTool} :
                 Page!Finish(Page!Pushed(shown, answer))
  BY <1>0, <1>3, <1>6, <1>9, <1>11 DEF PageTyped
<1> QED BY <1>1, <1>7, <1>8, <1>10, <1>11 DEF event

\* The recovery's second half wins over an empty conversation only.
LEMMA RecoverHeadersKeeps ==
  ASSUME IInv, Page!RecoverHeaders, UNCHANGED serverVars
  PROVE  IInv'
<1>0. /\ PageTyped /\ RecoveryTyped /\ StoredIsShown /\ Separate
      /\ recovery.state = "headers"
      /\ UNCHANGED <<messages, stored, session, pc, turns, reloads, switched>>
      /\ calls' = calls
      /\ recovery' \in {[recovery EXCEPT !.state = "body"],
                        [recovery EXCEPT !.state = "none", !.messages = <<>>]}
  BY DEF IInv, SInv, PInv, Typed, Page!RecoverHeaders, Page!pageVars,
         Page!Recovered
<1>1. /\ RecoveryTyped' /\ recovery'.session = recovery.session
      /\ recovery'.messages \in {recovery.messages, <<>>}
  <2>1. CASE recovery' = [recovery EXCEPT !.state = "body"]
    BY <1>0, <2>1 DEF RecoveryTyped, Server!Recoveries
  <2>2. CASE recovery' = [recovery EXCEPT !.state = "none", !.messages = <<>>]
    BY <1>0, <2>2, RecoveryOver
  <2> QED BY <1>0, <2>1, <2>2
<1>2. PageTyped' /\ StoredIsShown' /\ Later
  <2>1. turns <= turns
    BY <1>0 DEF PageTyped
  <2> QED BY <1>0, <2>1 DEF PageTyped, StoredIsShown, Later
<1>3. ~switched' /\ recovery'.state # "none" => recovery'.session = session'
  BY <1>0, <1>1 DEF Separate
<1>4. Kin /\ Promises'
  BY <1>0, CallsStay
<1> QED BY <1>0, <1>1, <1>2, <1>3, <1>4, PageKeeps

\* What is recovered is shown and saved.
LEMMA RecoverBodyKeeps ==
  ASSUME IInv, Page!RecoverBody, UNCHANGED serverVars
  PROVE  IInv'
<1> DEFINE list == recovery.messages
<1>0. /\ PageTyped /\ RecoveryTyped /\ StoredIsShown /\ Separate /\ Traced
      /\ recovery.state = "body"
      /\ UNCHANGED <<session, pc, turns, reloads, switched>>
      /\ calls' = calls /\ UNCHANGED <<store, warned>>
      /\ recovery' = [recovery EXCEPT !.state = "none", !.messages = <<>>]
      /\ \/ UNCHANGED <<messages, stored>>
         \/ messages' = list /\ stored' = Page!Capped(list)
  BY DEF IInv, SInv, PInv, Typed, Page!RecoverBody, Page!Recovered, serverVars
<1>1. /\ RecoveryTyped' /\ recovery'.session = recovery.session
      /\ recovery'.messages = <<>> /\ recovery'.state = "none"
  BY <1>0, RecoveryOver
<1>2. list \in Lists /\ Len(list) <= PageCap
  <2>1. list \in Lists /\ Len(list) <= StoreCap
    BY <1>0 DEF RecoveryTyped, Server!Recoveries, Lists
  <2>2. Len(list) \in Nat
    BY <2>1, LenProperties DEF Lists
  <2> QED BY <2>1, <2>2, CapsAssumption
<1>3. Page!Capped(list) = list
  BY <1>2, CappedIs
<1>4. PageTyped' /\ StoredIsShown' /\ Later
  <2>1. turns <= turns
    BY <1>0 DEF PageTyped
  <2> HIDE DEF list
  <2> QED BY <1>0, <1>2, <1>3, <2>1 DEF PageTyped, StoredIsShown, Later
<1>5. Kin /\ Promises'
  BY <1>0, CallsStay
<1>6. ASSUME NEW m \in Elements(list) PROVE Fits(m)'
  <2>1. Shown(m)'
    BY <1>0, <1>6 DEF Traced, AllKnown, Known, Shown, OnRecord, Elements
  <2>2. ~switched => OfSession(list, session)
    BY <1>0 DEF Separate
  <2> HIDE DEF list
  <2> QED BY <1>0, <1>6, <2>1, <2>2 DEF Fits, OfSession
<1>7. \A m \in Elements(messages') \cup Elements(stored') :
        \/ m \in Elements(messages) \cup Elements(stored) /\ session' = session
        \/ Fits(m)'
  BY <1>0, <1>3, <1>6
<1> QED BY <1>0, <1>1, <1>4, <1>5, <1>7, PageKeeps

\* An empty conversation, in a new session or in the old one.
LEMMA EmptiedKeeps ==
  ASSUME IInv, Page!NewSession \/ Page!Clear, UNCHANGED serverVars
  PROVE  IInv'
<1>0. /\ PageTyped /\ RecoveryTyped /\ Separate
      /\ messages' = <<>> /\ stored' = <<>>
      /\ UNCHANGED <<pc, turns, reloads, calls, recovery>>
      /\ session' \in Sessions
      /\ \/ UNCHANGED <<session, switched>>
         \/ switched' = (switched \/ pc # "idle" \/ recovery.state # "none")
  BY DEF IInv, SInv, PInv, Typed, Page!NewSession, Page!Clear, PageTyped
<1>1. switched' \in BOOLEAN
  <2>1. switched \in BOOLEAN
    BY <1>0 DEF PageTyped
  <2> QED BY <1>0, <2>1
<1>2. PageTyped' /\ StoredIsShown' /\ Later
  <2>1. turns <= turns
    BY <1>0 DEF PageTyped
  <2>2. <<>> \in Lists /\ Len(<<>>) <= PageCap
    BY ElementsOfNone, CapsAssumption
  <2> QED BY <1>0, <1>1, <2>1, <2>2 DEF PageTyped, StoredIsShown, Later
<1>3. Kin /\ Promises' /\ RecoveryTyped'
  BY <1>0, CallsStay DEF RecoveryTyped
<1>4. ~switched' => ~switched /\ (pc' = "read" => session' = session)
                    /\ (recovery'.state # "none" => recovery'.session = session')
  BY <1>0 DEF Separate
<1>5. Elements(messages') = {} /\ Elements(stored') = {}
  BY <1>0, ElementsOfNone
<1> QED BY <1>0, <1>2, <1>3, <1>4, <1>5, PageKeeps

\* The page comes back with what was stored.
LEMMA ReloadKeeps ==
  ASSUME IInv, Page!Reload, UNCHANGED serverVars
  PROVE  IInv'
<1>0. /\ PageTyped /\ RecoveryTyped /\ Separate /\ SInv
      /\ UNCHANGED <<store, warned>> /\ Grows
      /\ reloads' = reloads + 1 /\ messages' = stored /\ pc' = "idle"
      /\ recovery' = [state |-> "get", session |-> session, messages |-> <<>>]
      /\ UNCHANGED <<stored, session, turns, switched>>
  <2>1. IInv /\ UNCHANGED <<store, warned>>
    BY DEF serverVars
  <2> QED BY <2>1, FilesStay DEF IInv, SInv, PInv, Typed, Page!Reload
<1>1. Kin /\ Promises'
  <2>1. CASE pc = "read"
    <3>1. turns \in Turns
      BY <1>0, <2>1 DEF PageTyped
    <3>2. calls' = [calls EXCEPT ![turns].events = <<>>,
                                 ![turns].connected = FALSE]
      BY <1>0, <2>1, <3>1 DEF Page!Reload, SInv, Typed, CallsTyped
    <3> QED BY <1>0, <3>1, <3>2, ClientGoes
  <2>2. CASE pc # "read"
    <3>1. calls' = calls
      BY <2>2 DEF Page!Reload
    <3> QED BY <3>1, CallsStay
  <2> QED BY <2>1, <2>2
<1>2. PageTyped' /\ StoredIsShown' /\ Later
  <2>1. turns <= turns /\ reloads' \in Nat
    BY <1>0 DEF PageTyped
  <2> QED BY <1>0, <2>1 DEF PageTyped, StoredIsShown, Later
<1>3. /\ RecoveryTyped' /\ recovery'.messages = <<>>
      /\ recovery'.session = session'
  BY <1>0, ElementsOfNone, CapsAssumption
  DEF PageTyped, RecoveryTyped, Server!Recoveries, Lists
<1> QED BY <1>0, <1>1, <1>2, <1>3, PageKeeps

\* The call of a turn is made: with the session and the conversation of now.
LEMMA ClassifiedKeeps ==
  ASSUME IInv, Page!Classified, UNCHANGED serverVars
  PROVE  IInv'
<1> DEFINE sent == Page!ChatHistory(messages)
<1>0. /\ PageTyped /\ RecoveryTyped /\ CallsTyped /\ ServerTyped
      /\ AnswersTyped /\ Promises /\ Cursor /\ Traced /\ Separate
      /\ UNCHANGED <<server, storage, store, loop, warned, faults>>
      /\ UNCHANGED <<messages, stored, session, turns, reloads, switched,
                     recovery>>
      /\ pc = "classify" /\ pc' = "read"
  BY DEF IInv, SInv, PInv, Typed, Page!Classified, serverVars
<1>1. /\ turns \in Turns /\ turns \in Nat /\ calls[turns].state = "none"
      /\ \A n \in Turns : calls[n].state # "none" => n < turns
  <2>1. turns \in Turns /\ turns \in Nat
    BY <1>0 DEF PageTyped, Turns
  <2>2. \A n \in Turns : calls[n].state # "none" => n < turns
    BY <1>0 DEF Cursor
  <2>3. ~(turns < turns)
    BY <2>1
  <2> QED BY <2>1, <2>2, <2>3
<1>2. sent \in Lists /\ Elements(sent) \subseteq Elements(messages)
  BY <1>0, ChatHistoryIs DEF PageTyped
<1>3. PICK stream \in BOOLEAN :
        calls' = [calls EXCEPT ![turns].state = "sent",
                               ![turns].stream = stream,
                               ![turns].session = session,
                               ![turns].messages = sent]
  BY DEF Page!Classified
<1> HIDE DEF sent
<1>4. /\ CallsTyped' /\ \A k \in Turns : k # turns => calls'[k] = calls[k]
      /\ calls'[turns].state = "sent" /\ calls'[turns].session = session
      /\ calls'[turns].messages = sent
      /\ calls'[turns].answer = calls[turns].answer
      /\ calls'[turns].events = calls[turns].events
  <2> DEFINE c == [calls[turns] EXCEPT !.state = "sent", !.stream = stream,
                                       !.session = session, !.messages = sent]
  <2>1. calls' = [calls EXCEPT ![turns] = c] /\ calls[turns] \in Server!Calls
    BY <1>0, <1>1, <1>3 DEF CallsTyped
  <2>2. session \in Sessions /\ sent \in Seq(Server!Messages)
    BY <1>0, <1>2 DEF PageTyped, Lists
  <2>3. /\ c \in Server!Calls /\ c.state = "sent" /\ c.session = session
        /\ c.messages = sent /\ c.answer = calls[turns].answer
        /\ c.events = calls[turns].events
    BY <2>1, <2>2 DEF Server!Calls
  <2> HIDE DEF c
  <2> QED BY <1>0, <1>1, <2>1, <2>3 DEF CallsTyped
<1>5. ASSUME NEW m, m.turn \in Turns, OnRecord(m) PROVE OnRecord(m)'
  <2>1. m.turn # turns
    BY <1>1, <1>5 DEF OnRecord
  <2> QED BY <1>0, <1>4, <1>5, <2>1 DEF OnRecord
<1>6. /\ ServerTyped' /\ RecoveryTyped' /\ PageTyped' /\ AnswersTyped'
      /\ StoredIsShown'
  <2>1. ServerTyped' /\ RecoveryTyped' /\ PageTyped' /\ StoredIsShown'
    BY <1>0, <1>1 DEF ServerTyped, RecoveryTyped, PageTyped, StoredIsShown
  <2>2. \A k \in Turns : calls'[k].answer = calls[k].answer
    BY <1>4
  <2> QED BY <1>0, <2>1, <2>2 DEF AnswersTyped, Answer
<1>7. Promises'
  <2>1. ASSUME NEW k \in Turns, k # turns PROVE Told(k)' /\ Due(k)'
    <3>1. Told(k) /\ Due(k) /\ calls'[k] = calls[k]
      BY <1>0, <1>4, <2>1 DEF Promises
    <3>2. OnRecord(Answer(k)) => OnRecord(Answer(k))'
      BY <1>5, AnswerIsMessage
    <3> QED BY <3>1, <3>2 DEF Told, Due, HasError, Answer
  <2>2. ASSUME NEW k \in Turns, k = turns PROVE Told(k)' /\ Due(k)'
    <3>1. Told(turns) /\ ~OnRecord(Answer(turns))
      BY <1>0, <1>1, AnswerIsMessage DEF Promises, OnRecord
    <3>2. \A i \in 1..Len(calls[turns].events) :
            calls[turns].events[i] \in {"close", "response"} =>
              \E j \in 1..Len(calls[turns].events) :
                j < i /\ calls[turns].events[j] = "error"
      BY <3>1 DEF Told
    <3> QED BY <1>0, <1>4, <2>2, <3>2 DEF Told, Due
  <2> QED BY <2>1, <2>2 DEF Promises
<1>8. Cursor'
  <2>1. \A n \in Turns : n # turns => calls'[n].state = calls[n].state
    BY <1>4
  <2>2. \A n \in Turns : calls'[n].state # "none" => n <= turns
    BY <1>1, <2>1 DEF Turns
  <2> QED BY <1>0, <1>4, <2>2 DEF Cursor
<1>l. /\ messages \in Lists /\ stored \in Lists /\ recovery.messages \in Lists
      /\ \A s \in Sessions : store[s] \in Lists
      /\ \A n \in Turns : calls[n].messages \in Lists
  BY <1>0 DEF PageTyped, ServerTyped, CallsTyped, RecoveryTyped, Server!Calls,
              Server!Recoveries, Lists
<1>9. Traced'
  <2>1. ASSUME NEW m, m.turn \in Turns, Shown(m) PROVE Known(m)'
    <3>1. m.role = "assistant" => OnRecord(m)'
      BY <1>5, <2>1 DEF Shown
    <3> QED BY <1>0, <2>1, <3>1 DEF Known, Shown
  <2>2. \A m \in Elements(messages) \cup Elements(stored) :
          Known(m)' /\ Shown(m)'
    <3>1. \A m \in Elements(messages) \cup Elements(stored) :
            m.turn \in Turns /\ Shown(m)
      BY <1>0, <1>l, ElementIs DEF Traced
    <3> QED BY <2>1, <3>1 DEF Known
  <2>3. \A m \in Elements(recovery.messages) : Known(m)'
    BY <1>0, <1>l, <2>1, ElementIs DEF Traced, AllKnown, Known
  <2>4. \A s \in Sessions : \A m \in Elements(store[s]) : Known(m)'
    BY <1>0, <1>l, <2>1, ElementIs DEF Traced, AllKnown, Known
  <2>5. \A n \in Turns : \A m \in Elements(calls[n].messages) : Known(m)'
    BY <1>0, <1>l, <2>1, ElementIs DEF Traced, AllKnown, Known
  <2>6. \A n \in Turns : \A m \in Elements(calls'[n].messages) : Known(m)'
    BY <1>2, <1>4, <2>2, <2>5
  <2> QED BY <1>0, <2>2, <2>3, <2>4, <2>6 DEF Traced, AllKnown
<1>10. Separate'
  <2> SUFFICES ASSUME ~switched PROVE Separate'
    BY <1>0 DEF Separate
  <2>1. /\ OfSession(messages, session) /\ OfSession(stored, session)
        /\ \A s \in Sessions : OfSession(store[s], s)
        /\ \A n \in Turns : OfSession(calls[n].messages, calls[n].session)
        /\ OfSession(recovery.messages, recovery.session)
        /\ recovery.state # "none" => recovery.session = session
    BY <1>0 DEF Separate
  <2>2. ASSUME NEW m, m.turn \in Turns, NEW s,
               \/ m.turn # turns \/ s = session,
               calls[m.turn].state # "none" => calls[m.turn].session = s
        PROVE  calls'[m.turn].state # "none" => calls'[m.turn].session = s
    BY <1>4, <2>2
  <2>3. ASSUME NEW list \in Lists, OfSession(list, session)
        PROVE  \A m \in Elements(list) :
                 m.role \in {"user", "assistant"}
                   /\ calls'[m.turn].state # "none" =>
                      calls'[m.turn].session = session
    <3> SUFFICES ASSUME NEW m \in Elements(list),
                        m.role \in {"user", "assistant"},
                        calls'[m.turn].state # "none"
                 PROVE  calls'[m.turn].session = session
      OBVIOUS
    <3>1. m.turn \in Turns
      BY ElementIs
    <3> QED BY <2>2, <2>3, <3>1 DEF OfSession
  <2>4. ASSUME NEW list \in Lists, NEW s, OfSession(list, s), AllKnown(list)
        PROVE  \A m \in Elements(list) :
                 m.role \in {"user", "assistant"}
                   /\ calls'[m.turn].state # "none" =>
                      calls'[m.turn].session = s
    <3> SUFFICES ASSUME NEW m \in Elements(list),
                        m.role \in {"user", "assistant"},
                        calls'[m.turn].state # "none"
                 PROVE  calls'[m.turn].session = s
      OBVIOUS
    <3>1. m.turn \in Turns /\ m.turn < turns
      BY <1>0, <2>4, ElementIs DEF AllKnown, Known
    <3>2. m.turn # turns
      BY <1>1, <3>1
    <3> QED BY <2>2, <2>4, <3>1, <3>2 DEF OfSession
  <2>5. OfSession(messages, session)' /\ OfSession(stored, session)'
    BY <1>0, <1>l, <2>1, <2>3 DEF OfSession, Elements
  <2>6. ASSUME NEW s \in Sessions PROVE OfSession(store[s], s)'
    <3>1. /\ store[s] \in Lists /\ OfSession(store[s], s)
          /\ AllKnown(store[s]) /\ store' = store
      BY <1>0, <1>l, <2>1 DEF Traced
    <3>2. \A m \in Elements(store[s]) :
            m.role \in {"user", "assistant"} /\ calls'[m.turn].state # "none" =>
              calls'[m.turn].session = s
      BY <2>4, <3>1
    <3> QED BY <3>1, <3>2 DEF OfSession, Elements
  <2>7. OfSession(recovery.messages, recovery.session)'
    <3>1. /\ recovery.messages \in Lists /\ AllKnown(recovery.messages)
          /\ OfSession(recovery.messages, recovery.session)
          /\ recovery' = recovery
      BY <1>0, <1>l, <2>1 DEF Traced
    <3>2. \A m \in Elements(recovery.messages) :
            m.role \in {"user", "assistant"} /\ calls'[m.turn].state # "none" =>
              calls'[m.turn].session = recovery.session
      BY <2>4, <3>1
    <3> QED BY <3>1, <3>2 DEF OfSession, Elements
  <2>8. ASSUME NEW n \in Turns
        PROVE  OfSession(calls[n].messages, calls[n].session)'
    <3>1. CASE n = turns
      <4>1. OfSession(sent, session)
        BY <1>2, <2>1 DEF OfSession
      <4> QED BY <1>2, <1>4, <2>3, <3>1, <4>1 DEF OfSession, Elements
    <3>2. CASE n # turns
      <4>1. /\ calls[n].messages \in Lists /\ AllKnown(calls[n].messages)
            /\ OfSession(calls[n].messages, calls[n].session)
            /\ calls'[n] = calls[n]
        BY <1>0, <1>4, <1>l, <2>1, <3>2 DEF Traced
      <4>2. \A m \in Elements(calls[n].messages) :
              m.role \in {"user", "assistant"}
                /\ calls'[m.turn].state # "none" =>
                   calls'[m.turn].session = calls[n].session
        BY <2>4, <4>1
      <4> QED BY <4>1, <4>2 DEF OfSession, Elements
    <3> QED BY <3>1, <3>2
  <2> QED BY <1>0, <1>4, <2>1, <2>5, <2>6, <2>7, <2>8 DEF Separate
<1> QED BY <1>4, <1>6, <1>7, <1>8, <1>9, <1>10 DEF IInv, SInv, PInv, Typed

-----------------------------------------------------------------------------
(* The theorems.                                                            *)

\* Nothing has been asked, nothing is stored.
LEMMA InitIInv == Init => IInv
<1> SUFFICES ASSUME Init PROVE IInv
  OBVIOUS
<1>0. /\ server = "down" /\ storage = FALSE
      /\ store = [s \in Sessions |-> <<>>] /\ loop = 0 /\ warned = {}
      /\ faults = 0
      /\ messages = <<>> /\ stored = <<>> /\ session \in Sessions
      /\ pc = "idle" /\ turns = 0 /\ reloads = 0 /\ switched = FALSE
      /\ recovery = [state |-> "get", session |-> session, messages |-> <<>>]
      /\ calls = [n \in Turns |->
                    [state |-> "none", stream |-> FALSE, session |-> session,
                     messages |-> <<>>, answer |-> <<>>, events |-> <<>>,
                     connected |-> TRUE]]
  BY DEF Init, Server!Init, Page!Init, Turns
<1>1. /\ <<>> \in Lists /\ <<>> \in Seq(Server!Events) /\ Elements(<<>>) = {}
      /\ Len(<<>>) = 0 /\ 0 <= StoreCap /\ 0 <= PageCap /\ 0 \in 0..MaxTurns
  BY ElementsOfNone, EventLists, CapsAssumption, BoundsAssumption
<1>2. \A n \in Turns :
        /\ calls[n].state = "none" /\ calls[n].answer = <<>>
        /\ calls[n].messages = <<>> /\ calls[n].events = <<>>
  BY <1>0
<1>3. Typed
  <2>1. ServerTyped
    BY <1>0, <1>1 DEF ServerTyped
  <2>2. CallsTyped
    BY <1>0, <1>1 DEF CallsTyped, Server!Calls, Lists
  <2>3. RecoveryTyped
    BY <1>0, <1>1 DEF RecoveryTyped, Server!Recoveries, Lists
  <2>4. PageTyped
    BY <1>0, <1>1 DEF PageTyped
  <2> QED BY <2>1, <2>2, <2>3, <2>4 DEF Typed
<1>4. AnswersTyped /\ Promises
  <2>1. \A n \in Turns : Len(calls[n].events) = 0
    BY <1>1, <1>2
  <2> QED BY <1>2, <2>1 DEF AnswersTyped, Promises, Told, Due
<1>5. Cursor /\ StoredIsShown
  BY <1>0, <1>2 DEF Cursor, StoredIsShown
<1>6. Traced
  BY <1>0, <1>1, <1>2 DEF Traced, AllKnown
<1>7. Separate
  BY <1>0, <1>1, <1>2 DEF Separate, OfSession
<1> QED BY <1>3, <1>4, <1>5, <1>6, <1>7 DEF IInv, SInv, PInv

\* Every step keeps the invariant: the server's, the page's, or none.
LEMMA NextIInv == IInv /\ [Next]_vars => IInv'
<1> SUFFICES ASSUME IInv, [Next]_vars PROVE IInv'
  OBVIOUS
<1>1. CASE ServerStep
  <2>1. ServerMoves /\ Promises'
    BY <1>1, ServerSteps DEF IInv, ServerStep
  <2> QED BY <1>1, <2>1, ServerKeeps DEF ServerStep
<1>2. CASE Page!Send /\ UNCHANGED serverVars
  BY <1>2, SendKeeps
<1>3. CASE Page!Classified /\ UNCHANGED serverVars
  BY <1>3, ClassifiedKeeps
<1>4. CASE Page!Read /\ UNCHANGED serverVars
  BY <1>4, ReadKeeps
<1>5. CASE Page!RecoverHeaders /\ UNCHANGED serverVars
  BY <1>5, RecoverHeadersKeeps
<1>6. CASE Page!RecoverBody /\ UNCHANGED serverVars
  BY <1>6, RecoverBodyKeeps
<1>7. CASE (Page!NewSession \/ Page!Clear) /\ UNCHANGED serverVars
  BY <1>7, EmptiedKeeps
<1>8. CASE Page!Reload /\ UNCHANGED serverVars
  BY <1>8, ReloadKeeps
<1>9. CASE UNCHANGED vars
  <2>1. /\ UNCHANGED serverVars /\ UNCHANGED <<calls, recovery>>
        /\ UNCHANGED <<messages, stored, session, pc, turns, reloads, switched>>
    BY <1>9 DEF vars, pageVars
  <2>2. PageTyped /\ RecoveryTyped /\ StoredIsShown /\ Separate
    BY DEF IInv, SInv, PInv, Typed
  <2>3. PageTyped' /\ RecoveryTyped' /\ StoredIsShown' /\ Later
    <3>1. turns <= turns
      BY <2>2 DEF PageTyped
    <3> QED BY <2>1, <2>2, <3>1
        DEF PageTyped, RecoveryTyped, StoredIsShown, Later
  <2>4. ~switched' /\ recovery'.state # "none" => recovery'.session = session'
    BY <2>1, <2>2 DEF Separate
  <2>5. Kin /\ Promises'
    BY <2>1, CallsStay
  <2> QED BY <2>1, <2>3, <2>4, <2>5, PageKeeps
<1> QED BY <1>1, <1>2, <1>3, <1>4, <1>5, <1>6, <1>7, <1>8, <1>9
    DEF Next, PageStep, Page!Next, Page!Run

\* The invariant in words: every answer in any list is on record, every list
\* belongs to its session, and a call promises what the page will show.
THEOREM Invariance == Spec => []IInv
  BY InitIInv, NextIInv, PTL DEF Spec

\* The types, and no list outgrows its cap: the page's MAX_MESSAGES in memory
\* and in localStorage, the files' _MAX_PERSISTED_MESSAGES.
THEOREM TypeCorrect == Spec => []TypeOK
<1>1. IInv => TypeOK
  BY TypedIs DEF IInv, SInv
<1> QED BY <1>1, Invariance, PTL

\* An answer the page shows is in its session's file, or was in a file that is
\* full, or a warning was logged (_persist_turn before the end of the body).
THEOREM AnswersRecorded == Spec => []AnswersAreOnRecord
<1>1. IInv => AnswersAreOnRecord
  BY DEF IInv, PInv, Traced, Shown, OnRecord, AnswersAreOnRecord
<1> QED BY <1>1, Invariance, PTL

\* Between two turns localStorage holds what the page shows (saveHistory).
THEOREM StoredShown == Spec => []StoredIsShown
<1>1. IInv => StoredIsShown
  BY DEF IInv, PInv
<1> QED BY <1>1, Invariance, PTL

\* No message of one session is shown in another or saved in its file, as long
\* as no session is started during send or the recovery.
THEOREM SessionsSeparate == Spec => []SessionsAreSeparate
<1>1. IInv => SessionsAreSeparate
  BY DEF IInv, PInv, Separate, SessionsAreSeparate
<1> QED BY <1>1, Invariance, PTL
-----------------------------------------------------------------------------
(* What send waits for: its client is there, and a call that is over has    *)
(* left an event at which send ends.                                        *)

Ends == {"error", "reset", "close", "response"}
HasEnd(events) == \E j \in 1..Len(events) : events[j] \in Ends

Awaited ==
  /\ \A n \in Turns : calls[n].state = "none" => calls[n].connected
  /\ pc = "read" => /\ calls[turns].connected
                    /\ calls[turns].state = "over" =>
                         HasEnd(calls[turns].events)

\* A step of the server leaves the client of a call alone and takes no event
\* from it; when it ends the call of a client that is there, it says so.
Serves(k) ==
  \/ calls'[k] = calls[k]
  \/ /\ calls'[k].connected = calls[k].connected
     /\ calls[k].state # "none" /\ calls'[k].state # "none"
     /\ HasEnd(calls[k].events) => HasEnd(calls'[k].events)
     /\ calls'[k].state = "over" /\ calls[k].connected =>
          HasEnd(calls'[k].events)

\* More events are at least as good.
LEMMA EndStays ==
  ASSUME NEW s \in Seq(Server!Events), NEW t \in Seq(Server!Events),
         HasEnd(s) \/ HasEnd(t)
  PROVE  HasEnd(s \o t)
<1>1. /\ Len(s) \in Nat /\ Len(t) \in Nat /\ Len(s \o t) = Len(s) + Len(t)
      /\ \A i \in 1..(Len(s) + Len(t)) :
           (s \o t)[i] = IF i <= Len(s) THEN s[i] ELSE t[i - Len(s)]
  BY ConcatProperties, LenProperties
<1>2. ASSUME NEW j \in 1..Len(s), s[j] \in Ends PROVE HasEnd(s \o t)
  <2>1. j \in 1..Len(s \o t) /\ j <= Len(s) /\ j \in 1..(Len(s) + Len(t))
    BY <1>1
  <2>2. (s \o t)[j] = s[j]
    BY <1>1, <2>1
  <2> QED BY <1>2, <2>1, <2>2 DEF HasEnd
<1>3. ASSUME NEW j \in 1..Len(t), t[j] \in Ends PROVE HasEnd(s \o t)
  <2>1. /\ Len(s) + j \in 1..Len(s \o t) /\ ~(Len(s) + j <= Len(s))
        /\ Len(s) + j \in 1..(Len(s) + Len(t)) /\ (Len(s) + j) - Len(s) = j
    BY <1>1
  <2>2. (s \o t)[Len(s) + j] = t[j]
    BY <1>1, <2>1
  <2> QED BY <1>3, <2>1, <2>2 DEF HasEnd
<1> QED BY <1>2, <1>3 DEF HasEnd

\* One event that ends an answer.
LEMMA EndIsEnd ==
  ASSUME NEW e \in Ends
  PROVE  <<e>> \in Seq(Server!Events) /\ HasEnd(<<e>>)
<1>1. /\ <<e>> \in Seq(Server!Events) /\ Len(<<e>>) = 1 /\ <<e>>[1] = e
      /\ 1 \in 1..1
  BY DEF Ends, Server!Events
<1> QED BY <1>1 DEF HasEnd

\* A step of one call serves it, and every other.
LEMMA StepServes ==
  ASSUME CallsTyped, NEW n \in Turns, NEW state \in States \ {"none"},
         NEW events \in Seq(Server!Events), Server!Step(n, state, events),
         calls[n].state # "none",
         state = "over" /\ calls[n].connected => HasEnd(events)
  PROVE  \A k \in Turns : Serves(k)
<1>1. /\ \A k \in Turns : k # n => calls'[k] = calls[k]
      /\ calls'[n].state = state
      /\ calls'[n].connected = calls[n].connected
      /\ calls'[n].events = IF calls[n].connected
                            THEN calls[n].events \o events
                            ELSE calls[n].events
  BY StepIs
<1>2. calls[n].events \in Seq(Server!Events)
  BY DEF CallsTyped, Server!Calls
<1>3. HasEnd(calls[n].events) \/ HasEnd(events) =>
        HasEnd(calls[n].events \o events)
  BY <1>2, EndStays
<1>4. Serves(n)
  BY <1>1, <1>3 DEF Serves
<1> QED BY <1>1, <1>4 DEF Serves

\* Every step of the server serves every call.
LEMMA ServerServes ==
  ASSUME CallsTyped, Server!Next
  PROVE  \A k \in Turns : Serves(k)
<1>t. Server!Turns = Turns
  BY DEF Server!Turns, Turns
<1>e. /\ "over" \in States \ {"none"}
      /\ \A e \in Server!Events : <<e>> \in Seq(Server!Events)
      /\ <<>> \in Seq(Server!Events)
  BY EventLists DEF States
<1>o. \A e \in Ends : HasEnd(<<e>>)
  BY EndIsEnd
<1>1. CASE UNCHANGED calls
  BY <1>1 DEF Serves
<1>2. ASSUME Server!Die, NEW k \in Turns PROVE Serves(k)
  <2> DEFINE events == IF calls[k].connected
                       THEN Append(calls[k].events, "reset")
                       ELSE calls[k].events
  <2>1. calls[k] \in Server!Calls /\ calls[k].events \in Seq(Server!Events)
    BY DEF CallsTyped, Server!Calls
  <2>2. calls'[k] = IF calls[k].state \in {"none", "sent", "over"} THEN calls[k]
                   ELSE [calls[k] EXCEPT !.state = "over", !.events = events]
    BY <1>2, <1>t DEF Server!Die
  <2>3. /\ events = IF calls[k].connected THEN calls[k].events \o <<"reset">>
                    ELSE calls[k].events
        /\ "reset" \in Ends
    BY <2>1, AppendIsConcat DEF Server!Events, Ends
  <2> HIDE DEF events
  <2>4. CASE calls[k].state \in {"none", "sent", "over"}
    BY <2>2, <2>4 DEF Serves
  <2>5. CASE calls[k].state \notin {"none", "sent", "over"}
    <3>1. calls'[k] = [calls[k] EXCEPT !.state = "over", !.events = events]
      BY <2>2, <2>5
    <3>2. /\ calls'[k].state = "over" /\ calls'[k].events = events
          /\ calls'[k].connected = calls[k].connected
          /\ calls[k].state # "none"
      BY <2>1, <2>5, <3>1 DEF Server!Calls
    <3>3. HasEnd(calls[k].events \o <<"reset">>)
      BY <2>1, <2>3, EndIsEnd, EndStays
    <3> QED BY <2>3, <3>2, <3>3 DEF Serves
  <2> QED BY <2>4, <2>5
<1>3. ASSUME NEW n \in Turns, Server!Accept(n) PROVE \A k \in Turns : Serves(k)
  <2>1. /\ calls[n].state # "none"
        /\ \/ Server!Step(n, "over", <<"reset">>)
           \/ Server!Step(n, "streaming", <<>>)
           \/ Server!Step(n, "running", <<>>)
    BY <1>3 DEF Server!Accept
  <2>2. /\ {"streaming", "running"} \subseteq States \ {"none"}
        /\ <<"reset">> \in Seq(Server!Events) /\ HasEnd(<<"reset">>)
    BY <1>o, EndIsEnd DEF States, Ends
  <2> QED BY <1>e, <2>1, <2>2, StepServes
<1>4. ASSUME NEW n \in Turns,
             Server!YieldTool(n) \/ Server!YieldError(n) \/ Server!YieldTerminator(n)
      PROVE  \A k \in Turns : Serves(k)
  <2>1. /\ calls[n].state # "none"
        /\ \/ Server!Step(n, "acting", <<"tool">>)
           \/ Server!Step(n, "ending", <<"error">>)
           \/ Server!Step(n, "terminated", <<"[DONE]">>)
    BY <1>4 DEF Server!YieldTool, Server!YieldError, Server!YieldTerminator,
                Server!Streaming
  <2>2. /\ {"acting", "ending", "terminated"} \subseteq States \ {"none"}
        /\ {"tool", "error", "[DONE]"} \subseteq Server!Events
    BY DEF States, Server!Events
  <2>3. /\ <<"tool">> \in Seq(Server!Events)
        /\ <<"error">> \in Seq(Server!Events)
        /\ <<"[DONE]">> \in Seq(Server!Events)
    BY <1>e, <2>2
  <2> QED BY <2>1, <2>2, <2>3, StepServes
<1>5. ASSUME NEW n \in Turns, Server!EndStream(n) \/ Server!Respond(n)
      PROVE  \A k \in Turns : Serves(k)
  <2>1. /\ calls[n].state # "none"
        /\ \/ Server!Step(n, "over", <<"close">>)
           \/ Server!Step(n, "over", <<"response">>)
    BY <1>5 DEF Server!EndStream, Server!Respond
  <2>2. /\ <<"close">> \in Seq(Server!Events) /\ HasEnd(<<"close">>)
        /\ <<"response">> \in Seq(Server!Events) /\ HasEnd(<<"response">>)
    BY EndIsEnd DEF Ends
  <2> QED BY <1>e, <2>1, <2>2, StepServes
<1>6. ASSUME NEW n \in Turns, Server!CancelStream(n)
      PROVE  \A k \in Turns : Serves(k)
  <2>1. /\ calls[n].state # "none" /\ ~calls[n].connected
        /\ Server!Step(n, "over", <<>>)
    BY <1>6 DEF Server!CancelStream, Server!Streaming
  <2> QED BY <1>e, <2>1, StepServes
<1>7. ASSUME NEW n \in Turns, Server!Save(n) PROVE \A k \in Turns : Serves(k)
  <2>1. calls[n].state # "none" /\ Server!Step(n, "saved", <<>>)
    BY <1>7 DEF Server!Save
  <2>2. "saved" \in States \ {"none"}
    BY DEF States
  <2> QED BY <1>e, <2>1, <2>2, StepServes
<1>8. ASSUME NEW n \in Turns, Server!YieldDone(n) \/ Server!Run(n)
      PROVE  \A k \in Turns : Serves(k)
  <2> DEFINE done == IF calls[n].connected THEN Append(calls[n].events, "done")
                     ELSE calls[n].events
  <2>1. /\ calls[n].state # "none"
        /\ \/ calls' = [calls EXCEPT ![n].state = "ending",
                                     ![n].answer = <<Answer(n)>>,
                                     ![n].events = done]
           \/ calls' = [calls EXCEPT ![n].state = "ran",
                                     ![n].answer = <<Answer(n)>>]
           \/ Server!Step(n, "over", <<"reset">>)
    BY <1>8 DEF Server!YieldDone, Server!Run, Server!Streaming, CallsTyped,
                Answer, Server!Message, Page!Message
  <2>2. calls[n] \in Server!Calls /\ calls[n].events \in Seq(Server!Events)
    BY DEF CallsTyped, Server!Calls
  <2>3. done = IF calls[n].connected THEN calls[n].events \o <<"done">>
               ELSE calls[n].events
    BY <2>2, AppendIsConcat DEF Server!Events
  <2>4. <<"done">> \in Seq(Server!Events)
    BY DEF Server!Events
  <2>5. HasEnd(calls[n].events) => HasEnd(done)
    BY <2>2, <2>3, <2>4, EndStays
  <2> HIDE DEF done
  <2>6. ASSUME NEW state \in {"ending", "ran"}, NEW answer,
               NEW events \in {done, calls[n].events},
               calls' = [calls EXCEPT
                           ![n] = [calls[n] EXCEPT !.state = state,
                                                   !.answer = answer,
                                                   !.events = events]]
        PROVE  \A k \in Turns : Serves(k)
    <3> DEFINE c == [calls[n] EXCEPT !.state = state, !.answer = answer,
                                     !.events = events]
    <3>1. /\ c.state = state /\ c.events = events
          /\ c.connected = calls[n].connected
      BY <2>2 DEF Server!Calls
    <3>2. calls' = [calls EXCEPT ![n] = c]
      BY <2>6
    <3> HIDE DEF c
    <3>3. calls'[n] = c /\ \A k \in Turns : k # n => calls'[k] = calls[k]
      BY <3>2 DEF CallsTyped
    <3>4. Serves(n)
      BY <2>1, <2>5, <3>1, <3>3 DEF Serves
    <3> QED BY <3>3, <3>4 DEF Serves
  <2>7. CASE calls' = [calls EXCEPT ![n].state = "ending",
                                    ![n].answer = <<Answer(n)>>,
                                    ![n].events = done]
    <3>1. calls' = [calls EXCEPT
                      ![n] = [calls[n] EXCEPT !.state = "ending",
                                              !.answer = <<Answer(n)>>,
                                              !.events = done]]
      BY <2>7 DEF CallsTyped
    <3> QED BY <2>6, <3>1
  <2>8. CASE calls' = [calls EXCEPT ![n].state = "ran",
                                    ![n].answer = <<Answer(n)>>]
    <3> DEFINE events == calls[n].events
    <3>1. [calls[n] EXCEPT !.state = "ran", !.answer = <<Answer(n)>>] =
            [calls[n] EXCEPT !.state = "ran", !.answer = <<Answer(n)>>,
                             !.events = events]
      BY <2>2 DEF Server!Calls
    <3>2. calls' = [calls EXCEPT
                      ![n] = [calls[n] EXCEPT !.state = "ran",
                                              !.answer = <<Answer(n)>>]]
      BY <2>8 DEF CallsTyped
    <3>3. calls' = [calls EXCEPT
                      ![n] = [calls[n] EXCEPT !.state = "ran",
                                              !.answer = <<Answer(n)>>,
                                              !.events = events]]
      BY <3>1, <3>2
    <3>4. events \in {done, calls[n].events}
      OBVIOUS
    <3> QED BY <2>6, <3>3, <3>4
  <2>9. CASE Server!Step(n, "over", <<"reset">>)
    <3>1. <<"reset">> \in Seq(Server!Events) /\ HasEnd(<<"reset">>)
      BY EndIsEnd DEF Ends
    <3> QED BY <1>e, <2>1, <2>9, <3>1, StepServes
  <2> QED BY <2>1, <2>7, <2>8, <2>9
<1>9. Server!Start \/ Server!GetSession => UNCHANGED calls
  BY DEF Server!Start, Server!GetSession
<1> QED
  BY <1>1, <1>2, <1>3, <1>4, <1>5, <1>6, <1>7, <1>8, <1>9, <1>t
  DEF Server!Next, Server!Handle

\* A step that leaves the call send reads alone, or serves it, and every call
\* that is not made.
LEMMA AwaitedStays ==
  ASSUME Awaited, PageTyped, Cursor, UNCHANGED turns,
         pc' \in {pc, "idle", "classify"}, pc' = "read" => pc = "read",
         \A k \in Turns : Serves(k)
  PROVE  Awaited'
<1>1. ASSUME NEW n \in Turns, calls'[n].state = "none"
      PROVE  calls'[n].connected
  BY <1>1 DEF Awaited, Serves
<1>2. ASSUME pc' = "read"
      PROVE  /\ calls'[turns].connected
             /\ calls'[turns].state = "over" => HasEnd(calls'[turns].events)
  <2>1. pc = "read" /\ turns \in Turns
    BY <1>2 DEF PageTyped
  <2> QED BY <2>1 DEF Awaited, Serves
<1> QED BY <1>1, <1>2 DEF Awaited

\* An event is read: the end of the answer ends send, any other leaves it.
LEMMA ReadAwaits ==
  ASSUME IInv, Awaited, Page!Read
  PROVE  Awaited'
<1> DEFINE old == calls[turns].events
           event == Head(old)
           new == IF event = "error" THEN <<>> ELSE Tail(old)
           there == calls[turns].connected /\ event # "error"
<1>0. /\ CallsTyped /\ turns \in Turns /\ turns' = turns
      /\ pc = "read" /\ old # <<>> /\ calls[turns].state # "none"
      /\ calls[turns].connected
  <2>1. pc = "read" /\ old # <<>> /\ turns' = turns
    BY DEF Page!Read
  <2> QED BY <2>1 DEF IInv, SInv, PInv, Typed, PageTyped, Cursor, Awaited
<1>1. calls' = [calls EXCEPT ![turns].events = new, ![turns].connected = there]
  BY <1>0 DEF Page!Read, CallsTyped
<1>2. event \in Ends => pc' = "idle"
  BY DEF Page!Read, Page!Fail, Page!Finish, Ends
<1>3. old \in Seq(Server!Events) /\ there \in BOOLEAN
  BY <1>0 DEF CallsTyped, Server!Calls
<1>4. /\ Tail(old) \in Seq(Server!Events) /\ Len(old) \in Nat
      /\ Len(Tail(old)) = Len(old) - 1 /\ event = old[1]
      /\ \A i \in 1..Len(Tail(old)) : Tail(old)[i] = old[i + 1]
  BY <1>0, <1>3, HeadTailProperties, LenProperties, EmptySeq
<1>5. HasEnd(old) /\ event \notin Ends => HasEnd(Tail(old))
  <2> SUFFICES ASSUME NEW j \in 1..Len(old), old[j] \in Ends, event \notin Ends
               PROVE  HasEnd(Tail(old))
    BY DEF HasEnd
  <2>1. j # 1
    BY <1>4
  <2>2. j - 1 \in 1..Len(Tail(old)) /\ (j - 1) + 1 = j
    BY <1>4, <2>1
  <2>3. Tail(old)[j - 1] = old[j]
    BY <1>4, <2>2
  <2> QED BY <2>2, <2>3 DEF HasEnd
<1>6. new \in Seq(Server!Events)
  BY <1>4, EventLists
<1>7. event \notin Ends => new = Tail(old) /\ there
  BY <1>0 DEF Ends
<1> HIDE DEF new, there, event
<1>8. /\ \A k \in Turns : k # turns => calls'[k] = calls[k]
      /\ calls'[turns].state = calls[turns].state
      /\ calls'[turns].connected = there /\ calls'[turns].events = new
  BY <1>0, <1>1, <1>3, <1>6, ClientReads
<1>9. ASSUME NEW n \in Turns, calls'[n].state = "none"
      PROVE  calls'[n].connected
  BY <1>0, <1>8, <1>9 DEF Awaited
<1>10. ASSUME pc' = "read"
       PROVE  there /\ (calls[turns].state = "over" => HasEnd(new))
  BY <1>0, <1>2, <1>5, <1>7, <1>10 DEF Awaited
<1> QED BY <1>0, <1>8, <1>9, <1>10 DEF Awaited

\* The page is loaded again: it reads no answer.
LEMMA ReloadAwaits ==
  ASSUME IInv, Awaited, Page!Reload
  PROVE  Awaited'
<1>0. CallsTyped /\ PageTyped /\ Cursor /\ pc' = "idle"
  BY DEF IInv, SInv, PInv, Typed, Page!Reload
<1>1. CASE pc = "read"
  <2>1. /\ turns \in Turns /\ calls[turns].state # "none"
        /\ calls' = [calls EXCEPT ![turns].events = <<>>,
                                  ![turns].connected = FALSE]
    BY <1>0, <1>1 DEF Page!Reload, PageTyped, Cursor, CallsTyped
  <2>2. /\ \A k \in Turns : k # turns => calls'[k] = calls[k]
        /\ calls'[turns].state = calls[turns].state
    BY <1>0, <2>1, EventLists, ClientReads
  <2> QED BY <1>0, <2>1, <2>2 DEF Awaited
<1>2. CASE pc # "read"
  <2>1. calls' = calls
    BY <1>2 DEF Page!Reload
  <2> QED BY <1>0, <2>1 DEF Awaited
<1> QED BY <1>1, <1>2

\* The call is made by a client that is there.
LEMMA ClassifiedAwaits ==
  ASSUME IInv, Awaited, Page!Classified
  PROVE  Awaited'
<1>0. /\ CallsTyped /\ PageTyped /\ Cursor
      /\ pc = "classify" /\ UNCHANGED turns
  BY DEF IInv, SInv, PInv, Typed, Page!Classified
<1>1. turns \in Turns /\ calls[turns].state = "none"
  <2>1. turns \in Turns /\ ~(turns < turns)
    BY <1>0 DEF PageTyped, Turns
  <2> QED BY <1>0, <2>1 DEF Cursor
<1>2. PICK stream \in BOOLEAN :
        calls' = [calls EXCEPT ![turns].state = "sent",
                               ![turns].stream = stream,
                               ![turns].session = session,
                               ![turns].messages = Page!ChatHistory(messages)]
  BY DEF Page!Classified
<1> DEFINE sent == Page!ChatHistory(messages)
           c == [calls[turns] EXCEPT !.state = "sent", !.stream = stream,
                                     !.session = session, !.messages = sent]
<1>3. calls' = [calls EXCEPT ![turns] = c] /\ calls[turns] \in Server!Calls
  BY <1>0, <1>1, <1>2 DEF CallsTyped
<1> HIDE DEF sent
<1>4. c.state = "sent" /\ c.connected = calls[turns].connected
  BY <1>3 DEF Server!Calls
<1> HIDE DEF c
<1>5. calls'[turns] = c /\ \A k \in Turns : k # turns => calls'[k] = calls[k]
  BY <1>0, <1>1, <1>3 DEF CallsTyped
<1>6. calls[turns].connected
  BY <1>1 DEF Awaited
<1> QED BY <1>0, <1>4, <1>5, <1>6 DEF Awaited

\* Every step keeps an answer coming.
LEMMA NextAwaits == IInv /\ Awaited /\ [Next]_vars => Awaited'
<1> SUFFICES ASSUME IInv, Awaited, [Next]_vars PROVE Awaited'
  OBVIOUS
<1>0. CallsTyped /\ PageTyped /\ Cursor
  BY DEF IInv, SInv, PInv, Typed
<1>s. UNCHANGED calls => \A k \in Turns : Serves(k)
  BY DEF Serves
<1>1. CASE ServerStep
  <2>1. UNCHANGED <<pc, turns>> /\ Server!Next
    BY <1>1 DEF ServerStep, pageVars
  <2> QED BY <1>0, <2>1, ServerServes, AwaitedStays
<1>2. CASE Page!Send
  <2>1. pc' = "classify" /\ UNCHANGED calls
    BY <1>2 DEF Page!Send
  <2> QED BY <2>1 DEF Awaited
<1>3. CASE \/ Page!RecoverHeaders \/ Page!RecoverBody
           \/ Page!NewSession \/ Page!Clear \/ UNCHANGED vars
  <2>1. UNCHANGED <<pc, turns, calls>>
    BY <1>3 DEF Page!RecoverHeaders, Page!RecoverBody, Page!NewSession,
                Page!Clear, Page!pageVars, vars, pageVars
  <2> QED BY <1>0, <1>s, <2>1, AwaitedStays
<1> QED BY <1>1, <1>2, <1>3, ReadAwaits, ReloadAwaits, ClassifiedAwaits
    DEF Next, PageStep, Page!Next, Page!Run

\* send never waits for a call that is over and has left it nothing to read:
\* whatever ends the call says so to a client that is there.
THEOREM AnswerComing == Spec => []AnswerIsComing
<1>1. Init => Awaited
  <2> SUFFICES ASSUME Init PROVE Awaited
    OBVIOUS
  <2>1. /\ pc = "idle"
        /\ calls = [n \in Turns |->
                      [state |-> "none", stream |-> FALSE, session |-> session,
                       messages |-> <<>>, answer |-> <<>>, events |-> <<>>,
                       connected |-> TRUE]]
    BY DEF Init, Page!Init, Turns
  <2> QED BY <2>1 DEF Awaited
<1>2. IInv /\ Awaited => AnswerIsComing
  <2> SUFFICES ASSUME IInv, Awaited, pc = "read", calls[turns].events = <<>>
               PROVE  calls[turns].state \notin {"none", "over"}
    BY DEF AnswerIsComing
  <2>1. calls[turns].state # "none"
    BY DEF IInv, PInv, Cursor
  <2>2. ~HasEnd(calls[turns].events)
    <3>1. Len(calls[turns].events) = 0
      BY ElementsOfNone
    <3> QED BY <3>1 DEF HasEnd
  <2> QED BY <2>1, <2>2 DEF Awaited
<1> QED BY <1>1, <1>2, Invariance, NextAwaits, PTL DEF Spec
=============================================================================
