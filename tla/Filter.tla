-------------------------------- MODULE Filter --------------------------------
(***************************************************************************)
(* The messages of a conversation that have certain roles, in their order: *)
(* the comprehensions of history.py and server.py and the page's filter.   *)
(* A recursive function, of which FilterTheorems says what it returns.     *)
(***************************************************************************)
EXTENDS Naturals, Sequences

\* What is kept of the first i messages.
Kept(messages, roles) ==
  LET kept[i \in 0..Len(messages)] ==
        IF i = 0 THEN <<>>
        ELSE IF messages[i].role \in roles THEN Append(kept[i - 1], messages[i])
        ELSE kept[i - 1]
  IN  kept

WithRoles(messages, roles) == Kept(messages, roles)[Len(messages)]
=============================================================================
