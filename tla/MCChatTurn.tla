----------------------------- MODULE MCChatTurn -----------------------------
(* TLC instances of ChatTurn.                                                 *)
EXTENDS ChatTurn, TLC

Sure(patch) == [f \in Fields |-> IF patch[f] = "none" THEN "none" ELSE "high"]
Told(intent, patch) ==
  [Silence EXCEPT !.intent = intent, !.patch = patch, !.confidence = Sure(patch)]

All(v) == [f \in Fields |-> IF f \in Required THEN v ELSE "none"]
Only(f, v) == [Nothing EXCEPT ![f] = v]

\* "Hello, we want ...", with the whole brief; a budget of 0, which the regular
\* expression finds as well; "run the campaign"; "go ahead, is it on the way? and
\* aim at b".
Fills == [Told("collect_brief", All("a")) EXCEPT !.greets = TRUE]
Empties == [Told("modify_brief", Only("token_budget", "blank"))
              EXCEPT !.found = Only("token_budget", "blank"), !.confidence["token_budget"] = "low"]
Runs == [Told("submit_campaign", Nothing) EXCEPT !.run = TRUE, !.yes = TRUE]
GoesAhead == [Told("check_status", Only("objective", "b")) EXCEPT !.yes = TRUE]

ChatMessages == {Fills, Empties, Runs, GoesAhead}
=============================================================================
