------------------------------ MODULE ChatBrief ------------------------------
(***************************************************************************)
(* What a chat turn computes from the brief and the message: merging what   *)
(* was understood, what is missing, what changed, the confirmation gate and *)
(* what the assistant says. A value is a text or a list of texts up to      *)
(* whether it is there, whether it has more than blanks in it, and whether  *)
(* two of them are the same; for the token budget "blank" is 0.             *)
(* The raw_text of the brief and the wording of the replies are left out.   *)
(***************************************************************************)
EXTENDS Naturals, Sequences, Functions

CONSTANT Fields    \* the fields of a brief that are looked at

AllLists == {"key_messages", "channels", "locales", "audience_segments"}
AllSlots == <<"objective", "channels", "locales", "audience_segments", "token_budget">>
ASSUME FieldsAreKnown ==
  Fields \subseteq AllLists \union Range(AllSlots) \union {"target_audience", "tone_override"}

Lists == Fields \intersect AllLists
Slots == SelectSeq(AllSlots, LAMBDA f : f \in Fields)
Required == Range(Slots)
Values == {"none", "blank", "a", "b"}
Briefs == [Fields -> Values]
Nothing == [f \in Fields |-> "none"]

HasValue(b, f) == b[f] # "none" /\ (f \in Lists \/ b[f] # "blank")
MissingSlots(b) == {f \in Required : ~HasValue(b, f)}
IsComplete(b) == MissingSlots(b) = {}

\* A patch that has nothing for a field leaves the field alone.
Merge(b, patch) == [f \in Fields |-> IF patch[f] = "none" THEN b[f] ELSE patch[f]]

-----------------------------------------------------------------------------
(* The message: what the word lists and the regular expressions find in it,   *)
(* and what an LLM makes of it.                                               *)

Confidences == {"none", "low", "fair", "high"}

UserIntents ==
  {"collect_brief", "modify_brief", "submit_campaign", "check_status", "explain_progress",
   "show_agent_output", "rerun_campaign", "view_history", "iterate_campaign", "ask_product",
   "greeting", "other", "list_reviews", "decide_review"}

MessageTypes ==
  [run : BOOLEAN, yes : BOOLEAN, recap : BOOLEAN,    \* what the word lists find
   greets : BOOLEAN, bare : BOOLEAN,                 \* a greeting; one or thanks, and nothing else
   review : BOOLEAN,                                 \* an action on a review card
   found : Briefs,                                   \* the patch the regular expressions find
   intent : UserIntents, patch : Briefs, confidence : [Fields -> Confidences]]

\* A field found in the text has a confidence of 0.65.
FairWhereFound(m) == [f \in Fields |-> IF m.found[f] = "none" THEN "none" ELSE "fair"]

\* What the LLM says is completed by what was found.
Completed(m) ==
  [intent |-> m.intent,
   patch |-> Merge(m.found, m.patch),
   confidence |-> IF m.patch = Nothing /\ m.found # Nothing THEN FairWhereFound(m)
                  ELSE [f \in Fields |-> IF m.confidence[f] = "none" THEN FairWhereFound(m)[f]
                                         ELSE m.confidence[f]]]

\* An answer that is no JSON.
Garbled(m) == [intent |-> "other", patch |-> m.found, confidence |-> FairWhereFound(m)]

\* The call fails.
Misunderstood == [intent |-> "other", patch |-> Nothing, confidence |-> [f \in Fields |-> "none"]]

\* Without a call of the LLM.
Shortcut(m) == [Misunderstood EXCEPT !.intent = IF m.greets THEN "greeting" ELSE "other"]

Understandings(m) == IF m.bare THEN {Shortcut(m)} ELSE {Completed(m), Garbled(m), Misunderstood}

ExplicitRun(m, heard) == heard.intent = "submit_campaign" \/ m.run

CopilotIntents == {"check_status", "explain_progress", "show_agent_output", "view_history"}

\* A question about the campaign gets its answer from the database, and so does
\* the wish to run one where there is one.
IsCopilotTurn(active, m, heard) ==
  \/ heard.intent \in CopilotIntents
  \/ active # 0 /\ (heard.intent = "list_reviews" \/ ExplicitRun(m, heard))

\* Mutant: the gate does not ask whether a campaign is attached.
GateRunsAgain(seen, m, heard, brief) ==
  IF ~IsComplete(brief)
    THEN IF seen.status = "awaiting_confirmation" THEN "collect" ELSE "pass"
    ELSE IF ExplicitRun(m, heard) \/ (seen.status = "awaiting_confirmation" /\ m.yes) THEN "run"
    ELSE "playback"

Gate(seen, m, heard, brief) ==
  IF ~IsComplete(brief)
    THEN IF seen.status = "awaiting_confirmation" THEN "collect" ELSE "pass"
    ELSE IF seen.active # 0 \/ IsCopilotTurn(seen.active, m, heard) THEN "pass"
    ELSE IF ExplicitRun(m, heard) \/ (seen.status = "awaiting_confirmation" /\ m.yes) THEN "run"
    ELSE "playback"

-----------------------------------------------------------------------------
(* What the assistant says.                                                  *)

FirstMissing(b) == Head(SelectSeq(Slots, LAMBDA f : ~HasValue(b, f)))

Question(kind, about) == [kind |-> kind, about |-> about]
Says(kind) == Question(kind, {})

\* What the planner asks while the brief is incomplete. Which of the fields of
\* low confidence comes first is up to the answer of the LLM.
PlannerQuestions(m, heard, brief) ==
  LET missing == MissingSlots(brief)
      low == {f \in Fields : heard.confidence[f] = "low"}
      reach == missing \intersect {"channels", "audience_segments"}
  IN CASE m.greets -> {Says("greeting")}
       [] ~m.greets /\ low # {} -> {Question("clarify", {f}) : f \in low}
       [] ~m.greets /\ low = {} /\ reach # {} -> {Question("question", reach)}
       [] OTHER -> {Question("question", {FirstMissing(brief)})}

\* The status, the progress, an agent's output or the history, each in the words
\* of a helper of its own.
Report(intent) == Says(intent)

\* The answers that come from the database, not from the brief.
CopilotReply(active, heard) ==
  IF heard.intent \in CopilotIntents
    THEN IF active = 0 THEN Says("no campaign") ELSE Report(heard.intent)
    ELSE Says(IF heard.intent = "list_reviews" THEN "reviews" ELSE "already running")

\* Mutant: the decision to play the brief back does not reach the responder.
RepliesUnplayed(gate, seen, m, heard, brief) ==
  IF gate = "run" THEN {Says("queued")}
  ELSE IF IsCopilotTurn(seen.active, m, heard) THEN {CopilotReply(seen.active, heard)}
  ELSE IF IsComplete(brief) THEN {Says("complete")}
  ELSE PlannerQuestions(m, heard, brief)

Unplanned(playback, brief) ==
  IF playback THEN Says("playback")
  ELSE IF IsComplete(brief) THEN Says("complete")
  ELSE Question("question", {FirstMissing(brief)})

\* The fixed texts of the responder.
Planned(playback, greeting, m, heard, brief) ==
  IF playback THEN {Says("playback")}
  ELSE IF ~IsComplete(brief) THEN PlannerQuestions(m, heard, brief)
  ELSE {Says(IF greeting THEN "greeting" ELSE "complete")}

\* An LLM words the reply, unless it would ask for a part of the brief.
Worded(playback, greeting, brief) ==
  IF playback THEN {Says("playback")}
  ELSE IF IsComplete(brief) \/ greeting THEN {Says("worded")}
  ELSE {}

\* Without the planner (ENABLE_CONVERSATION_PLANNER) or with it, where the fixed
\* text is for an LLM that fails.
Replies(gate, seen, m, heard, brief) ==
  LET playback == gate = "playback" \/ m.recap
      greeting == seen.active = 0 /\ (m.greets \/ heard.intent = "greeting")
  IN IF gate = "run" THEN {Says("queued")}
     ELSE IF IsCopilotTurn(seen.active, m, heard) THEN {CopilotReply(seen.active, heard)}
     ELSE {Unplanned(playback, brief)} \union Planned(playback, greeting, m, heard, brief)
            \union Worded(playback, greeting, brief)
=============================================================================
