------------------------------ MODULE GraphRun ------------------------------
(***************************************************************************)
(* What the rest of the system relies on from the LangGraph pipeline of a   *)
(* campaign (src/backend/pipeline/graph.py): it works, stops at the review  *)
(* gate with some tasks flagged, is resumed with a decision for each of     *)
(* them, and then either works again, at most MaxReviewRounds times, or     *)
(* delivers, of every task that was not rejected or edited, what it will.   *)
(* Module Pipeline implements it.                                           *)
(***************************************************************************)
EXTENDS Naturals

CONSTANTS Tasks, MaxReviewRounds

VARIABLES
  at,        \* where the run is
  round,     \* how many resumes brought a rejection
  verdict,   \* the decision each task was last resumed with
  flagged,   \* the tasks somebody has to decide
  delivered  \* the tasks that were mailed

Decisions == {"approved", "rejected", "edited"}
NoVerdict == [t \in Tasks |-> "none"]

Init ==
  /\ at = "working"
  /\ round = 0
  /\ verdict = NoVerdict
  /\ flagged = {}
  /\ delivered = {}

Flag(S) ==
  /\ at = "working"
  /\ flagged' = flagged \union S
  /\ UNCHANGED <<at, round, verdict, delivered>>

Stop(p) ==
  /\ at = "working"
  /\ at' = p
  /\ UNCHANGED <<round, verdict, flagged, delivered>>

Resume(f) ==
  /\ at = "gate"
  /\ flagged # {}
  /\ \A t \in Tasks : f[t] # "none" <=> t \in flagged
  /\ verdict' = f
  /\ at' = "resumed"
  /\ UNCHANGED <<round, flagged, delivered>>

\* A rejection costs a round; within the cap it starts a new generation.
Route ==
  LET rejected == \E t \in Tasks : verdict[t] = "rejected"
  IN  /\ at = "resumed"
      /\ round' = IF rejected THEN round + 1 ELSE round
      /\ at' = IF rejected /\ round' <= MaxReviewRounds THEN "working" ELSE "publishing"
      /\ UNCHANGED <<verdict, flagged, delivered>>

Deliver(D) ==
  /\ at = "publishing"
  /\ \A t \in D : verdict[t] \in {"approved", "none"}
  /\ delivered' = D
  /\ at' = "end"
  /\ UNCHANGED <<round, verdict, flagged>>

Next ==
  \/ \E S \in SUBSET Tasks : Flag(S)
  \/ \E p \in {"gate", "failed"} : Stop(p)
  \/ \E f \in [Tasks -> Decisions \union {"none"}] : Resume(f)
  \/ Route
  \/ \E D \in SUBSET Tasks : Deliver(D)

vars == <<at, round, verdict, flagged, delivered>>
Spec == Init /\ [][Next]_vars
=============================================================================
