----------------------------- MODULE LlmCalls -----------------------------
(***************************************************************************)
(* The calls of one campaign to the LLM gateway, and what they leave in      *)
(* campaign_cost_attribution. A cost is 0 or 1: a call that costs something   *)
(* costs 1. Texts, the redaction of personal data and the metrics are left    *)
(* out.                                                                        *)
(***************************************************************************)
EXTENDS Naturals, FiniteSets

CONSTANTS
  Calls,
  MaxFailures   \* bound on failed writes, broken answers and processes that end

ASSUME MaxFailuresIsNumber == MaxFailures \in Nat
ASSUME CallsAreFinite == IsFiniteSet(Calls)

VARIABLES
  call,      \* the calls and how far each is
  rows,      \* campaign_cost_attribution
  pricing,   \* _MODEL_PRICING_CACHE of the one model in the one process
  failures,
  lost,      \* history: the calls whose row a failure has cost
  together   \* history: two calls asked for the prices at once

callVars == <<call, rows, pricing, failures, lost, together>>

\* A call is accounted for in its own course or in the stream's finally.
Places == {"try", "finally"}

InitCalls ==
  /\ call = [c \in Calls |-> [at |-> "idle", stream |-> FALSE, got |-> {}, accounted |-> FALSE,
                              place |-> "try", cost |-> 0]]
  /\ rows = {}
  /\ pricing = "unknown"
  /\ failures = 0
  /\ lost = {}
  /\ together = FALSE

RowsOf(c) == {r \in rows : r.call = c}
Fault == failures < MaxFailures /\ failures' = failures + 1

Start(c, stream) ==
  /\ call[c].at = "idle"
  /\ call' = [call EXCEPT ![c].at = "open", ![c].stream = stream]
  /\ UNCHANGED <<rows, pricing, failures, lost, together>>

\* What the gateway may say beside the text: a cost, in a header, and the tokens and
\* the model that took them.
Said == SUBSET {"cost", "tokens"}

Answer(c, got) ==
  /\ call[c].at = "open"
  /\ call' = [call EXCEPT ![c].at = "finalize", ![c].got = got, ![c].accounted = call[c].stream]
  /\ UNCHANGED <<rows, pricing, failures, lost, together>>

\* Without an answer a text of the wrapper's own stands in, at no cost. A stream
\* may break off after the header with the cost, and after the tokens.
HttpFails(c) ==
  /\ call[c].at = "open"
  /\ IF call[c].stream
       THEN \E got \in Said : call' = [call EXCEPT ![c].at = "finally", ![c].got = got]
       ELSE call' = [call EXCEPT ![c].at = "finalize"]
  /\ UNCHANGED <<rows, pricing, failures, lost, together>>

\* The consumer of a stream stops at a chunk, or is cancelled while it waits for one.
Cut(c, got) ==
  /\ call[c].at = "open"
  /\ call[c].stream
  /\ call' = [call EXCEPT ![c].at = "finally", ![c].got = got]
  /\ UNCHANGED <<rows, pricing, failures, lost, together>>

\* An answer that cannot be read raises past the fallback.
Breaks(c) ==
  /\ call[c].at = "open"
  /\ ~call[c].stream
  /\ Fault
  /\ lost' = lost \union {c}
  /\ call' = [call EXCEPT ![c].at = "done"]
  /\ UNCHANGED <<rows, pricing, together>>

\* Mutant: nothing remembers that the stream was accounted for.
FinallyAgain(c) ==
  /\ call[c].at = "finally"
  /\ call' = [call EXCEPT ![c].at = "finalize", ![c].place = "finally"]
  /\ UNCHANGED <<rows, pricing, failures, lost, together>>

Finally(c) ==
  /\ call[c].at = "finally"
  /\ call' = [call EXCEPT ![c].at = IF call[c].accounted THEN "done" ELSE "finalize", ![c].place = "finally"]
  /\ UNCHANGED <<rows, pricing, failures, lost, together>>

\* The finally gives 0.0 for the cost, whatever the header said.
Told(c, place) == place = "try" /\ "cost" \in call[c].got
Estimated(c, place) == ~Told(c, place) /\ "tokens" \in call[c].got

\* Mutant: the estimate is added to a cost that was reported.
FinalizeTwice(c) ==
  /\ call[c].at = "finalize"
  /\ call' = [call EXCEPT ![c].at = "insert",
                ![c].cost = (IF Told(c, call[c].place) THEN 1 ELSE 0)
                              + (IF "tokens" \in call[c].got /\ pricing # "none" THEN 1 ELSE 0)]
  /\ UNCHANGED <<rows, pricing, failures, lost, together>>

\* A cost that is missing is estimated from the tokens, by prices the gateway is
\* asked for when there is no answer of it yet.
Finalize(c) ==
  LET place == call[c].place IN
  /\ call[c].at = "finalize"
  /\ IF Estimated(c, place) /\ pricing = "unknown"
       THEN /\ call' = [call EXCEPT ![c].at = "asking"]
            /\ together' = (together \/ \E d \in Calls : call[d].at = "asking")
       ELSE /\ call' = [call EXCEPT ![c].at = "insert",
                          ![c].cost = IF Told(c, place) \/ (Estimated(c, place) /\ pricing = "known") THEN 1 ELSE 0]
            /\ UNCHANGED together
  /\ UNCHANGED <<rows, pricing, failures, lost>>

\* The answer, that there are no prices too, takes the place of whatever another
\* call has been told by now; no answer is taken for none.
Priced(c) ==
  /\ call[c].at = "asking"
  /\ pricing' \in {"known", "none"}
  /\ call' = [call EXCEPT ![c].at = "insert", ![c].cost = IF pricing' = "known" THEN 1 ELSE 0]
  /\ UNCHANGED <<rows, failures, lost, together>>

AfterRow(c) == IF call[c].stream /\ call[c].place = "try" THEN "finally" ELSE "done"

Insert(c) ==
  /\ call[c].at = "insert"
  /\ rows' = rows \union {[call |-> c, place |-> call[c].place, cost |-> call[c].cost]}
  /\ call' = [call EXCEPT ![c].at = "publish"]
  /\ UNCHANGED <<pricing, failures, lost, together>>

\* Mutant: a row that was not written is announced all the same.
InsertFailsLoud(c) ==
  /\ call[c].at = "insert"
  /\ Fault
  /\ lost' = lost \union {c}
  /\ call' = [call EXCEPT ![c].at = "publish"]
  /\ UNCHANGED <<rows, pricing, together>>

\* A failed INSERT is logged, a failed connection raises: no row, no event, and
\* the stream's finally does not try again.
InsertFails(c) ==
  /\ call[c].at = "insert"
  /\ Fault
  /\ lost' = lost \union {c}
  /\ call' = [call EXCEPT ![c].at = AfterRow(c)]
  /\ UNCHANGED <<rows, pricing, together>>

\* The event is published after the commit; where it goes is CampaignView's.
Publish(c) ==
  /\ call[c].at = "publish"
  /\ call' = [call EXCEPT ![c].at = AfterRow(c)]
  /\ UNCHANGED <<rows, pricing, failures, lost, together>>

\* A call is cancelled where no finally accounts for it, or the process ends; the
\* process after that, with prices of its own, is another behaviour.
Dies(c) ==
  /\ call[c].at \notin {"idle", "done"}
  /\ Fault
  /\ lost' = lost \union {c}
  /\ call' = [call EXCEPT ![c].at = "done"]
  /\ UNCHANGED <<rows, pricing, together>>

CallSteps(c) ==
  \/ \E stream \in BOOLEAN : Start(c, stream)
  \/ \E got \in Said : Answer(c, got) \/ Cut(c, got)
  \/ HttpFails(c) \/ Breaks(c) \/ Finally(c) \/ Finalize(c) \/ Priced(c) \/ Insert(c) \/ InsertFails(c)

-----------------------------------------------------------------------------

CallsTypeOK ==
  /\ call \in [Calls -> [at : {"idle", "open", "finally", "finalize", "asking", "insert", "publish", "done"},
                         stream : BOOLEAN, got : Said, accounted : BOOLEAN,
                         place : Places, cost : {0, 1}]]
  /\ rows \subseteq [call : Calls, place : Places, cost : {0, 1}]
  /\ pricing \in {"unknown", "known", "none"}
  /\ failures \in 0 .. MaxFailures
  /\ lost \subseteq Calls
  /\ together \in BOOLEAN

\* A cost that was told is kept, nothing is charged for what has neither cost nor
\* tokens, and an estimate goes by the one answer about the prices there is, unless
\* two calls asked at once, which may each be told something else.
RightCost(c, place, cost) ==
  /\ Told(c, place) => cost = 1
  /\ ~Told(c, place) /\ ~Estimated(c, place) => cost = 0
  /\ Estimated(c, place) /\ ~together => pricing # "unknown" /\ (cost = 1 <=> pricing = "known")

\* No call is ever paid for twice, however its stream ends. One that is over has
\* its row unless a failure cost it, and the row has the right cost; for a stream
\* that was cut or broke off this is what its tokens come to, or nothing: the cost
\* in its header is forgotten.
AccountedOnce ==
  \A c \in Calls :
    /\ Cardinality(RowsOf(c)) <= 1
    /\ call[c].at = "done" /\ c \notin lost => RowsOf(c) # {}
    /\ \A r \in RowsOf(c) : RightCost(c, r.place, r.cost)
=============================================================================
