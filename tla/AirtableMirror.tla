--------------------------- MODULE AirtableMirror ---------------------------
(***************************************************************************)
(* The reviews of a batch in Postgres and the rows of the Airtable grid     *)
(* that show them: persist_review_batch and apply_decision write the grid   *)
(* after their commits, reviewers edit it at any time, and the poller of    *)
(* airtable_poll_reviews.py sends what it finds there to the airtable_decide *)
(* route. What a resume does to the campaign is in ReviewService.            *)
(***************************************************************************)
EXTENDS Naturals, FiniteSets

CONSTANTS
  Reviews,
  AppDecisions, \* the decisions the app's users take
  GridEdits,    \* what reviewers leave in the grid: a decision, a note, an email
  PageSize,    \* how many rows Airtable answers a poll with
  Calls,       \* bound on the calls the API works on at once
  MaxEdits,    \* bound on the edits of the reviewers in the grid
  MaxFailures  \* bound on the failures and timeouts of a behaviour

Decisions == {"approved", "rejected", "edited"}

ASSUME DecisionsAreKnown ==
  /\ AppDecisions \subseteq Decisions
  /\ GridEdits \subseteq [decision : {"Pending", "Approved", "Rejected", "Edited"},
                           noted : BOOLEAN, known : BOOLEAN]
ASSUME BoundsAreNumbers == MaxEdits \in Nat /\ MaxFailures \in Nat

VARIABLES
  db,        \* review_requests.status
  grid,      \* the rows of the grid; none before the first write
  mirror,    \* the reviews persist_review_batch still has to write to the grid
  call,      \* what the API does for each call
  batch,     \* the records the poller fetched and has not sent yet
  waiting,   \* the call the poller waits for, at most one
  edits,
  failures,
  doubt      \* history: reviews whose row may differ from the decision

vars == <<db, grid, mirror, call, batch, waiting, edits, failures, doubt>>

InGrid(d) == CASE d = "approved" -> "Approved" [] d = "rejected" -> "Rejected" [] d = "edited" -> "Edited"

\* known: the route takes the row for the reviewer it names, that is the email is
\* empty or some user's, and the review is there and within the key's brands.
NoRow == [decision |-> "none", noted |-> FALSE, known |-> TRUE, sync |-> "none"]
Free == [at |-> "free"]

Init ==
  /\ db = [r \in Reviews |-> "pending"]
  /\ grid = [r \in Reviews |-> NoRow]
  /\ mirror = Reviews
  /\ call = [c \in Calls |-> Free]
  /\ batch = {}
  /\ waiting = {}
  /\ edits = 0
  /\ failures = 0
  /\ doubt = {}

Failure ==
  /\ failures < MaxFailures
  /\ failures' = failures + 1

Goes(c, place) == call' = [call EXCEPT ![c].at = place]

\* The poller that waits for the call gets its answer.
Ends(c) ==
  /\ call' = [call EXCEPT ![c] = Free]
  /\ waiting' = waiting \ {c}

-----------------------------------------------------------------------------
(* persist_review_batch, after its commit.                                    *)

\* An upsert writes the fields it names and leaves the others of the row.
Mirror(r) ==
  /\ r \in mirror
  /\ mirror' = mirror \ {r}
  /\ grid' = [grid EXCEPT ![r].decision = "Pending", ![r].sync = "Not Synced"]
  /\ doubt' = IF db[r] = "pending" THEN doubt ELSE doubt \union {r}
  /\ UNCHANGED <<db, call, batch, waiting, edits, failures>>

\* One write fails and is passed over, or the process ends before the rest.
MirrorFails(lost) ==
  /\ lost # {}
  /\ mirror' = mirror \ lost
  /\ doubt' = doubt \union lost
  /\ Failure
  /\ UNCHANGED <<db, grid, call, batch, waiting, edits>>

-----------------------------------------------------------------------------
(* The reviewers in the grid, and the poller.                                 *)

EditGrid(r, e) ==
  /\ grid[r] # NoRow
  /\ edits < MaxEdits
  /\ edits' = edits + 1
  /\ grid' = [grid EXCEPT ![r].decision = e.decision, ![r].noted = e.noted, ![r].known = e.known]
  /\ doubt' = IF db[r] = "pending" THEN doubt ELSE doubt \union {r}
  /\ UNCHANGED <<db, mirror, call, batch, waiting, failures>>

\* Mutant: a row that came to an error is not looked at again.
ActionableOnce == {r \in Reviews : grid[r].decision \in {"Approved", "Rejected", "Edited"} /\ grid[r].sync = "Not Synced"}

Actionable == {r \in Reviews : grid[r].decision \in {"Approved", "Rejected", "Edited"} /\ grid[r].sync # "Synced"}

Pages ==
  {S \in SUBSET Actionable : Cardinality(S) = PageSize \/ (S = Actionable /\ Cardinality(S) < PageSize)}

\* It reads the first page and does not ask for the next.
Fetch ==
  /\ batch = {} /\ waiting = {}
  /\ Actionable # {}
  /\ \E page \in Pages :
       batch' = {[review |-> r, decision |-> grid[r].decision, noted |-> grid[r].noted,
                  known |-> grid[r].known] : r \in page}
  /\ UNCHANGED <<db, grid, mirror, call, waiting, edits, failures, doubt>>

Send(record, c) ==
  /\ waiting = {}
  /\ record \in batch
  /\ call[c] = Free
  /\ batch' = batch \ {record}
  /\ waiting' = {c}
  /\ call' = [call EXCEPT ![c] = [at |-> "validate", via |-> "grid", review |-> record.review,
                                  decision |-> record.decision, noted |-> record.noted,
                                  known |-> record.known]]
  /\ UNCHANGED <<db, grid, mirror, edits, failures, doubt>>

\* After 15 s the tick is given up; the call goes on.
TimesOut ==
  /\ waiting # {}
  /\ waiting' = {}
  /\ batch' = {}
  /\ Failure
  /\ UNCHANGED <<db, grid, mirror, call, edits, doubt>>

-----------------------------------------------------------------------------
(* The calls: airtable_decide, and the decisions of the app and the chat.     *)

\* The route takes an approval or a rejection with a note, and no edit.
Taken(decision, noted, known) ==
  known /\ (decision = "Approved" \/ (decision = "Rejected" /\ noted))

\* What apply_decision refuses whatever the status (a review that is gone, or out
\* of the brands) is refused here, before anything is read that can change.
Validate(c) ==
  /\ call[c].at = "validate"
  /\ IF ~Taken(call[c].decision, call[c].noted, call[c].known)
       THEN Goes(c, "error")
       ELSE call' = [call EXCEPT ![c].at = "check",
                                 ![c].decision = IF @ = "Approved" THEN "approved" ELSE "rejected"]
  /\ UNCHANGED <<db, grid, mirror, batch, waiting, edits, failures, doubt>>

\* The app offers the reviews that are pending when it lists them.
Decide(r, decision, c) ==
  /\ call[c] = Free
  /\ db[r] = "pending"
  /\ call' = [call EXCEPT ![c] = [at |-> "check", via |-> "app", review |-> r,
                                  decision |-> decision, noted |-> decision = "rejected",
                                  known |-> TRUE]]
  /\ UNCHANGED <<db, grid, mirror, batch, waiting, edits, failures, doubt>>

\* A review that is decided is a conflict for the app, and done for the grid.
Check(c) ==
  /\ call[c].at = "check"
  /\ \/ db[call[c].review] = "pending" /\ Goes(c, "update") /\ UNCHANGED waiting
     \/ db[call[c].review] # "pending" /\ call[c].via = "grid" /\ Goes(c, "mark") /\ UNCHANGED waiting
     \/ db[call[c].review] # "pending" /\ call[c].via = "app" /\ Ends(c)
  /\ UNCHANGED <<db, grid, mirror, batch, edits, failures, doubt>>

\* Mutant: the name the grid has for the decision is stored.
UpdateInGridTerms(c) ==
  /\ call[c].at = "update"
  /\ db' = [db EXCEPT ![call[c].review] = InGrid(call[c].decision)]
  /\ Goes(c, "sync")
  /\ UNCHANGED <<grid, mirror, batch, waiting, edits, failures, doubt>>

\* The update does not look at the status again. The one that leaves no review
\* of the batch pending is to resume the campaign.
Update(c) ==
  LET r == call[c].review
  IN /\ call[c].at = "update"
     /\ db' = [db EXCEPT ![r] = call[c].decision]
     /\ doubt' = IF db[r] = "pending" THEN doubt ELSE doubt \union {r}
     /\ Goes(c, IF \A q \in Reviews : db'[q] # "pending" THEN "syncLast" ELSE "sync")
     /\ UNCHANGED <<grid, mirror, batch, waiting, edits, failures>>

AtSync(c) == call[c].at \in {"sync", "syncLast"}

Synced(c) ==
  IF call[c].at = "syncLast" THEN Goes(c, "resume") /\ UNCHANGED waiting
  ELSE IF call[c].via = "grid" THEN Goes(c, "mark") /\ UNCHANGED waiting
  ELSE Ends(c)

\* Mutant: the row is marked and its decision left alone.
SyncMarkOnly(c) ==
  /\ AtSync(c)
  /\ grid' = [grid EXCEPT ![call[c].review].sync = "Synced"]
  /\ Synced(c)
  /\ UNCHANGED <<db, mirror, batch, edits, failures, doubt>>

Sync(c) ==
  /\ AtSync(c)
  /\ grid' = [grid EXCEPT ![call[c].review] =
                [decision |-> InGrid(call[c].decision), noted |-> call[c].noted,
                 known |-> grid[call[c].review].known, sync |-> "Synced"]]
  /\ Synced(c)
  /\ UNCHANGED <<db, mirror, batch, edits, failures, doubt>>

SyncFails(c) ==
  /\ AtSync(c)
  /\ doubt' = doubt \union {call[c].review}
  /\ Synced(c)
  /\ Failure
  /\ UNCHANGED <<db, grid, mirror, batch, edits>>

\* It may take longer than the poller waits.
Resume(c) ==
  /\ call[c].at = "resume"
  /\ IF call[c].via = "grid" THEN Goes(c, "mark") /\ UNCHANGED waiting ELSE Ends(c)
  /\ UNCHANGED <<db, grid, mirror, batch, edits, failures, doubt>>

\* Mutant: every answer marks the row as synced.
MarkAlwaysSynced(c) ==
  /\ call[c].at \in {"mark", "error"}
  /\ grid' = [grid EXCEPT ![call[c].review].sync = "Synced"]
  /\ Ends(c)
  /\ UNCHANGED <<db, mirror, batch, edits, failures, doubt>>

\* mark_synced writes the status of the row, by its record id.
Mark(c) ==
  /\ call[c].at \in {"mark", "error"}
  /\ grid' = [grid EXCEPT ![call[c].review].sync = IF call[c].at = "mark" THEN "Synced" ELSE "Error"]
  /\ Ends(c)
  /\ UNCHANGED <<db, mirror, batch, edits, failures, doubt>>

MarkFails(c) ==
  /\ call[c].at \in {"mark", "error"}
  /\ Ends(c)
  /\ Failure
  /\ UNCHANGED <<db, grid, mirror, batch, edits, doubt>>

\* Postgres fails, or the resume raises: the call is answered with a 500.
CallFails(c) ==
  /\ call[c].at \in {"validate", "check", "update", "resume"}
  /\ Ends(c)
  /\ Failure
  /\ UNCHANGED <<db, grid, mirror, batch, edits, doubt>>

\* The process of the API ends, and with it the poller's tick.
ApiDies ==
  /\ \E c \in Calls : call[c] # Free
  /\ call' = [c \in Calls |-> Free]
  /\ waiting' = {}
  /\ batch' = IF waiting = {} THEN batch ELSE {}
  /\ doubt' = doubt \union {call[c].review : c \in {d \in Calls : AtSync(d)}}
  /\ Failure
  /\ UNCHANGED <<db, grid, mirror, edits>>

-----------------------------------------------------------------------------

Poll == Fetch \/ \E record \in batch, c \in Calls : Send(record, c)

CallStep(c) ==
  Validate(c) \/ Check(c) \/ Update(c) \/ Sync(c) \/ Resume(c) \/ Mark(c)

Next ==
  \/ \E r \in Reviews :
       \/ Mirror(r)
       \/ \E e \in GridEdits : EditGrid(r, e)
       \/ \E d \in AppDecisions, c \in Calls : Decide(r, d, c)
  \/ \E lost \in {{r} : r \in mirror} \union {mirror} : MirrorFails(lost)
  \/ Poll
  \/ TimesOut
  \/ \E c \in Calls : CallStep(c) \/ SyncFails(c) \/ MarkFails(c) \/ CallFails(c)
  \/ ApiDies

Spec == Init /\ [][Next]_vars

\* The poller runs on, and so do the calls: Airtable, the LLMs and the database
\* answer or time out.
FairSpec ==
  /\ Spec
  /\ WF_vars(Poll)
  /\ \A c \in Calls : WF_vars(CallStep(c))

-----------------------------------------------------------------------------

Places == {"free", "validate", "check", "update", "sync", "syncLast", "resume", "mark", "error"}

TypeOK ==
  /\ db \in [Reviews -> Decisions \union {"pending"}]
  /\ grid \in [Reviews -> [decision : {"none", "Pending", "Approved", "Rejected", "Edited"},
                           noted : BOOLEAN, known : BOOLEAN, sync : {"none", "Not Synced", "Synced", "Error"}]]
  /\ mirror \subseteq Reviews
  /\ \A c \in Calls : call[c].at \in Places
  /\ batch \subseteq [review : Reviews, decision : {"Approved", "Rejected", "Edited"},
                      noted : BOOLEAN, known : BOOLEAN]
  /\ waiting \subseteq Calls /\ Cardinality(waiting) <= 1
  /\ edits \in 0 .. MaxEdits
  /\ failures \in 0 .. MaxFailures
  /\ doubt \subseteq Reviews

\* A row that says Synced belongs to a review that is decided: no error, retry
\* or late answer takes a reviewer's wish for done that Postgres has not got.
SyncedIsDecided == \A r \in Reviews : grid[r].sync = "Synced" => db[r] # "pending"

\* When the API is at rest the grid shows the decision of every decided review,
\* but for a write that failed, an edit of a decided row, a first write that
\* came after the decision, and two decisions at once.
GridShowsDecision ==
  mirror = {} /\ (\A c \in Calls : call[c] = Free) =>
    \A r \in Reviews \ doubt : db[r] # "pending" => grid[r].decision = InGrid(db[r])

\* What a reviewer decides in the grid arrives, unless the row changes again: calls
\* that time out or fail are made again. A row the route does not take stays an
\* error, and if the rows that wait do not fit on a page any of them may starve.
GridDecisionsArrive ==
  PageSize >= Cardinality(Reviews) =>
    \A r \in Reviews :
      LET taken == Taken(grid[r].decision, grid[r].noted, grid[r].known)
      IN taken /\ grid[r].sync # "Synced" ~> grid[r].sync = "Synced" \/ ~taken
=============================================================================
