--------------------------- MODULE ReviewService ---------------------------
(***************************************************************************)
(* The human review of one campaign: src/backend/services/review_service.py *)
(* together with the routes that call it (POST /reviews/{id}/decide, the    *)
(* Airtable webhook, the review card of the chat WebSocket) and the coarse  *)
(* POST /campaigns/{id}/approval.                                           *)
(*                                                                          *)
(* Postgres runs at READ COMMITTED: a transaction sees the last committed   *)
(* value of every row, except its own writes; an UPDATE takes the row lock  *)
(* until commit; nothing in apply_decision locks the row it has read.  One  *)
(* action is one await of a handler, so handlers interleave between them.   *)
(*                                                                          *)
(* The LangGraph run is abstracted to its checkpoint (paused at the review  *)
(* gate, or finished) and to what a resumed run ends with; module Pipeline  *)
(* opens that box.                                                          *)
(***************************************************************************)
EXTENDS Integers, FiniteSets

CONSTANTS
  Tasks,            \* task ids of the campaign, one variant each
  Flags,            \* bound: the requests one generation makes for a task
  Requests,         \* decide calls, each made at most once
  Approvers,        \* calls of POST /campaigns/{id}/approval
  MaxReviewRounds,  \* settings.MAX_REVIEW_ROUNDS
  MaxBatches,       \* bound: how many review batches are ever persisted
  MaxCrashes        \* bound: how many decide calls die on their way

ASSUME ConstantsAssumption ==
  /\ MaxReviewRounds \in Nat
  /\ MaxBatches \in Nat \ {0}
  /\ MaxCrashes \in Nat

Decisions == {"approved", "rejected", "edited"}
Batches == 1 .. MaxBatches

\* Where a review request comes from: the generation whose aggregation flagged
\* the variant, and which of its aggregations (a variant that is flagged, rewritten
\* by reflexion and flagged again has two requests).
Origins == Batches \X Flags
Requested == Origins \X Tasks
\* A row of review_requests: the batch that inserted it, its origin and the
\* variant's task.  A batch inserts every request accumulated in the graph state,
\* old ones included.
Rows == {r \in Batches \X Origins \X Tasks : r[2][1] <= r[1]}
BatchOf(r) == r[1]
TaskOf(r) == r[3]
\* The content_variants row a review row points at: the last variant of its
\* task that the same batch inserted.
VariantRows == Batches \X Tasks
VariantOf(r) == <<r[1], r[3]>>
NoRequest == [row |-> <<0, <<0, "none">>, "none">>, decision |-> "none"]

VARIABLES
  status,    \* campaigns.status
  batches,   \* number of committed review batches
  review,    \* review_requests.status of each row, "none" before its insert
  variant,   \* content_variants.status of each row: "new" until decided
  ckpt,      \* the saved checkpoint of the campaign's thread
  worker,    \* the worker that runs the campaign up to its first pause
  approver,  \* where each approval call is
  pc,        \* where each decide call is
  req,       \* the row and the decision each decide call carries
  zero,      \* the calls whose COUNT of pending rows was 0
  decs,      \* the decisions each resuming call collected
  run,       \* the state each resumed run loaded
  delivered  \* <<h, t>>: the run of call h mailed the content of task t

vars == <<status, batches, review, variant, ckpt, worker, approver, pc, req,
          zero, decs, run, delivered>>
database == <<status, batches, review, variant>>
graph == <<ckpt, delivered>>
handlers == <<pc, req, zero, decs, run>>

Decided(r) == review[r] \in Decisions
Pending(r) == review[r] = "pending"

\* The program points of a decide call.  "checked", "updated" and "counted" are
\* inside its transaction, the last two after the UPDATE that locks the row;
\* the points of Resuming are inside resume_campaign.
InTransaction == {"checked", "updated", "counted"}
Resuming == {"resume", "inject", "load", "running", "persist", "publish", "fail"}
Settled == {"refused", "aborted", "recorded", "done", "lost"}
\* Mutant: the session of a committed call is not closed and keeps its locks.
HoldsLockAfterCommit(h) == pc[h] \in {"updated", "counted", "recorded", "done"}
HoldsLock(h) == pc[h] \in {"updated", "counted"}
Committed(h) == pc[h] \in Resuming \union {"recorded", "done", "lost"}
InFlight(h) == pc[h] \in InTransaction \union Resuming

Verdicts == [Tasks -> Decisions \union {"none"}]
NoVerdict == [t \in Tasks |-> "none"]
GraphStates == [at : {"gate", "end"}, round : Nat,
                flagged : SUBSET Requested, verdict : Verdicts]
NoState == [at |-> "gate", round |-> 0, flagged |-> {}, verdict |-> NoVerdict]

TypeOK ==
  /\ status \in {"running", "awaiting_review", "published", "failed", "cancelled"}
  /\ batches \in 0 .. MaxBatches
  /\ review \in [Rows -> Decisions \union {"none", "pending"}]
  /\ variant \in [VariantRows -> Decisions \union {"none", "new"}]
  /\ ckpt \in GraphStates
  /\ worker \in {"running", "paused", "failed"}
  /\ approver \in [Approvers -> {"idle", "read", "written", "refused"}]
  /\ pc \in [Requests -> {"idle"} \union InTransaction \union Resuming \union Settled]
  /\ req \in [Requests -> [row : Rows, decision : Decisions] \union {NoRequest}]
  /\ zero \in SUBSET Requests
  /\ decs \in [Requests -> Verdicts]
  /\ run \in [Requests -> GraphStates]
  /\ delivered \in SUBSET (Requests \X Tasks)

Init ==
  /\ status = "running"
  /\ batches = 0
  /\ review = [r \in Rows |-> "none"]
  /\ variant = [v \in VariantRows |-> "none"]
  /\ ckpt = NoState
  /\ worker = "running"
  /\ approver = [a \in Approvers |-> "idle"]
  /\ pc = [h \in Requests |-> "idle"]
  /\ req = [h \in Requests |-> NoRequest]
  /\ zero = {}
  /\ decs = [h \in Requests |-> NoVerdict]
  /\ run = [h \in Requests |-> NoState]
  /\ delivered = {}

-----------------------------------------------------------------------------
(* persist_review_batch: one transaction inserts a variant row per task and a *)
(* pending review row per accumulated request, and sets the campaign status   *)
(* whatever it was.                                                           *)

\* Mutant: the campaign status is not set.
PersistBatchSilently(flagged) ==
  /\ batches + 1 \in Batches
  /\ batches' = batches + 1
  /\ review' = [r \in Rows |-> IF r[1] = batches + 1 /\ <<r[2], r[3]>> \in flagged
                               THEN "pending" ELSE review[r]]
  /\ variant' = [v \in VariantRows |-> IF v[1] = batches + 1 THEN "new" ELSE variant[v]]
  /\ UNCHANGED status

PersistBatch(flagged) ==
  LET b == batches + 1 IN
  /\ b \in Batches
  /\ batches' = b
  /\ review' = [r \in Rows |-> IF r[1] = b /\ <<r[2], r[3]>> \in flagged
                               THEN "pending" ELSE review[r]]
  /\ variant' = [v \in VariantRows |-> IF v[1] = b THEN "new" ELSE variant[v]]
  /\ status' = "awaiting_review"

\* The requests that generation k adds to the state: S is a set of <<flag, task>>.
From(k, S) == {<<<<k, s[1]>>, s[2]>> : s \in S}

\* The worker's run pauses at the gate with the requests S.
WorkerPauses(S) ==
  /\ worker = "running"
  /\ worker' = "paused"
  /\ ckpt' = [NoState EXCEPT !.flagged = From(1, S)]
  /\ PersistBatch(From(1, S))
  /\ UNCHANGED <<approver, handlers, delivered>>

\* The worker's run collects an error, fails the budget or the brief, or raises.
WorkerFails ==
  /\ worker = "running"
  /\ worker' = "failed"
  /\ status' = "failed"
  /\ UNCHANGED <<batches, review, variant, graph, approver, handlers>>

-----------------------------------------------------------------------------
(* POST /campaigns/{id}/approval reads the status and, if it is reviewable,   *)
(* overwrites it; it looks at no review and does not resume the graph.        *)
ApprovalReads(a) ==
  /\ approver[a] = "idle"
  /\ approver' = [approver EXCEPT ![a] =
                    IF status \in {"awaiting_review", "running"} THEN "read" ELSE "refused"]
  /\ UNCHANGED <<database, graph, worker, handlers>>

\* Mutant: the approval's decision is stored as the campaign status.
ApprovalWritesDecision(a, d) ==
  /\ approver[a] = "read"
  /\ approver' = [approver EXCEPT ![a] = "written"]
  /\ status' = d
  /\ UNCHANGED <<batches, review, variant, graph, worker, handlers>>

ApprovalWrites(a, d) ==
  /\ approver[a] = "read"
  /\ approver' = [approver EXCEPT ![a] = "written"]
  /\ status' = IF d = "rejected" THEN "cancelled" ELSE "published"
  /\ UNCHANGED <<batches, review, variant, graph, worker, handlers>>

-----------------------------------------------------------------------------
(* apply_decision.                                                            *)
Goto(h, p) == pc' = [pc EXCEPT ![h] = p]

\* SELECT: the row must exist, be in the caller's brand scope and be pending.
Check(h, r, d) ==
  /\ pc[h] = "idle"
  /\ Pending(r)
  /\ req' = [req EXCEPT ![h] = [row |-> r, decision |-> d]]
  /\ Goto(h, "checked")
  /\ UNCHANGED <<database, graph, worker, approver, zero, decs, run>>

\* LookupError, PermissionError or ValueError: 404, 403 or 409.
Refuse(h) ==
  /\ pc[h] = "idle"
  /\ Goto(h, "refused")
  /\ UNCHANGED <<database, graph, worker, approver, req, zero, decs, run>>

\* UPDATE review_requests and content_variants, by id only: waits for the
\* transaction that holds one of the two rows and then overwrites what it wrote.
Update(h) ==
  /\ pc[h] = "checked"
  /\ \A g \in Requests : HoldsLock(g) => VariantOf(req[g].row) # VariantOf(req[h].row)
  /\ Goto(h, "updated")
  /\ UNCHANGED <<database, graph, worker, approver, req, zero, decs, run>>

\* Mutant: the COUNT is restricted to the variant that was decided.
CountOfVariant(h) ==
  /\ pc[h] = "updated"
  /\ Goto(h, "counted")
  /\ zero' = IF \E r \in Rows \ {req[h].row} : Pending(r) /\ VariantOf(r) = VariantOf(req[h].row)
             THEN zero ELSE zero \union {h}
  /\ UNCHANGED <<database, graph, worker, approver, req, decs, run>>

\* SELECT COUNT(*) of the campaign's pending rows: committed ones, not its own.
Count(h) ==
  /\ pc[h] = "updated"
  /\ Goto(h, "counted")
  /\ zero' = IF \E r \in Rows \ {req[h].row} : Pending(r) THEN zero ELSE zero \union {h}
  /\ UNCHANGED <<database, graph, worker, approver, req, decs, run>>

\* Mutant: the variant row is not written.
CommitReviewOnly(h) ==
  /\ pc[h] = "counted"
  /\ review' = [review EXCEPT ![req[h].row] = req[h].decision]
  /\ Goto(h, IF h \in zero THEN "resume" ELSE "recorded")
  /\ UNCHANGED <<status, batches, variant, graph, worker, approver, req, zero, decs, run>>

\* COMMIT publishes both rows and releases them; Airtable and the rejection
\* mail follow, best-effort.  The caller resumes if nothing was left pending.
Commit(h) ==
  LET r == req[h].row IN
  /\ pc[h] = "counted"
  /\ review' = [review EXCEPT ![r] = req[h].decision]
  /\ variant' = [variant EXCEPT ![VariantOf(r)] = req[h].decision]
  /\ Goto(h, IF h \in zero THEN "resume" ELSE "recorded")
  /\ UNCHANGED <<status, batches, graph, worker, approver, req, zero, decs, run>>

-----------------------------------------------------------------------------
(* resume_campaign.                                                           *)

\* SELECT every decided row of the campaign, of all batches and in no order,
\* into a dict by task: one of the decisions ever made on a task wins.
Collect(h) ==
  /\ pc[h] = "resume"
  /\ \E f \in Verdicts :
       /\ \A t \in Tasks :
            LET made == {review[r] : r \in {q \in Rows : TaskOf(q) = t /\ Decided(q)}}
            IN  IF made = {} THEN f[t] = "none" ELSE f[t] \in made
       /\ decs' = [decs EXCEPT ![h] = f]
  /\ Goto(h, "inject")
  /\ UNCHANGED <<database, graph, worker, approver, req, zero, run>>

\* aupdate_state writes the decisions into the saved checkpoint.
Inject(h) ==
  /\ pc[h] = "inject"
  /\ ckpt' = [ckpt EXCEPT !.verdict = decs[h]]
  /\ decs' = [decs EXCEPT ![h] = NoVerdict]
  /\ Goto(h, "load")
  /\ UNCHANGED <<database, worker, approver, req, zero, run, delivered>>

\* ainvoke(None) loads the checkpoint; a finished thread has nothing to run and
\* returns its "published" state.
Load(h) ==
  /\ pc[h] = "load"
  /\ IF ckpt.at = "end"
     THEN run' = run /\ Goto(h, "publish")
     ELSE run' = [run EXCEPT ![h] = ckpt] /\ Goto(h, "running")
  /\ UNCHANGED <<database, graph, worker, approver, req, zero, decs>>

\* review_gate and review_router on the loaded state.
AnyRejected(s) == \E t \in Tasks : s.verdict[t] = "rejected"
NextRound(s) == s.round + (IF AnyRejected(s) THEN 1 ELSE 0)
\* Mutant: the cap is compared with the round before it is counted.
RegeneratesOnceMore(s) == AnyRejected(s) /\ s.round <= MaxReviewRounds
Regenerates(s) == AnyRejected(s) /\ NextRound(s) <= MaxReviewRounds

\* The rejected campaign is regenerated and pauses again with the further
\* requests S, or has collected an error and will be marked failed.
Regenerate(h, S, failed) ==
  /\ pc[h] = "running"
  /\ Regenerates(run[h])
  /\ LET k == NextRound(run[h]) + 1
         s == [run[h] EXCEPT !.round = NextRound(run[h]),
                             !.flagged = @ \union From(k, S)]
     IN  /\ k \in Batches
         /\ ckpt' = s
         /\ run' = [run EXCEPT ![h] = s]
  /\ Goto(h, IF failed THEN "fail" ELSE "persist")
  /\ UNCHANGED <<database, worker, approver, req, zero, decs, delivered>>

\* publishing_agent delivers the variants in D, all of an eligible status: what
\* a reviewer rejected or edited is not.
Publish(h, D) ==
  /\ pc[h] = "running"
  /\ ~Regenerates(run[h])
  /\ \A t \in D : run[h].verdict[t] \in {"approved", "none"}
  /\ delivered' = delivered \union ({h} \X D)
  /\ ckpt' = [run[h] EXCEPT !.round = NextRound(run[h]), !.at = "end"]
  /\ Goto(h, "publish")
  /\ UNCHANGED <<database, worker, approver, req, zero, decs, run>>

Finish(h) == Goto(h, "done") /\ run' = [run EXCEPT ![h] = NoState]

PersistAgain(h) ==
  /\ pc[h] = "persist"
  /\ PersistBatch(run[h].flagged)
  /\ Finish(h)
  /\ UNCHANGED <<graph, worker, approver, req, zero, decs>>

WriteStatus(h) ==
  /\ \/ pc[h] = "publish" /\ status' = "published"
     \/ pc[h] = "fail" /\ status' = "failed"
  /\ Finish(h)
  /\ UNCHANGED <<batches, review, variant, graph, worker, approver, req, zero, decs>>

-----------------------------------------------------------------------------
\* The process or a connection dies.  Before the commit Postgres rolls back;
\* after it the decision stands and nobody resumes on the handler's behalf.
Crash(h) ==
  /\ InFlight(h)
  /\ Cardinality({g \in Requests : pc[g] \in {"aborted", "lost"}}) < MaxCrashes
  /\ Goto(h, IF pc[h] \in InTransaction THEN "aborted" ELSE "lost")
  /\ zero' = IF pc[h] \in InTransaction THEN zero \ {h} ELSE zero
  /\ decs' = [decs EXCEPT ![h] = NoVerdict]
  /\ run' = [run EXCEPT ![h] = NoState]
  /\ UNCHANGED <<database, graph, worker, approver, req>>

Apply(h) == Update(h) \/ Count(h) \/ Commit(h)
Resume(h) ==
  \/ Collect(h) \/ Inject(h) \/ Load(h)
  \/ \E S \in SUBSET (Flags \X Tasks), failed \in BOOLEAN : Regenerate(h, S, failed)
  \/ \E D \in SUBSET Tasks : Publish(h, D)
  \/ PersistAgain(h) \/ WriteStatus(h)

Next ==
  \/ \E S \in SUBSET (Flags \X Tasks) : WorkerPauses(S)
  \/ WorkerFails
  \/ \E a \in Approvers : ApprovalReads(a) \/ \E d \in Decisions : ApprovalWrites(a, d)
  \/ \E h \in Requests :
       \/ \E r \in Rows, d \in Decisions : Check(h, r, d)
       \/ Refuse(h) \/ Apply(h) \/ Resume(h) \/ Crash(h)

Spec == Init /\ [][Next]_vars

\* The event loop runs every handler that can run; nothing makes a reviewer act.
FairSpec == Spec /\ \A h \in Requests : WF_vars(Apply(h)) /\ WF_vars(Resume(h))

-----------------------------------------------------------------------------
(* Properties.                                                                *)

\* The last decider of batch b: its COUNT was 0, so its caller resumes.
Resumes(h) == Committed(h) /\ h \in zero
SameBatch(g, h) == BatchOf(req[g].row) = BatchOf(req[h].row)
\* Two calls have both decided one review: the second passed the pending check
\* before the first committed.
DoubleDecision ==
  \E g, h \in Requests : g # h /\ Committed(g) /\ Committed(h) /\ req[g].row = req[h].row

\* A batch is resumed by at most one decide call, however the deciders of its
\* different reviews interleave: of two last deciders the COUNT of at least one
\* still sees the other's row pending.  Only a review decided twice breaks this.
OneResumePerBatch ==
  \A g, h \in Requests :
    g # h /\ Resumes(g) /\ Resumes(h) /\ SameBatch(g, h) => DoubleDecision

\* The two tables apply_decision writes agree: a variant carries the decision of
\* one of its reviews exactly when one of them is decided.
VariantsReflectReviews ==
  \A v \in VariantRows :
    LET made == {review[r] : r \in {q \in Rows : VariantOf(q) = v /\ Decided(q)}}
    IN  IF made = {} THEN variant[v] \in {"none", "new"} ELSE variant[v] \in made

\* A resumed run never works over reviews that are still open, unless a review
\* was decided twice (then the second resume may run over the next batch).
NoRunOverOpenReviews ==
  (\E h \in Requests : pc[h] \in Resuming) /\ (\E r \in Rows : Pending(r)) => DoubleDecision

\* A campaign with open reviews shows as awaiting_review, unless the approval
\* route has overwritten its status or a review was decided twice.
OpenReviewsAreAwaited ==
  (\E r \in Rows : Pending(r)) /\ (\A a \in Approvers : approver[a] # "written") /\ ~DoubleDecision
    => status = "awaiting_review"

\* A variant is mailed by one resumed run at most, over all review rounds.
DeliveredOnce ==
  (\E g, h \in Requests, t \in Tasks :
     g # h /\ <<g, t>> \in delivered /\ <<h, t>> \in delivered) => DoubleDecision

\* MAX_REVIEW_ROUNDS caps the regenerations: the campaign is reviewed at most
\* that many times again after its first batch.
RoundsAreCapped == ~DoubleDecision => batches <= MaxReviewRounds + 1

\* Every decide call ends: deciders never wait for each other in a circle, and a
\* resume always comes to a status or to a new batch.
DecideCallsEnd == \A h \in Requests : InFlight(h) ~> ~InFlight(h)

-----------------------------------------------------------------------------
(* What the documents say and the code does not do.                           *)

\* review_service.py:5-7: once every review for a campaign is decided,
\* resume_campaign re-drives the run.  Here: nobody is at work and nothing has
\* crashed, every review of the latest batch is decided, so somebody resumed it.
DecidedBatchIsResumed ==
  /\ batches > 0
  /\ \E r \in Rows : BatchOf(r) = batches /\ review[r] # "none"
  /\ \A r \in Rows : ~Pending(r)
  /\ \A h \in Requests : pc[h] \in {"idle", "refused", "recorded", "done"}
  => \E h \in Requests : Resumes(h) /\ BatchOf(req[h].row) = batches
=============================================================================
