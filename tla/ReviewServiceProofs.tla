------------------------ MODULE ReviewServiceProofs ------------------------
(***************************************************************************)
(* Theorems about ReviewService, for any number of tasks, decide calls,     *)
(* approval calls, review rounds and crashes.                               *)
(***************************************************************************)
EXTENDS ReviewService, TLAPS

\* A call that has passed the pending check decides a row of a committed batch.
Past(h) == pc[h] \in InTransaction \/ Committed(h)

RequestsHaveRows ==
  \A h \in Requests : Past(h) =>
    /\ req[h] \in [row : Rows, decision : Decisions]
    /\ review[req[h].row] # "none"

RowsHaveBatches ==
  \A r \in Rows : review[r] # "none" => BatchOf(r) <= batches

\* Only a committed call decides a row.
DecidedRowsHaveDeciders ==
  \A r \in Rows : Decided(r) => \E g \in Requests : Committed(g) /\ req[g].row = r

\* What a COUNT of 0 means: every other row of the call's batch, and of the
\* batches before it, is decided, and stays so.
ZeroMeansDecided ==
  \A h \in zero :
    /\ pc[h] = "counted" \/ Committed(h)
    /\ \A r \in Rows : BatchOf(r) <= BatchOf(req[h].row) /\ r # req[h].row => ~Pending(r)

\* Call h is not the only one to decide its row.
Rivalled(h) == \E x \in Requests : x # h /\ Committed(x) /\ req[x].row = req[h].row

\* Two calls for different reviews of a batch cannot both count 0 unless a third
\* had already decided the review of one of them.
TwoZeroesAreRivalled ==
  \A g, h \in zero :
    SameBatch(g, h) /\ req[g].row # req[h].row => Rivalled(g) \/ Rivalled(h)

IInv == TypeOK /\ RequestsHaveRows /\ RowsHaveBatches /\ DecidedRowsHaveDeciders
          /\ ZeroMeansDecided /\ TwoZeroesAreRivalled

-----------------------------------------------------------------------------
LEMMA VerdictTypes == NoVerdict \in Verdicts /\ NoState \in GraphStates
<1>1. NoVerdict \in Verdicts
  BY DEF NoVerdict, Verdicts, Decisions
<1> QED
  BY <1>1 DEF NoState, GraphStates

LEMMA RowTypes ==
  ASSUME NEW r \in Rows
  PROVE  BatchOf(r) \in Batches /\ TaskOf(r) \in Tasks /\ VariantOf(r) \in VariantRows
BY DEF Rows, BatchOf, TaskOf, VariantOf, VariantRows

LEMMA FromTypes ==
  ASSUME NEW k \in Batches, NEW S \in SUBSET (Flags \X Tasks)
  PROVE  From(k, S) \in SUBSET Requested
BY DEF From, Requested, Origins

\* Every reachable state is well typed, initially ...
LEMMA InitTypeOK == Init => TypeOK
BY ConstantsAssumption, VerdictTypes
   DEF Init, TypeOK, Batches, NoRequest, InTransaction, Resuming, Settled

\* ... when a batch is persisted ...
LEMMA PersistTypeOK ==
  ASSUME TypeOK, NEW flagged, PersistBatch(flagged)
  PROVE  /\ status' = "awaiting_review" /\ batches' \in 0 .. MaxBatches
         /\ review' \in [Rows -> Decisions \union {"none", "pending"}]
         /\ variant' \in [VariantRows -> Decisions \union {"none", "new"}]
BY ConstantsAssumption DEF PersistBatch, TypeOK, Batches

\* ... and after each step.
LEMMA NextTypeOK == TypeOK /\ [Next]_vars => TypeOK'
<1> SUFFICES ASSUME TypeOK, [Next]_vars PROVE TypeOK'
  OBVIOUS
<1> USE DEF database, graph, handlers
<1>1. ASSUME NEW S \in SUBSET (Flags \X Tasks), WorkerPauses(S) PROVE TypeOK'
  <2>1. 1 \in Batches
    BY ConstantsAssumption DEF Batches
  <2>2. ckpt' \in GraphStates
    <3>1. From(1, S) \in SUBSET Requested
      BY <2>1, FromTypes
    <3> QED
      BY <1>1, <3>1, VerdictTypes DEF WorkerPauses, NoState, GraphStates
  <2> QED
    BY <1>1, <2>2, PersistTypeOK DEF WorkerPauses, TypeOK
<1>2. ASSUME WorkerFails PROVE TypeOK'
  BY <1>2 DEF WorkerFails, TypeOK
<1>3. ASSUME NEW a \in Approvers, ApprovalReads(a) PROVE TypeOK'
  BY <1>3 DEF ApprovalReads, TypeOK
<1>4. ASSUME NEW a \in Approvers, NEW d \in Decisions, ApprovalWrites(a, d) PROVE TypeOK'
  BY <1>4 DEF ApprovalWrites, TypeOK
<1>5. ASSUME NEW h \in Requests, NEW r \in Rows, NEW d \in Decisions, Check(h, r, d)
      PROVE  TypeOK'
  BY <1>5 DEF Check, TypeOK, Goto, InTransaction
<1>6. ASSUME NEW h \in Requests, Refuse(h) PROVE TypeOK'
  BY <1>6 DEF Refuse, TypeOK, Goto, Settled
<1>7. ASSUME NEW h \in Requests, Update(h) PROVE TypeOK'
  BY <1>7 DEF Update, TypeOK, Goto, InTransaction
<1>8. ASSUME NEW h \in Requests, Count(h) PROVE TypeOK'
  BY <1>8 DEF Count, TypeOK, Goto, InTransaction
<1>9. ASSUME NEW h \in Requests, Commit(h) PROVE TypeOK'
  <2>1. req[h].decision \in Decisions \union {"none"}
    BY DEF TypeOK, NoRequest
  <2> QED
    BY <1>9, <2>1 DEF Commit, TypeOK, Goto, Resuming, Settled
<1>10. ASSUME NEW h \in Requests, Collect(h) PROVE TypeOK'
  BY <1>10 DEF Collect, TypeOK, Goto, Resuming
<1>11. ASSUME NEW h \in Requests, Inject(h) PROVE TypeOK'
  BY <1>11, VerdictTypes DEF Inject, TypeOK, Goto, Resuming, GraphStates
<1>12. ASSUME NEW h \in Requests, Load(h) PROVE TypeOK'
  BY <1>12 DEF Load, TypeOK, Goto, Resuming
<1>13. ASSUME NEW h \in Requests, NEW S \in SUBSET (Flags \X Tasks), NEW failed \in BOOLEAN,
              Regenerate(h, S, failed)
       PROVE  TypeOK'
  <2> DEFINE k == NextRound(run[h]) + 1
             s == [run[h] EXCEPT !.round = NextRound(run[h]),
                                 !.flagged = @ \union From(k, S)]
  <2>1. k \in Batches /\ ckpt' = s /\ run' = [run EXCEPT ![h] = s]
    BY <1>13 DEF Regenerate
  <2>2. run[h] \in GraphStates /\ NextRound(run[h]) \in Nat
    BY DEF TypeOK, GraphStates, NextRound
  <2>3. From(k, S) \in SUBSET Requested
    <3> HIDE DEF k
    <3> QED  BY <2>1, FromTypes
  <2>4. s \in GraphStates
    <3> HIDE DEF k
    <3> QED  BY <2>2, <2>3 DEF GraphStates
  <2>5. ckpt' \in GraphStates /\ run' \in [Requests -> GraphStates]
    <3> HIDE DEF s
    <3> QED  BY <2>1, <2>4 DEF TypeOK
  <2>6. pc' \in [Requests -> {"idle"} \union InTransaction \union Resuming \union Settled]
    BY <1>13 DEF Regenerate, TypeOK, Goto, Resuming
  <2>7. UNCHANGED <<database, worker, approver, req, zero, decs, delivered>>
    BY <1>13 DEF Regenerate
  <2> HIDE DEF k, s
  <2> QED
    BY <2>5, <2>6, <2>7 DEF TypeOK
<1>14. ASSUME NEW h \in Requests, NEW D \in SUBSET Tasks, Publish(h, D) PROVE TypeOK'
  <2> DEFINE s == [run[h] EXCEPT !.round = NextRound(run[h]), !.at = "end"]
  <2>1. ckpt' \in GraphStates
    <3>1. run[h] \in GraphStates /\ NextRound(run[h]) \in Nat
      BY DEF TypeOK, GraphStates, NextRound
    <3>2. ckpt' = s
      BY <1>14 DEF Publish
    <3>3. s \in GraphStates
      BY <3>1 DEF GraphStates
    <3> QED  BY <3>2, <3>3
  <2> QED
    BY <1>14, <2>1 DEF Publish, TypeOK, Goto, Resuming
<1>15. ASSUME NEW h \in Requests, PersistAgain(h) PROVE TypeOK'
  BY <1>15, PersistTypeOK, VerdictTypes DEF PersistAgain, Finish, TypeOK, Goto, Settled
<1>16. ASSUME NEW h \in Requests, WriteStatus(h) PROVE TypeOK'
  BY <1>16, VerdictTypes DEF WriteStatus, Finish, TypeOK, Goto, Settled
<1>17. ASSUME NEW h \in Requests, Crash(h) PROVE TypeOK'
  BY <1>17, VerdictTypes DEF Crash, TypeOK, Goto, Settled
<1>18. CASE UNCHANGED vars
  BY <1>18 DEF vars, TypeOK
<1> QED
  BY <1>1, <1>2, <1>3, <1>4, <1>5, <1>6, <1>7, <1>8, <1>9, <1>10, <1>11, <1>12, <1>13,
     <1>14, <1>15, <1>16, <1>17, <1>18 DEF Next, Apply, Resume

\* The variables of the model keep the types its comments give them: the tables,
\* the checkpoint and the handlers' locals.
THEOREM TypeCorrect == Spec => []TypeOK
BY InitTypeOK, NextTypeOK, PTL DEF Spec

-----------------------------------------------------------------------------
\* What most steps do to the decide calls, as far as the invariant can see:
\* nobody new is past the check, counted or committed.
CallsKept ==
  /\ req' = req
  /\ zero' \subseteq zero
  /\ \A h \in Requests :
       /\ Committed(h)' <=> Committed(h)
       /\ Past(h)' => Past(h)
       /\ h \in zero' /\ pc[h] = "counted" => pc'[h] = "counted"

\* Every step keeps the calls, with or without a new batch, or checks, counts or
\* commits one decision.
LEMMA StepKinds ==
  ASSUME TypeOK, [Next]_vars
  PROVE  \/ CallsKept /\ UNCHANGED <<review, variant, batches>>
         \/ CallsKept /\ \E flagged : PersistBatch(flagged)
         \/ \E h \in Requests, r \in Rows, d \in Decisions : Check(h, r, d)
         \/ \E h \in Requests : Count(h) \/ Commit(h)
<1> DEFINE Quiet == CallsKept /\ UNCHANGED <<review, variant, batches>>
           Batch == CallsKept /\ \E flagged : PersistBatch(flagged)
<1> USE DEF database, graph, handlers, Goto
<1>1. UNCHANGED handlers => CallsKept
  BY DEF CallsKept, Committed, Past
<1>2. ASSUME NEW S \in SUBSET (Flags \X Tasks), WorkerPauses(S) PROVE Batch
  BY <1>1, <1>2 DEF WorkerPauses
<1>3. ASSUME WorkerFails PROVE Quiet
  BY <1>1, <1>3 DEF WorkerFails
<1>4. ASSUME NEW a \in Approvers,
             ApprovalReads(a) \/ \E d \in Decisions : ApprovalWrites(a, d)
      PROVE  Quiet
  BY <1>1, <1>4 DEF ApprovalReads, ApprovalWrites
<1>5. CASE UNCHANGED vars
  BY <1>1, <1>5 DEF vars
\* A handler that moves from p to q on the same side of the commit.
<1>6. ASSUME NEW h \in Requests, NEW q, pc' = [pc EXCEPT ![h] = q],
             req' = req, zero' \subseteq zero, h \in zero' => pc[h] # "counted",
             \/ pc[h] \in {"idle", "checked"} /\ q \in {"refused", "updated", "aborted"}
                  /\ (q = "updated" => pc[h] = "checked")
             \/ pc[h] \in {"updated", "counted"} /\ q = "aborted"
             \/ pc[h] \in Resuming /\ q \in Resuming \union {"done", "lost"}
      PROVE  CallsKept
  <2>1. \A g \in Requests : g # h => pc'[g] = pc[g]
    BY <1>6 DEF TypeOK
  <2>2. pc'[h] = q
    BY <1>6 DEF TypeOK
  <2>3. Committed(h)' <=> Committed(h)
    BY <1>6, <2>2 DEF Committed, Resuming
  <2>4. Past(h)' => Past(h)
    BY <1>6, <2>2, <2>3 DEF Past, InTransaction, Resuming
  <2>5. ASSUME NEW g \in Requests, g # h
        PROVE  (Committed(g)' <=> Committed(g)) /\ (Past(g)' <=> Past(g))
    BY <2>1, <2>5 DEF Past, Committed
  <2> QED
    BY <1>6, <2>1, <2>3, <2>4, <2>5 DEF CallsKept
<1>7. ASSUME NEW h \in Requests, Refuse(h) \/ Update(h) PROVE Quiet
  BY <1>6, <1>7 DEF Refuse, Update
<1>8. ASSUME NEW h \in Requests, Collect(h) \/ Inject(h) \/ Load(h) PROVE Quiet
  BY <1>6, <1>8 DEF Collect, Inject, Load, Resuming
<1>9. ASSUME NEW h \in Requests, NEW S \in SUBSET (Flags \X Tasks), NEW failed \in BOOLEAN,
             Regenerate(h, S, failed)
      PROVE  Quiet
  BY <1>6, <1>9 DEF Regenerate, Resuming
<1>10. ASSUME NEW h \in Requests, NEW D \in SUBSET Tasks, Publish(h, D) PROVE Quiet
  BY <1>6, <1>10 DEF Publish, Resuming
<1>11. ASSUME NEW h \in Requests, PersistAgain(h) PROVE Batch
  BY <1>6, <1>11 DEF PersistAgain, Finish, Resuming
<1>12. ASSUME NEW h \in Requests, WriteStatus(h) PROVE Quiet
  BY <1>6, <1>12 DEF WriteStatus, Finish, Resuming
<1>13. ASSUME NEW h \in Requests, Crash(h) PROVE Quiet
  BY <1>6, <1>13 DEF Crash, InFlight, InTransaction, Resuming
<1>14. ASSUME NEW h \in Requests, Apply(h) \/ Resume(h)
       PROVE  Quiet \/ Batch \/ Count(h) \/ Commit(h)
  <2> HIDE DEF Quiet, Batch
  <2> QED
    BY <1>7, <1>8, <1>9, <1>10, <1>11, <1>12, <1>14 DEF Apply, Resume
<1>15. CASE Next
  <2> HIDE DEF Quiet, Batch
  <2>1. \/ Quiet \/ Batch
        \/ \E h \in Requests, r \in Rows, d \in Decisions : Check(h, r, d)
        \/ \E h \in Requests : Count(h) \/ Commit(h)
    BY <1>2, <1>3, <1>4, <1>7, <1>13, <1>14, <1>15 DEF Next
  <2> QED
    BY <2>1 DEF Quiet, Batch
<1> QED
  BY <1>5, <1>15

-----------------------------------------------------------------------------
LEMMA InitIInv == Init => IInv
BY InitTypeOK
   DEF Init, IInv, RequestsHaveRows, RowsHaveBatches, DecidedRowsHaveDeciders,
       ZeroMeansDecided, TwoZeroesAreRivalled, Past, Committed, Decided, Decisions,
       InTransaction, Resuming

\* The parts of the invariant that speak of calls and rows survive a step that
\* keeps the calls, if no row of a committed batch changes.
LEMMA KeptIInv ==
  ASSUME IInv, TypeOK', CallsKept, batches <= batches',
         \A r \in Rows : review[r] # "none" => review'[r] = review[r],
         \A r \in Rows : review[r] = "none" /\ review'[r] # "none"
                           => review'[r] = "pending" /\ batches < BatchOf(r) /\ BatchOf(r) <= batches'
  PROVE  IInv'
<1> USE DEF CallsKept
<1>1. TypeOK /\ req' = req /\ zero' \subseteq zero /\ zero \subseteq Requests
  BY DEF IInv, TypeOK
<1>2. RequestsHaveRows'
  <2> SUFFICES ASSUME NEW h \in Requests, Past(h)'
               PROVE  /\ req[h] \in [row : Rows, decision : Decisions]
                      /\ review'[req[h].row] # "none"
    BY <1>1 DEF RequestsHaveRows
  <2>1. Past(h)
    OBVIOUS
  <2> QED
    BY <2>1 DEF IInv, RequestsHaveRows
<1>3. RowsHaveBatches'
  <2> SUFFICES ASSUME NEW r \in Rows, review'[r] # "none" PROVE BatchOf(r) <= batches'
    BY DEF RowsHaveBatches, BatchOf
  <2>1. BatchOf(r) \in Int /\ batches \in Int /\ batches' \in Int
    BY <1>1, RowTypes, ConstantsAssumption DEF TypeOK, Batches
  <2> QED
    BY <2>1 DEF IInv, RowsHaveBatches
<1>4. DecidedRowsHaveDeciders'
  <2> SUFFICES ASSUME NEW r \in Rows, review'[r] \in Decisions
               PROVE  \E g \in Requests : Committed(g)' /\ req[g].row = r
    BY <1>1 DEF DecidedRowsHaveDeciders, Decided
  <2>1. Decided(r)
    BY DEF Decided, Decisions
  <2> QED
    BY <2>1 DEF IInv, DecidedRowsHaveDeciders
<1>5. ASSUME NEW h \in zero, NEW r \in Rows, BatchOf(r) <= BatchOf(req[h].row),
             pc[h] = "counted" \/ Committed(h), review'[r] = "pending"
      PROVE  review[r] = "pending"
  <2>1. req[h].row \in Rows /\ BatchOf(req[h].row) <= batches
    BY <1>1, <1>5 DEF IInv, RequestsHaveRows, RowsHaveBatches, Past, InTransaction
  <2>2. BatchOf(r) \in Int /\ BatchOf(req[h].row) \in Int /\ batches \in Int
    BY <2>1, <1>1, RowTypes, ConstantsAssumption DEF TypeOK, Batches
  <2> QED
    BY <1>5, <2>1, <2>2
<1>6. ZeroMeansDecided'
  <2> SUFFICES ASSUME NEW h \in zero'
               PROVE  /\ pc'[h] = "counted" \/ Committed(h)'
                      /\ \A r \in Rows : BatchOf(r) <= BatchOf(req[h].row) /\ r # req[h].row
                                           => review'[r] # "pending"
    BY <1>1 DEF ZeroMeansDecided, Pending, BatchOf
  <2>1. h \in Requests /\ h \in zero /\ (pc[h] = "counted" \/ Committed(h))
    BY <1>1 DEF IInv, ZeroMeansDecided
  <2> QED
    BY <1>5, <2>1 DEF IInv, ZeroMeansDecided, Pending
<1>7. TwoZeroesAreRivalled'
  <2> SUFFICES ASSUME NEW g \in zero', NEW h \in zero',
                      SameBatch(g, h), req[g].row # req[h].row
               PROVE  Rivalled(g)' \/ Rivalled(h)'
    BY <1>1 DEF TwoZeroesAreRivalled, SameBatch, BatchOf
  <2>1. Rivalled(g) \/ Rivalled(h)
    BY <1>1 DEF IInv, TwoZeroesAreRivalled
  <2> QED
    BY <2>1, <1>1 DEF Rivalled
<1> QED
  BY <1>2, <1>3, <1>4, <1>6, <1>7 DEF IInv

LEMMA PersistIInv ==
  ASSUME IInv, TypeOK', CallsKept, NEW flagged, PersistBatch(flagged)
  PROVE  IInv'
<1>1. batches \in Int /\ batches' = batches + 1 /\ batches <= batches'
  BY DEF PersistBatch, IInv, TypeOK
<1>2. ASSUME NEW r \in Rows
      PROVE  /\ BatchOf(r) \in Int
             /\ review'[r] # review[r] => BatchOf(r) = batches' /\ review'[r] = "pending"
             /\ review[r] # "none" => BatchOf(r) <= batches
  <2>1. BatchOf(r) \in Int
    BY RowTypes, ConstantsAssumption DEF Batches
  <2>2. review'[r] = IF BatchOf(r) = batches' /\ <<r[2], r[3]>> \in flagged
                     THEN "pending" ELSE review[r]
    BY DEF PersistBatch, BatchOf
  <2> QED
    BY <2>1, <2>2 DEF IInv, RowsHaveBatches
<1>3. ASSUME NEW r \in Rows, review[r] # "none" PROVE review'[r] = review[r]
  BY <1>1, <1>2, <1>3
<1>4. ASSUME NEW r \in Rows, review[r] = "none", review'[r] # "none"
      PROVE  review'[r] = "pending" /\ batches < BatchOf(r) /\ BatchOf(r) <= batches'
  BY <1>1, <1>2, <1>4
<1> QED
  BY <1>1, <1>3, <1>4, KeptIInv

LEMMA CheckIInv ==
  ASSUME IInv, TypeOK', NEW h \in Requests, NEW r \in Rows, NEW d \in Decisions,
         Check(h, r, d)
  PROVE  IInv'
<1>1. /\ TypeOK /\ pc[h] = "idle" /\ review[r] = "pending" /\ pc'[h] = "checked"
      /\ req'[h] = [row |-> r, decision |-> d]
      /\ \A g \in Requests : g # h => pc'[g] = pc[g] /\ req'[g] = req[g]
      /\ UNCHANGED <<batches, review, zero>>
  BY DEF Check, IInv, TypeOK, Goto, Pending, database
<1>2. ~Past(h) /\ ~Committed(h) /\ ~Committed(h)' /\ h \notin zero
  BY <1>1 DEF IInv, ZeroMeansDecided, Past, Committed, InTransaction, Resuming
<1>3. \A g \in Requests : g # h => (Past(g)' <=> Past(g)) /\ (Committed(g)' <=> Committed(g))
  BY <1>1 DEF Past, Committed
<1>4. RequestsHaveRows'
  BY <1>1, <1>3 DEF IInv, RequestsHaveRows
<1>5. RowsHaveBatches'
  BY <1>1 DEF IInv, RowsHaveBatches, BatchOf
<1>6. DecidedRowsHaveDeciders'
  BY <1>1, <1>2, <1>3 DEF IInv, DecidedRowsHaveDeciders, Decided
<1>7. zero \subseteq Requests /\ \A g \in zero : g # h /\ pc'[g] = pc[g] /\ req'[g] = req[g]
  BY <1>1, <1>2 DEF TypeOK
<1>8. ZeroMeansDecided'
  BY <1>1, <1>3, <1>7 DEF IInv, ZeroMeansDecided, Pending, BatchOf
<1>9. ASSUME NEW g \in zero PROVE Rivalled(g) => Rivalled(g)'
  BY <1>2, <1>1, <1>3, <1>7 DEF Rivalled
<1>10. TwoZeroesAreRivalled'
  BY <1>1, <1>7, <1>9 DEF IInv, TwoZeroesAreRivalled, SameBatch, BatchOf
<1> QED
  BY <1>4, <1>5, <1>6, <1>8, <1>10 DEF IInv

\* The heart of the argument: a call that counts 0 has seen the rows of every
\* other last decider of its batch decided, and a last decider has seen the row
\* of this call decided: by somebody who is neither of the two.
LEMMA CountIInv ==
  ASSUME IInv, TypeOK', NEW h \in Requests, Count(h)
  PROVE  IInv'
<1>1. /\ TypeOK /\ pc[h] = "updated" /\ pc'[h] = "counted"
      /\ \A g \in Requests : g # h => pc'[g] = pc[g]
      /\ UNCHANGED <<batches, review, req>>
      /\ zero' \subseteq zero \union {h}
      /\ h \in zero' => \/ h \in zero
                        \/ \A r \in Rows : r # req[h].row => ~Pending(r)
  BY DEF Count, IInv, TypeOK, Goto, Pending, database
<1>2. ~Committed(h) /\ ~Committed(h)' /\ h \notin zero /\ Past(h)
  BY <1>1 DEF IInv, ZeroMeansDecided, Past, Committed, InTransaction, Resuming
<1>3. \A g \in Requests : (Past(g)' => Past(g)) /\ (Committed(g)' <=> Committed(g))
  BY <1>1, <1>2 DEF Past, Committed
<1>4. RequestsHaveRows' /\ RowsHaveBatches'
  BY <1>1, <1>3 DEF IInv, RequestsHaveRows, RowsHaveBatches, BatchOf
<1>5. DecidedRowsHaveDeciders'
  BY <1>1, <1>2, <1>3 DEF IInv, DecidedRowsHaveDeciders, Decided
<1>6. zero \subseteq Requests /\ zero' \subseteq Requests
  BY <1>1 DEF TypeOK
<1>7. ZeroMeansDecided'
  BY <1>1, <1>2, <1>3, <1>6 DEF IInv, ZeroMeansDecided, Pending, BatchOf
<1>8. ASSUME NEW g \in zero PROVE Rivalled(g) => Rivalled(g)'
  BY <1>1, <1>3 DEF Rivalled
<1>9. ASSUME NEW g \in zero, SameBatch(g, h), req[g].row # req[h].row PROVE Rivalled(h)'
  <2>1. req[h].row \in Rows /\ review[req[h].row] # "none"
    BY <1>2 DEF IInv, RequestsHaveRows
  <2>2. ~Pending(req[h].row)
    <3>1. BatchOf(req[h].row) = BatchOf(req[g].row) /\ BatchOf(req[h].row) \in Int
      BY <1>9, <2>1, RowTypes, ConstantsAssumption DEF SameBatch, Batches
    <3> QED  BY <2>1, <1>9, <3>1 DEF IInv, ZeroMeansDecided
  <2>3. Decided(req[h].row)
    BY <2>1, <2>2, <1>1 DEF TypeOK, Decided, Pending
  <2>4. PICK x \in Requests : Committed(x) /\ req[x].row = req[h].row
    BY <2>1, <2>3 DEF IInv, DecidedRowsHaveDeciders
  <2> QED
    BY <2>4, <1>1, <1>2, <1>3 DEF Rivalled
<1>10. TwoZeroesAreRivalled'
  <2> SUFFICES ASSUME NEW f \in zero', NEW g \in zero', SameBatch(f, g),
                      req[f].row # req[g].row
               PROVE  Rivalled(f)' \/ Rivalled(g)'
    BY <1>1 DEF TwoZeroesAreRivalled, SameBatch, BatchOf
  <2>1. CASE f \in zero /\ g \in zero
    BY <2>1, <1>8 DEF IInv, TwoZeroesAreRivalled
  <2>2. CASE f = h /\ g \in zero
    BY <2>2, <1>9 DEF SameBatch
  <2>3. CASE f \in zero /\ g = h
    BY <2>3, <1>9
  <2> QED
    BY <1>1, <2>1, <2>2, <2>3
<1> QED
  BY <1>4, <1>5, <1>7, <1>10 DEF IInv

LEMMA CommitIInv ==
  ASSUME IInv, TypeOK', NEW h \in Requests, Commit(h)
  PROVE  IInv'
<1>1. /\ TypeOK /\ pc[h] = "counted" /\ Past(h) /\ Committed(h)' /\ ~Committed(h)
      /\ \A g \in Requests : g # h => pc'[g] = pc[g]
      /\ UNCHANGED <<batches, req, zero>>
  BY DEF Commit, IInv, TypeOK, Goto, Past, Committed, InTransaction, Resuming
<1>2. req[h].row \in Rows /\ req[h].decision \in Decisions /\ review[req[h].row] # "none"
  BY <1>1 DEF IInv, RequestsHaveRows
<1>3. \A r \in Rows : review'[r] = IF r = req[h].row THEN req[h].decision ELSE review[r]
  BY <1>1, <1>2 DEF Commit, TypeOK
<1>4. /\ req[h].decision # "none" /\ req[h].decision # "pending"
      /\ \A r \in Rows : review'[r] = "none" <=> review[r] = "none"
  BY <1>2, <1>3 DEF Decisions
<1>5. \A g \in Requests : (Past(g)' <=> Past(g)) /\ (Committed(g) => Committed(g)')
  BY <1>1 DEF Past, Committed
<1>6. RequestsHaveRows'
  BY <1>1, <1>4, <1>5 DEF IInv, RequestsHaveRows
<1>7. RowsHaveBatches'
  BY <1>1, <1>4 DEF IInv, RowsHaveBatches, BatchOf
<1>8. DecidedRowsHaveDeciders'
  BY <1>1, <1>2, <1>3, <1>5 DEF IInv, DecidedRowsHaveDeciders, Decided
<1>9. zero \subseteq Requests
  BY <1>1 DEF TypeOK
<1>10. ZeroMeansDecided'
  BY <1>1, <1>3, <1>4, <1>5, <1>9 DEF IInv, ZeroMeansDecided, Pending, BatchOf
<1>11. TwoZeroesAreRivalled'
  BY <1>1, <1>5, <1>9 DEF IInv, TwoZeroesAreRivalled, SameBatch, BatchOf, Rivalled
<1> QED
  BY <1>6, <1>7, <1>8, <1>10, <1>11 DEF IInv

LEMMA NextIInv == IInv /\ [Next]_vars => IInv'
<1> SUFFICES ASSUME IInv, [Next]_vars PROVE IInv'
  OBVIOUS
<1>1. TypeOK /\ TypeOK'
  BY NextTypeOK DEF IInv
<1>2. ASSUME CallsKept, UNCHANGED <<review, variant, batches>> PROVE IInv'
  BY <1>1, <1>2, KeptIInv DEF TypeOK
<1> QED
  BY <1>1, <1>2, StepKinds, PersistIInv, CheckIInv, CountIInv, CommitIInv

\* A batch of reviews is resumed at most once, unless one of its campaign's
\* reviews was decided by two calls: the COUNT in apply_decision elects one last
\* decider among the reviewers of different variants, without any lock.
THEOREM OneResume == Spec => []OneResumePerBatch
<1>1. IInv => OneResumePerBatch
  <2> SUFFICES ASSUME IInv, NEW g \in Requests, NEW h \in Requests, g # h,
                      Resumes(g), Resumes(h), SameBatch(g, h)
               PROVE  DoubleDecision
    BY DEF OneResumePerBatch
  <2>1. CASE req[g].row = req[h].row
    BY <2>1 DEF DoubleDecision, Resumes
  <2>2. CASE req[g].row # req[h].row
    BY <2>2 DEF IInv, TwoZeroesAreRivalled, Rivalled, DoubleDecision, Resumes
  <2> QED
    BY <2>1, <2>2
<1> QED
  BY <1>1, InitIInv, NextIInv, PTL DEF Spec

-----------------------------------------------------------------------------
DecisionsOn(v) == {review[r] : r \in {q \in Rows : VariantOf(q) = v /\ Decided(q)}}

\* The agreement of the two tables survives a step that leaves both alone ...
LEMMA AgreeKept ==
  ASSUME VariantsReflectReviews, UNCHANGED <<review, variant>>
  PROVE  VariantsReflectReviews'
BY DEF VariantsReflectReviews, Decided

\* ... a new batch, whose rows are all fresh in both tables ...
LEMMA AgreePersist ==
  ASSUME IInv, VariantsReflectReviews, NEW flagged, PersistBatch(flagged)
  PROVE  VariantsReflectReviews'
<1>1. /\ TypeOK /\ RowsHaveBatches /\ batches \in Nat /\ batches + 1 \in Batches
      /\ "pending" \notin Decisions /\ "none" \notin Decisions
  BY DEF IInv, TypeOK, PersistBatch, Batches, Decisions
<1>2. \A r \in Rows : r[1] = batches + 1 => ~Decided(r) /\ ~Decided(r)'
  BY <1>1 DEF RowsHaveBatches, BatchOf, PersistBatch, Decided
<1>3. \A r \in Rows : r[1] # batches + 1 => review'[r] = review[r]
  BY DEF PersistBatch
<1>4. ASSUME NEW v \in VariantRows
      PROVE  /\ DecisionsOn(v)' = DecisionsOn(v)
             /\ v[1] = batches + 1 => DecisionsOn(v) = {} /\ variant'[v] = "new"
             /\ v[1] # batches + 1 => variant'[v] = variant[v]
  <2>1. \A q \in Rows : VariantOf(q) = v => q[1] = v[1]
    BY DEF VariantOf, Rows, VariantRows
  <2>2. CASE v[1] = batches + 1
    <3>1. \A q \in Rows : VariantOf(q) = v => ~Decided(q) /\ ~Decided(q)'
      BY <1>2, <2>1, <2>2
    <3> QED
      BY <2>2, <3>1 DEF DecisionsOn, PersistBatch
  <2>3. CASE v[1] # batches + 1
    <3>1. \A q \in Rows : VariantOf(q) = v => review'[q] = review[q]
      BY <1>3, <2>1, <2>3
    <3> QED
      BY <2>3, <3>1 DEF DecisionsOn, PersistBatch, Decided
  <2> QED
    BY <2>2, <2>3
<1> QED
  BY <1>4 DEF VariantsReflectReviews, DecisionsOn

\* ... and a commit, which writes one decision into both.
LEMMA AgreeCommit ==
  ASSUME IInv, VariantsReflectReviews, NEW h \in Requests, Commit(h)
  PROVE  VariantsReflectReviews'
<1>1. PICK r \in Rows, d \in Decisions :
        TypeOK /\ r = req[h].row /\ d = req[h].decision
  BY DEF IInv, RequestsHaveRows, Commit, Past, InTransaction
<1>2. VariantOf(r) \in VariantRows
  BY <1>1, RowTypes
<1>3. /\ \A q \in Rows : review'[q] = IF q = r THEN d ELSE review[q]
      /\ \A v \in VariantRows : variant'[v] = IF v = VariantOf(r) THEN d ELSE variant[v]
  BY <1>1, <1>2 DEF Commit, TypeOK
<1>4. d \in DecisionsOn(VariantOf(r))'
  BY <1>1, <1>3 DEF DecisionsOn, Decided
<1>5. \A v \in VariantRows : v # VariantOf(r) => DecisionsOn(v)' = DecisionsOn(v)
  BY <1>1, <1>3 DEF DecisionsOn, Decided
<1> QED
  BY <1>3, <1>4, <1>5 DEF VariantsReflectReviews, DecisionsOn

\* However decisions on a variant race, also on one review or through the two
\* requests of one variant, review_requests and content_variants end up agreeing.
THEOREM TablesAgree == Spec => []VariantsReflectReviews
<1>1. Init => VariantsReflectReviews
  <2> SUFFICES ASSUME Init, NEW v \in VariantRows
               PROVE  DecisionsOn(v) = {} /\ variant[v] = "none"
    BY DEF VariantsReflectReviews, DecisionsOn
  <2> QED
    BY DEF Init, DecisionsOn, Decided, Decisions
<1>2. IInv /\ VariantsReflectReviews /\ [Next]_vars => VariantsReflectReviews'
  <2> SUFFICES ASSUME IInv, VariantsReflectReviews, [Next]_vars
               PROVE  VariantsReflectReviews'
    OBVIOUS
  <2>1. ASSUME NEW h \in Requests, NEW r \in Rows, NEW d \in Decisions, Check(h, r, d)
        PROVE  VariantsReflectReviews'
    <3>1. UNCHANGED <<review, variant>>
      BY <2>1 DEF Check, database
    <3> QED  BY <3>1, AgreeKept
  <2>2. ASSUME NEW h \in Requests, Count(h) PROVE VariantsReflectReviews'
    <3>1. UNCHANGED <<review, variant>>
      BY <2>2 DEF Count, database
    <3> QED  BY <3>1, AgreeKept
  <2>3. TypeOK
    BY DEF IInv
  <2> QED
    BY <2>1, <2>2, <2>3, StepKinds, AgreeKept, AgreePersist, AgreeCommit
<1> QED
  BY <1>1, <1>2, InitIInv, NextIInv, PTL DEF Spec
-----------------------------------------------------------------------------
\* Call h is inside resume_campaign.
AtWork(h) == pc[h] \in Resuming

\* Until the worker has paused there is no batch, and the thread is fresh.
StartsClean ==
  worker = "running" => batches = 0 /\ delivered = {} /\ ckpt = NoState

\* While no review is decided twice, one call at most is at work, over decided
\* reviews only, and only the latest batch has open ones.
OneAtWork ==
  /\ \A g, h \in Requests : AtWork(g) /\ AtWork(h) => g = h
  /\ \A h \in Requests, r \in Rows : ~(AtWork(h) /\ Pending(r))
  /\ \A r \in Rows : Pending(r) => BatchOf(r) = batches

\* What that call has loaded is the saved checkpoint, which no other call moves:
\* every batch has a round of its own and a finished thread has mailed once.
OwnsCheckpoint ==
  /\ \A h \in Requests : pc[h] \in {"running", "persist"} => run[h] = ckpt /\ ckpt.at = "gate"
  /\ \A h \in Requests : pc[h] = "persist" => batches <= ckpt.round
  /\ batches <= ckpt.round + 1 /\ batches <= MaxReviewRounds + 1
  /\ ckpt.at = "gate" => ckpt.round <= MaxReviewRounds
  /\ delivered # {} => ckpt.at = "end"
  /\ \A p, q \in delivered : p[1] = q[1]

RunInv ==
  StartsClean /\ (~DoubleDecision => OneAtWork /\ OwnsCheckpoint /\ OpenReviewsAreAwaited)

-----------------------------------------------------------------------------
\* What the steps do that neither decide, persist nor move the checkpoint.
RunKept ==
  /\ UNCHANGED <<batches, review, ckpt, delivered>>
  /\ worker' = "running" => worker = "running"
  /\ \A h \in Requests : AtWork(h)' => AtWork(h)
  /\ \A h \in Requests : pc'[h] \in {"running", "persist"} => pc'[h] = pc[h] /\ run'[h] = run[h]
  /\ \A a \in Approvers : approver[a] = "written" => approver'[a] = "written"
  /\ \/ status' = status \/ worker = "running"
     \/ \E a \in Approvers : approver'[a] = "written"
     \/ \E h \in Requests : AtWork(h)

\* A step is one of those, or one of the six that are not.
LEMMA RunSteps ==
  ASSUME TypeOK, [Next]_vars
  PROVE  \/ RunKept
         \/ \E S \in SUBSET (Flags \X Tasks) : WorkerPauses(S)
         \/ \E h \in Requests :
              \/ Commit(h) \/ Inject(h) \/ PersistAgain(h) \/ (Load(h) /\ ckpt.at # "end")
              \/ \E S \in SUBSET (Flags \X Tasks), failed \in BOOLEAN : Regenerate(h, S, failed)
              \/ \E D \in SUBSET Tasks : Publish(h, D)
<1> USE DEF database, graph, handlers, Goto, AtWork
<1>1. CASE UNCHANGED vars
  BY <1>1 DEF vars, RunKept
<1>2. ASSUME WorkerFails PROVE RunKept
  BY <1>2 DEF WorkerFails, RunKept
<1>3. ASSUME NEW a \in Approvers, ApprovalReads(a) PROVE RunKept
  BY <1>3 DEF ApprovalReads, RunKept, TypeOK
<1>4. ASSUME NEW a \in Approvers, NEW d \in Decisions, ApprovalWrites(a, d) PROVE RunKept
  BY <1>4 DEF ApprovalWrites, RunKept, TypeOK
\* A handler that moves to q without taking up a resume or a run.
<1>5. ASSUME NEW h \in Requests, NEW q, pc' = [pc EXCEPT ![h] = q],
             q \in Resuming => pc[h] \in Resuming, q \notin {"running", "persist"},
             UNCHANGED <<batches, review, ckpt, delivered, worker, approver>>,
             status' = status \/ AtWork(h),
             \A g \in Requests : g # h => run'[g] = run[g]
      PROVE  RunKept
  BY <1>5 DEF RunKept, TypeOK
<1>6. ASSUME NEW h \in Requests, NEW r \in Rows, NEW d \in Decisions, Check(h, r, d)
      PROVE  RunKept
  BY <1>5, <1>6 DEF Check, Resuming
<1>7. ASSUME NEW h \in Requests, Refuse(h) \/ Update(h) \/ Count(h) PROVE RunKept
  BY <1>5, <1>7 DEF Refuse, Update, Count, Resuming
<1>8. ASSUME NEW h \in Requests, Collect(h) \/ (Load(h) /\ ckpt.at = "end") PROVE RunKept
  BY <1>5, <1>8 DEF Collect, Load, Resuming
<1>9. ASSUME NEW h \in Requests, WriteStatus(h) PROVE RunKept
  <2>1. run' = [run EXCEPT ![h] = NoState] /\ pc' = [pc EXCEPT ![h] = "done"] /\ AtWork(h)
    BY <1>9 DEF WriteStatus, Finish, Resuming
  <2> QED
    BY <1>5, <1>9, <2>1 DEF WriteStatus, TypeOK, Resuming
<1>10. ASSUME NEW h \in Requests, Crash(h) PROVE RunKept
  <2>1. PICK q \in {"aborted", "lost"} : pc' = [pc EXCEPT ![h] = q]
    BY <1>10 DEF Crash
  <2>2. \A g \in Requests : g # h => run'[g] = run[g]
    BY <1>10 DEF Crash, TypeOK
  <2>3. UNCHANGED <<batches, review, ckpt, delivered, worker, approver, status>>
    BY <1>10 DEF Crash
  <2>4. q \notin Resuming /\ q \notin {"running", "persist"}
    BY DEF Resuming
  <2> QED
    BY <1>5, <2>1, <2>2, <2>3, <2>4
<1> QED
  BY <1>1, <1>2, <1>3, <1>4, <1>6, <1>7, <1>8, <1>9, <1>10 DEF Next, Apply, Resume

\* Two deciders of one review stay two deciders of it.
LEMMA DoubleDecisionStays ==
  ASSUME IInv, [Next]_vars, DoubleDecision
  PROVE  DoubleDecision'
<1>1. PICK f, g \in Requests : f # g /\ Committed(f) /\ Committed(g) /\ req[f].row = req[g].row
  BY DEF DoubleDecision
<1>2. TypeOK
  BY DEF IInv
<1>3. ASSUME NEW h \in Requests, NEW r \in Rows, NEW d \in Decisions, Check(h, r, d)
      PROVE  DoubleDecision'
  <2>1. /\ ~Committed(h) /\ \A x \in Requests : x # h => req'[x] = req[x] /\ pc'[x] = pc[x]
    BY <1>2, <1>3 DEF Check, Goto, TypeOK, Committed, Resuming
  <2>2. f # h /\ g # h
    BY <1>1, <2>1
  <2> QED
    BY <1>1, <2>1, <2>2 DEF DoubleDecision, Committed
<1>4. ASSUME NEW h \in Requests, Count(h) \/ Commit(h) PROVE DoubleDecision'
  <2>1. ~Committed(h) /\ req' = req /\ \A x \in Requests : x # h => pc'[x] = pc[x]
    BY <1>2, <1>4 DEF Count, Commit, Goto, TypeOK, Committed, Resuming
  <2>2. f # h /\ g # h
    BY <1>1, <2>1
  <2> QED
    BY <1>1, <2>1, <2>2 DEF DoubleDecision, Committed
<1>5. CASE CallsKept
  BY <1>1, <1>5 DEF CallsKept, DoubleDecision
<1> QED
  BY <1>2, <1>3, <1>4, <1>5, StepKinds

\* A call that is at work has a row, so there is a batch and the worker is through.
LEMMA WorkNeedsBatch ==
  ASSUME IInv, StartsClean, NEW h \in Requests, Past(h)
  PROVE  worker # "running"
<1>1. req[h].row \in Rows /\ BatchOf(req[h].row) <= batches
  BY DEF IInv, RequestsHaveRows, RowsHaveBatches
<1>2. BatchOf(req[h].row) \in Batches /\ batches \in Nat
  BY <1>1, RowTypes DEF IInv, TypeOK
<1> QED
  BY <1>1, <1>2, ConstantsAssumption DEF StartsClean, Batches

LEMMA NoBatchNoReview ==
  ASSUME IInv, batches = 0
  PROVE  /\ \A r \in Rows : ~Pending(r)
         /\ \A h \in Requests : ~AtWork(h)
<1>1. ASSUME NEW r \in Rows, review[r] # "none" PROVE FALSE
  BY <1>1, RowTypes, ConstantsAssumption DEF IInv, RowsHaveBatches, Batches
<1> QED
  BY <1>1 DEF IInv, RequestsHaveRows, Past, Committed, AtWork, Pending

LEMMA KeptRunInv ==
  ASSUME IInv, RunInv, RunKept, DoubleDecision => DoubleDecision'
  PROVE  RunInv'
<1>1. StartsClean'
  BY DEF RunInv, RunKept, StartsClean
<1>2. ASSUME ~DoubleDecision' PROVE OneAtWork' /\ OwnsCheckpoint'
  BY <1>2 DEF RunInv, RunKept, OneAtWork, OwnsCheckpoint, Pending
<1>3. ASSUME ~DoubleDecision', ~OpenReviewsAreAwaited' PROVE FALSE
  <2>1. PICK r \in Rows : Pending(r)
    BY <1>3 DEF OpenReviewsAreAwaited, RunKept, Pending
  <2>2. \A a \in Approvers : approver'[a] # "written" /\ approver[a] # "written"
    BY <1>3 DEF OpenReviewsAreAwaited, RunKept
  <2>3. status = "awaiting_review" /\ \A h \in Requests : ~AtWork(h)
    BY <1>3, <2>1, <2>2 DEF RunInv, OpenReviewsAreAwaited, OneAtWork
  <2>4. worker # "running"
    BY <2>1, NoBatchNoReview DEF RunInv, StartsClean
  <2> QED
    BY <1>3, <2>2, <2>3, <2>4 DEF RunKept, OpenReviewsAreAwaited
<1> QED
  BY <1>1, <1>2, <1>3 DEF RunInv

LEMMA PausesRunInv ==
  ASSUME IInv, RunInv, TypeOK', NEW S \in SUBSET (Flags \X Tasks), WorkerPauses(S)
  PROVE  RunInv'
<1>1. /\ batches = 0 /\ delivered = {} /\ batches' = 1 /\ delivered' = {}
      /\ worker' = "paused" /\ status' = "awaiting_review" /\ pc' = pc
      /\ ckpt' = [NoState EXCEPT !.flagged = From(1, S)]
  BY DEF WorkerPauses, PersistBatch, RunInv, StartsClean, handlers
<1>2. \A h \in Requests : ~AtWork(h) /\ ~AtWork(h)'
  BY <1>1, NoBatchNoReview DEF AtWork
<1>3. \A r \in Rows : Pending(r)' => BatchOf(r) = batches'
  BY <1>1, NoBatchNoReview DEF WorkerPauses, PersistBatch, Pending, BatchOf
<1>4. OneAtWork'
  BY <1>2, <1>3 DEF OneAtWork, AtWork, BatchOf
<1>5. ckpt'.round = 0 /\ ckpt'.at = "gate"
  BY <1>1 DEF NoState
<1>6. OwnsCheckpoint'
  <2>1. \A h \in Requests : pc'[h] \notin {"running", "persist"}
    BY <1>2 DEF AtWork, Resuming
  <2> QED
    BY <1>1, <1>5, <2>1, ConstantsAssumption DEF OwnsCheckpoint
<1> QED
  BY <1>1, <1>4, <1>6 DEF RunInv, StartsClean, OpenReviewsAreAwaited

\* A commit that does not decide a row for the second time finds nobody at work,
\* and its caller resumes only if it has decided the last open review.
LEMMA CommitRunInv ==
  ASSUME IInv, IInv', RunInv, DoubleDecision => DoubleDecision',
         NEW h \in Requests, Commit(h)
  PROVE  RunInv'
<1> DEFINE r == req[h].row
<1>1. /\ TypeOK /\ pc[h] = "counted" /\ Past(h) /\ Committed(h)' /\ ~Committed(h)
      /\ \A g \in Requests : g # h => pc'[g] = pc[g] /\ (Committed(g) <=> Committed(g)')
      /\ pc'[h] = IF h \in zero THEN "resume" ELSE "recorded"
      /\ UNCHANGED <<batches, req, zero, status, ckpt, worker, delivered, approver, run>>
  BY DEF Commit, IInv, TypeOK, Goto, Past, Committed, InTransaction, Resuming, graph
<1>2. r \in Rows /\ req[h].decision \in Decisions /\ review[r] # "none"
  BY <1>1 DEF IInv, RequestsHaveRows
<1>3. \A q \in Rows : review'[q] = IF q = r THEN req[h].decision ELSE review[q]
  BY <1>1, <1>2 DEF Commit, TypeOK
<1>4. \A q \in Rows : Pending(q)' => Pending(q) /\ q # r
  BY <1>2, <1>3 DEF Pending, Decisions
<1>5. StartsClean'
  BY <1>1 DEF RunInv, StartsClean
<1>6. ASSUME ~DoubleDecision' PROVE OneAtWork' /\ OwnsCheckpoint' /\ OpenReviewsAreAwaited'
  <2>1. OneAtWork /\ OwnsCheckpoint /\ OpenReviewsAreAwaited
    BY <1>6 DEF RunInv
  <2>2. Pending(r)
    <3>1. SUFFICES ASSUME Decided(r) PROVE FALSE
      BY <1>1, <1>2 DEF TypeOK, Decided, Pending
    <3>2. PICK g \in Requests : Committed(g) /\ req[g].row = r
      BY <1>2, <3>1 DEF IInv, DecidedRowsHaveDeciders
    <3>3. g # h /\ Committed(g)' /\ req'[g].row = req'[h].row
      BY <1>1, <3>2
    <3> QED
      BY <1>1, <1>6, <3>3 DEF DoubleDecision
  <2>3. \A g \in Requests : ~AtWork(g)
    BY <1>2, <2>1, <2>2 DEF OneAtWork
  <2>4. \A g \in Requests : AtWork(g)' => g = h /\ h \in zero
    BY <1>1, <2>3 DEF AtWork, Resuming
  <2>5. ASSUME h \in zero, NEW q \in Rows, Pending(q)' PROVE FALSE
    <3>1. Pending(q) /\ q # r /\ BatchOf(q) = batches /\ BatchOf(r) = batches
      BY <1>2, <1>4, <2>1, <2>2, <2>5 DEF OneAtWork
    <3>2. BatchOf(q) <= BatchOf(r)
      BY <3>1, <1>1 DEF TypeOK
    <3> QED
      BY <2>5, <3>1, <3>2 DEF IInv, ZeroMeansDecided
  <2>6. OneAtWork'
    BY <1>1, <1>4, <2>1, <2>4, <2>5 DEF OneAtWork, BatchOf
  <2>7. OwnsCheckpoint'
    <3>1. \A g \in Requests : pc'[g] \notin {"running", "persist"}
      BY <1>1, <2>3 DEF AtWork, Resuming
    <3> QED
      BY <1>1, <2>1, <3>1 DEF OwnsCheckpoint
  <2>8. OpenReviewsAreAwaited'
    BY <1>1, <1>4, <2>1, <1>6 DEF OpenReviewsAreAwaited, RunInv
  <2> QED
    BY <2>6, <2>7, <2>8
<1> QED
  BY <1>5, <1>6 DEF RunInv

\* The steps of the one call at work that move the checkpoint or load it: nobody
\* else runs, so what they change is theirs alone.
LEMMA WorkRunInv ==
  ASSUME IInv, TypeOK', RunInv, DoubleDecision => DoubleDecision', NEW h \in Requests,
         AtWork(h), \A g \in Requests : g # h => pc'[g] = pc[g],
         UNCHANGED <<status, batches, review, worker, approver>>,
         AtWork(h)',
         ~DoubleDecision /\ OneAtWork /\ OwnsCheckpoint =>
           /\ pc'[h] \in {"running", "persist"} => run'[h] = ckpt' /\ ckpt'.at = "gate"
           /\ pc'[h] = "persist" => batches <= ckpt'.round
           /\ batches <= ckpt'.round + 1
           /\ ckpt'.at = "gate" => ckpt'.round <= MaxReviewRounds
           /\ delivered' # {} => ckpt'.at = "end"
           /\ \A p, q \in delivered' : p[1] = q[1]
  PROVE  RunInv'
<1>1. worker # "running" /\ StartsClean'
  BY WorkNeedsBatch DEF RunInv, StartsClean, AtWork, Past, Committed
<1>2. ASSUME ~DoubleDecision' PROVE OneAtWork' /\ OwnsCheckpoint' /\ OpenReviewsAreAwaited'
  <2>1. OneAtWork /\ OwnsCheckpoint /\ OpenReviewsAreAwaited
    BY <1>2 DEF RunInv
  <2>2. \A g \in Requests : g # h => ~AtWork(g) /\ ~AtWork(g)'
    BY <2>1 DEF OneAtWork, AtWork
  <2>3. OneAtWork'
    BY <2>1, <2>2 DEF OneAtWork, Pending, BatchOf
  <2>4. \A g \in Requests : pc'[g] \in {"running", "persist"} => g = h
    BY <2>2 DEF AtWork, Resuming
  <2>5. OwnsCheckpoint'
    BY <1>2, <2>1, <2>4 DEF OwnsCheckpoint
  <2>6. OpenReviewsAreAwaited'
    BY <1>2, <2>1 DEF OpenReviewsAreAwaited, RunInv, Pending
  <2> QED
    BY <2>3, <2>5, <2>6
<1> QED
  BY <1>1, <1>2 DEF RunInv

LEMMA LoadRunInv ==
  ASSUME IInv, TypeOK', RunInv, DoubleDecision => DoubleDecision', NEW h \in Requests,
         Inject(h) \/ (Load(h) /\ ckpt.at # "end")
  PROVE  RunInv'
<1> USE DEF database, graph
<1>1. TypeOK
  BY DEF IInv
<1>2. /\ AtWork(h) /\ AtWork(h)' /\ UNCHANGED <<status, batches, review, worker, approver, delivered>>
      /\ \A g \in Requests : g # h => pc'[g] = pc[g]
  BY <1>1 DEF Inject, Load, Goto, TypeOK, AtWork, Resuming
<1>3. /\ ckpt'.at = ckpt.at /\ ckpt'.round = ckpt.round /\ pc'[h] # "persist"
      /\ pc'[h] = "running" => run'[h] = ckpt' /\ ckpt'.at = "gate"
  BY <1>1 DEF Inject, Load, Goto, TypeOK, GraphStates
<1> QED
  BY <1>2, <1>3, WorkRunInv DEF OwnsCheckpoint

LEMMA RegenerateRunInv ==
  ASSUME IInv, TypeOK', RunInv, DoubleDecision => DoubleDecision', NEW h \in Requests,
         NEW S \in SUBSET (Flags \X Tasks), NEW failed \in BOOLEAN, Regenerate(h, S, failed)
  PROVE  RunInv'
<1> USE DEF database, graph
<1>1. TypeOK /\ run[h] \in GraphStates
  BY DEF IInv, TypeOK
<1>2. /\ pc[h] = "running" /\ Regenerates(run[h])
      /\ pc' = [pc EXCEPT ![h] = IF failed THEN "fail" ELSE "persist"]
      /\ UNCHANGED <<status, batches, review, worker, approver, delivered>>
  BY DEF Regenerate, Goto
<1>3. /\ AtWork(h) /\ AtWork(h)'
      /\ \A g \in Requests : g # h => pc'[g] = pc[g]
  BY <1>1, <1>2 DEF TypeOK, AtWork, Resuming
<1>4. /\ ckpt'.round = run[h].round + 1 /\ ckpt'.at = run[h].at /\ run'[h] = ckpt'
      /\ ckpt'.round <= MaxReviewRounds
  <2>1. NextRound(run[h]) = run[h].round + 1
    BY <1>2 DEF Regenerates, NextRound
  <2>2. ckpt' = [run[h] EXCEPT !.round = NextRound(run[h]),
                               !.flagged = @ \union From(NextRound(run[h]) + 1, S)]
    BY DEF Regenerate
  <2>3. run'[h] = ckpt'
    BY <1>1 DEF Regenerate, TypeOK
  <2> QED
    BY <1>1, <1>2, <2>1, <2>2, <2>3 DEF GraphStates, Regenerates
<1>5. batches \in Nat /\ ckpt.round \in Nat
  BY <1>1 DEF TypeOK, GraphStates
<1>6. ASSUME ~DoubleDecision, OneAtWork, OwnsCheckpoint
      PROVE  /\ ckpt'.at = "gate" /\ batches <= ckpt'.round /\ batches <= ckpt'.round + 1
             /\ delivered' = {}
  BY <1>2, <1>4, <1>5, <1>6 DEF OwnsCheckpoint
<1> QED
  BY <1>2, <1>3, <1>4, <1>6, WorkRunInv DEF OwnsCheckpoint

LEMMA PublishRunInv ==
  ASSUME IInv, TypeOK', RunInv, DoubleDecision => DoubleDecision', NEW h \in Requests,
         NEW D \in SUBSET Tasks, Publish(h, D)
  PROVE  RunInv'
<1> USE DEF database, graph
<1>1. TypeOK /\ run[h] \in GraphStates
  BY DEF IInv, TypeOK
<1>2. /\ pc[h] = "running" /\ pc' = [pc EXCEPT ![h] = "publish"]
      /\ delivered' = delivered \union ({h} \X D)
      /\ UNCHANGED <<status, batches, review, worker, approver>>
  BY DEF Publish, Goto
<1>3. /\ AtWork(h) /\ AtWork(h)' /\ pc'[h] = "publish"
      /\ \A g \in Requests : g # h => pc'[g] = pc[g]
  BY <1>1, <1>2 DEF TypeOK, AtWork, Resuming
<1>4. ckpt'.at = "end" /\ ckpt'.round \in Nat /\ ckpt'.round >= run[h].round
  BY <1>1 DEF Publish, GraphStates, NextRound
<1>5. batches \in Nat /\ ckpt.round \in Nat
  BY <1>1 DEF TypeOK, GraphStates
<1>6. ASSUME ~DoubleDecision, OneAtWork, OwnsCheckpoint
      PROVE  batches <= ckpt'.round + 1 /\ \A p, q \in delivered' : p[1] = q[1]
  BY <1>1, <1>2, <1>4, <1>5, <1>6 DEF OwnsCheckpoint, GraphStates
<1> QED
  BY <1>2, <1>3, <1>4, <1>6, WorkRunInv DEF OwnsCheckpoint

\* The call at work opens the next batch and leaves: its reviews are the only
\* open ones, and the round the regeneration has counted pays for the batch.
LEMMA PersistAgainRunInv ==
  ASSUME IInv, TypeOK', RunInv, DoubleDecision => DoubleDecision', NEW h \in Requests,
         PersistAgain(h)
  PROVE  RunInv'
<1>1. /\ pc[h] = "persist" /\ AtWork(h) /\ PersistBatch(run[h].flagged)
      /\ UNCHANGED <<ckpt, delivered, worker, approver>>
      /\ batches' = batches + 1 /\ status' = "awaiting_review"
  BY DEF PersistAgain, PersistBatch, AtWork, Resuming, graph
<1>2. pc'[h] = "done" /\ \A g \in Requests : g # h => pc'[g] = pc[g] /\ run'[g] = run[g]
  BY DEF PersistAgain, Finish, Goto, IInv, TypeOK
<1>3. StartsClean'
  BY <1>1, WorkNeedsBatch DEF RunInv, StartsClean, AtWork, Past, Committed
<1>4. ASSUME ~DoubleDecision' PROVE OneAtWork' /\ OwnsCheckpoint'
  <2>1. OneAtWork /\ OwnsCheckpoint
    BY <1>4 DEF RunInv
  <2>2. \A g \in Requests : ~AtWork(g)'
    BY <1>1, <1>2, <2>1 DEF OneAtWork, AtWork, Resuming
  <2>3. \A r \in Rows : Pending(r)' => BatchOf(r) = batches'
    BY <1>1, <2>1 DEF OneAtWork, PersistBatch, Pending, BatchOf
  <2>4. \A g \in Requests : pc'[g] \notin {"running", "persist"}
    BY <2>2 DEF AtWork, Resuming
  <2>5. batches \in Nat /\ ckpt.round \in Nat
    BY DEF IInv, TypeOK, GraphStates
  <2>6. batches' <= ckpt'.round + 1 /\ batches' <= MaxReviewRounds + 1
    BY <1>1, <2>1, <2>5, ConstantsAssumption DEF OwnsCheckpoint
  <2> QED
    BY <1>1, <2>1, <2>2, <2>3, <2>4, <2>6 DEF OneAtWork, OwnsCheckpoint, BatchOf
<1> QED
  BY <1>1, <1>3, <1>4 DEF RunInv, OpenReviewsAreAwaited

LEMMA InitRunInv == Init => RunInv
<1> SUFFICES ASSUME Init PROVE RunInv
  OBVIOUS
<1>1. \A h \in Requests : pc[h] = "idle"
  BY DEF Init
<1>2. \A r \in Rows : ~Pending(r)
  BY DEF Init, Pending
<1> QED
  BY <1>1, <1>2, ConstantsAssumption
     DEF Init, RunInv, StartsClean, OneAtWork, OwnsCheckpoint, OpenReviewsAreAwaited,
         AtWork, Resuming, NoState

LEMMA NextRunInv == IInv /\ RunInv /\ [Next]_vars => RunInv'
<1> SUFFICES ASSUME IInv, RunInv, [Next]_vars PROVE RunInv'
  OBVIOUS
<1>1. TypeOK /\ IInv' /\ TypeOK' /\ (DoubleDecision => DoubleDecision')
  BY NextIInv, DoubleDecisionStays DEF IInv
<1> QED
  BY <1>1, RunSteps, KeptRunInv, PausesRunInv, CommitRunInv, LoadRunInv, RegenerateRunInv, PublishRunInv,
     PersistAgainRunInv

-----------------------------------------------------------------------------
\* Unless two calls have decided one review, no run is resumed while a review of
\* its campaign is open: the last decider's COUNT has seen every other decided.
THEOREM RunsOverDecidedReviews == Spec => []NoRunOverOpenReviews
<1>1. RunInv => NoRunOverOpenReviews
  BY DEF RunInv, OneAtWork, NoRunOverOpenReviews, AtWork
<1> QED
  BY <1>1, InitIInv, InitRunInv, NextIInv, NextRunInv, PTL DEF Spec

\* Unless two calls have decided one review or the approval route has written,
\* an open review always shows as a campaign in awaiting_review.
THEOREM OpenReviewsShow == Spec => []OpenReviewsAreAwaited
<1>1. RunInv => OpenReviewsAreAwaited
  BY DEF RunInv, OpenReviewsAreAwaited
<1> QED
  BY <1>1, InitIInv, InitRunInv, NextIInv, NextRunInv, PTL DEF Spec

\* Unless two calls have decided one review, the gate's MAX_REVIEW_ROUNDS bounds
\* the batches a reviewer can be asked for.
THEOREM ReviewRoundsEnd == Spec => []RoundsAreCapped
<1>1. RunInv => RoundsAreCapped
  BY DEF RunInv, OwnsCheckpoint, RoundsAreCapped
<1> QED
  BY <1>1, InitIInv, InitRunInv, NextIInv, NextRunInv, PTL DEF Spec

\* Unless two calls have decided one review, one resumed run mails the campaign's
\* variants and no other does, however many rounds and crashes there are.
THEOREM MailedByOneRun == Spec => []DeliveredOnce
<1>1. RunInv => DeliveredOnce
  BY DEF RunInv, OwnsCheckpoint, DeliveredOnce
<1> QED
  BY <1>1, InitIInv, InitRunInv, NextIInv, NextRunInv, PTL DEF Spec
=============================================================================
