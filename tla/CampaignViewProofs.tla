------------------------- MODULE CampaignViewProofs -------------------------
(***************************************************************************)
(* Theorems about CampaignView and the LLM calls under it, for any calls and   *)
(* failures, histories and sizes of pages: the accounting, the banner and the  *)
(* replay.                                                                     *)
(***************************************************************************)
EXTENDS CampaignView, FiniteSetTheorems, FunctionTheorems, SequenceTheorems, TLAPS

Has(c) == \E r \in rows : r.call = c

\* How far a call is tells whether it has its row, and whether the finally of its
\* stream will make one.
RowWhenDue(c) ==
  /\ call[c].at \in {"idle", "open", "finalize", "asking", "insert"} => ~Has(c)
  /\ call[c].at = "finally" /\ ~call[c].accounted => ~Has(c)
  /\ call[c].at = "publish" => Has(c)
  /\ call[c].at \in {"finally", "done"} /\ c \notin lost => Has(c) \/ (call[c].at = "finally" /\ ~call[c].accounted)
  /\ call[c].at \in {"idle", "open"} => ~call[c].accounted
  /\ call[c].at \in {"finalize", "asking", "insert", "publish"} /\ call[c].stream /\ call[c].place = "try"
       => call[c].accounted

\* The cost that goes into a row is right, and stays right: the one call that asks
\* for the prices does so because there is no answer yet.
PricedRight(c) ==
  /\ call[c].at = "insert" => RightCost(c, call[c].place, call[c].cost)
  /\ \A r \in rows : r.call = c => RightCost(c, r.place, r.cost)
  /\ call[c].at = "asking" => Estimated(c, call[c].place) /\ (~together => pricing = "unknown")

\* No call but this one asks for the prices.
Alone(c) == \A d \in Calls \ {c} : call[d].at # "asking"

OneAsks == ~together => \A c \in Calls : call[c].at = "asking" => Alone(c)

OneRow == \A r, q \in rows : r.call = q.call => r = q

CallInv == CallsTypeOK /\ OneRow /\ OneAsks /\ \A c \in Calls : RowWhenDue(c) /\ PricedRight(c)

CallRecords ==
  [at : {"idle", "open", "finally", "finalize", "asking", "insert", "publish", "done"},
   stream : BOOLEAN, got : Said, accounted : BOOLEAN,
   place : Places, cost : {0, 1}]

\* The step of one of the calls.
CallStep(c) == CallSteps(c) \/ Publish(c) \/ Dies(c)

-----------------------------------------------------------------------------
LEMMA InitAccounts == ASSUME InitCalls PROVE CallInv
<1>1. CallsTypeOK
  <2>1. {} \in Said
    BY DEF Said
  <2>2. call \in [Calls -> CallRecords]
    <3> DEFINE idle == [at |-> "idle", stream |-> FALSE, got |-> {}, accounted |-> FALSE, place |-> "try", cost |-> 0]
    <3>1. idle \in CallRecords
      BY <2>1 DEF CallRecords, Places
    <3>2. call = [c \in Calls |-> idle]
      BY DEF InitCalls
    <3> QED
      BY <3>1, <3>2
  <2>3. rows = {} /\ pricing = "unknown" /\ lost = {} /\ failures \in 0 .. MaxFailures
    BY MaxFailuresIsNumber DEF InitCalls
  <2>4. together \in BOOLEAN
    BY DEF InitCalls
  <2> QED
    BY <2>2, <2>3, <2>4 DEF CallsTypeOK, CallRecords
<1>2. OneRow /\ OneAsks
  BY DEF InitCalls, OneRow, OneAsks
<1>3. ASSUME NEW c \in Calls PROVE RowWhenDue(c) /\ PricedRight(c)
  BY DEF InitCalls, RowWhenDue, PricedRight, Has
<1> QED BY <1>1, <1>2, <1>3 DEF CallInv

\* A step of call c that keeps what is said of c keeps the rest: an answer about
\* the prices that somebody has relied on stays, unless two calls ask at once.
Frame(c) ==
  /\ \A d \in Calls \ {c} : call'[d] = call[d]
  /\ rows \subseteq rows' /\ \A r \in rows' \ rows : r.call = c
  /\ lost \subseteq lost' /\ lost' \ lost \subseteq {c}
  /\ ~together' => /\ ~together
                   /\ pricing' = pricing \/ (pricing = "unknown" /\ Alone(c))
                   /\ call'[c].at = "asking" => Alone(c)

LEMMA OthersKept ==
  ASSUME CallInv, NEW c \in Calls, Frame(c), NEW d \in Calls, d # c
  PROVE RowWhenDue(d)' /\ PricedRight(d)'
<1>1. RowWhenDue(d) /\ PricedRight(d) /\ call'[d] = call[d]
  BY DEF CallInv, Frame
<1>2. Has(d)' <=> Has(d)
  BY DEF Has, Frame
<1>3. RowWhenDue(d)'
  BY <1>1, <1>2 DEF RowWhenDue, Frame
<1>4. ASSUME NEW place, NEW cost, RightCost(d, place, cost) PROVE RightCost(d, place, cost)'
  BY <1>1, <1>4 DEF RightCost, Told, Estimated, Frame
<1>5. call'[d].at = "asking" => Estimated(d, call[d].place)' /\ (~together' => pricing' = "unknown")
  BY <1>1 DEF PricedRight, Told, Estimated, Frame, Alone
<1>6. PricedRight(d)'
  <2>1. call'[d].at = "insert" => RightCost(d, call[d].place, call[d].cost)'
    BY <1>1, <1>4 DEF PricedRight
  <2>2. ASSUME NEW r \in rows', r.call = d PROVE RightCost(d, r.place, r.cost)'
    BY <2>2, <1>1, <1>4 DEF PricedRight, Frame
  <2> QED BY <1>5, <2>1, <2>2 DEF PricedRight
<1> QED BY <1>3, <1>6

LEMMA StepOfOne ==
  ASSUME CallInv, NEW c \in Calls, Frame(c),
         CallsTypeOK', OneRow', RowWhenDue(c)', PricedRight(c)'
  PROVE CallInv'
<1>1. ASSUME NEW d \in Calls, d # c PROVE RowWhenDue(d)' /\ PricedRight(d)'
  BY <1>1, OthersKept
<1>2. OneAsks'
  BY DEF CallInv, OneAsks, Alone, Frame
<1> QED BY <1>1, <1>2 DEF CallInv

-----------------------------------------------------------------------------
LEMMA StartKeeps ==
  ASSUME CallInv, NEW c \in Calls, NEW stream \in BOOLEAN, Start(c, stream) PROVE CallInv' /\ Frame(c)
<1> DEFINE new == [call[c] EXCEPT !.at = "open", !.stream = stream]
<1>a. call[c] \in CallRecords
  BY DEF CallInv, CallsTypeOK, CallRecords
<1>b. new \in CallRecords
  BY <1>a DEF CallRecords, Places, Start
<1>c. call' = [call EXCEPT ![c] = new]
  BY DEF Start
<1>1. CallsTypeOK' /\ OneRow' /\ Frame(c)
  <2>1. call' \in [Calls -> CallRecords]
    BY <1>b, <1>c DEF CallInv, CallsTypeOK, CallRecords
  <2>2. CallsTypeOK'
    BY <2>1 DEF CallInv, CallsTypeOK, CallRecords, Start
  <2>3. OneRow' /\ Frame(c)
    BY <1>c DEF CallInv, CallsTypeOK, OneRow, Frame, Start
  <2> QED BY <2>2, <2>3
<1>2. RowWhenDue(c)' /\ PricedRight(c)'
  BY DEF CallInv, CallsTypeOK, RowWhenDue, PricedRight, RightCost, Told, Estimated, Has, Start
<1> QED BY <1>1, <1>2, StepOfOne

LEMMA AnswerKeeps ==
  ASSUME CallInv, NEW c \in Calls, NEW got \in Said, Answer(c, got) PROVE CallInv' /\ Frame(c)
<1> DEFINE new == [call[c] EXCEPT !.at = "finalize", !.got = got, !.accounted = call[c].stream]
<1>a. call[c] \in CallRecords
  BY DEF CallInv, CallsTypeOK, CallRecords
<1>b. new \in CallRecords
  BY <1>a DEF CallRecords, Places, Answer
<1>c. call' = [call EXCEPT ![c] = new]
  BY DEF Answer
<1>1. CallsTypeOK' /\ OneRow' /\ Frame(c)
  <2>1. call' \in [Calls -> CallRecords]
    BY <1>b, <1>c DEF CallInv, CallsTypeOK, CallRecords
  <2>2. CallsTypeOK'
    BY <2>1 DEF CallInv, CallsTypeOK, CallRecords, Answer
  <2>3. OneRow' /\ Frame(c)
    BY <1>c DEF CallInv, CallsTypeOK, OneRow, Frame, Answer
  <2> QED BY <2>2, <2>3
<1>2. RowWhenDue(c)' /\ PricedRight(c)'
  BY DEF CallInv, CallsTypeOK, RowWhenDue, PricedRight, RightCost, Told, Estimated, Has, Answer
<1> QED BY <1>1, <1>2, StepOfOne

LEMMA HttpFailsKeeps ==
  ASSUME CallInv, NEW c \in Calls, HttpFails(c) PROVE CallInv' /\ Frame(c)
<1>1. CallsTypeOK' /\ OneRow' /\ Frame(c)
  BY DEF CallInv, CallsTypeOK, OneRow, Frame, HttpFails
<1>2. RowWhenDue(c)' /\ PricedRight(c)'
  BY DEF CallInv, CallsTypeOK, RowWhenDue, PricedRight, RightCost, Told, Estimated, Has, HttpFails
<1> QED BY <1>1, <1>2, StepOfOne

LEMMA CutKeeps ==
  ASSUME CallInv, NEW c \in Calls, NEW got \in Said, Cut(c, got) PROVE CallInv' /\ Frame(c)
<1>1. CallsTypeOK' /\ OneRow' /\ Frame(c)
  BY DEF CallInv, CallsTypeOK, OneRow, Frame, Cut
<1>2. RowWhenDue(c)' /\ PricedRight(c)'
  BY DEF CallInv, CallsTypeOK, RowWhenDue, PricedRight, RightCost, Told, Estimated, Has, Cut
<1> QED BY <1>1, <1>2, StepOfOne

LEMMA BreaksKeeps ==
  ASSUME CallInv, NEW c \in Calls, Breaks(c) PROVE CallInv' /\ Frame(c)
<1>1. CallsTypeOK' /\ OneRow' /\ Frame(c)
  BY MaxFailuresIsNumber DEF CallInv, CallsTypeOK, OneRow, Frame, Breaks, Fault
<1>2. RowWhenDue(c)' /\ PricedRight(c)'
  BY DEF CallInv, CallsTypeOK, RowWhenDue, PricedRight, RightCost, Told, Estimated, Has, Breaks
<1> QED BY <1>1, <1>2, StepOfOne

LEMMA FinallyKeeps ==
  ASSUME CallInv, NEW c \in Calls, Finally(c) PROVE CallInv' /\ Frame(c)
<1> DEFINE new == [call[c] EXCEPT !.at = IF call[c].accounted THEN "done" ELSE "finalize", !.place = "finally"]
<1>a. call[c] \in CallRecords
  BY DEF CallInv, CallsTypeOK, CallRecords
<1>b. new \in CallRecords
  BY <1>a DEF CallRecords, Places, Finally
<1>c. call' = [call EXCEPT ![c] = new]
  BY DEF Finally
<1>1. CallsTypeOK' /\ OneRow' /\ Frame(c)
  <2>1. call' \in [Calls -> CallRecords]
    BY <1>b, <1>c DEF CallInv, CallsTypeOK, CallRecords
  <2>2. CallsTypeOK'
    BY <2>1 DEF CallInv, CallsTypeOK, CallRecords, Finally
  <2>3. OneRow' /\ Frame(c)
    BY <1>c DEF CallInv, CallsTypeOK, OneRow, Frame, Finally
  <2> QED BY <2>2, <2>3
<1>2. RowWhenDue(c)' /\ PricedRight(c)'
  BY DEF CallInv, CallsTypeOK, RowWhenDue, PricedRight, RightCost, Told, Estimated, Has, Finally
<1> QED BY <1>1, <1>2, StepOfOne

LEMMA FinalizeKeeps ==
  ASSUME CallInv, NEW c \in Calls, Finalize(c) PROVE CallInv' /\ Frame(c)
<1> DEFINE cost == IF Told(c, call[c].place) \/ (Estimated(c, call[c].place) /\ pricing = "known") THEN 1 ELSE 0
           asking == [call[c] EXCEPT !.at = "asking"]
           new == [call[c] EXCEPT !.at = "insert", !.cost = cost]
<1>a. call[c] \in CallRecords /\ call[c].at = "finalize" /\ call \in [Calls -> CallRecords]
  BY DEF CallInv, CallsTypeOK, CallRecords, Finalize
<1>b. UNCHANGED <<rows, pricing, failures, lost>>
  BY DEF Finalize
<1>c. RowWhenDue(c) /\ PricedRight(c) /\ ~Has(c)
  BY <1>a DEF CallInv, RowWhenDue
<1>1. CASE Estimated(c, call[c].place) /\ pricing = "unknown"
  <2>1. call' = [call EXCEPT ![c] = asking] /\ together' = (together \/ \E d \in Calls : call[d].at = "asking")
    BY <1>1 DEF Finalize
  <2>2. together' \in BOOLEAN /\ (~together' => ~together /\ Alone(c))
    BY <2>1, Zenon DEF Alone
  <2>3. asking \in CallRecords
    BY <1>a DEF CallRecords
  <2>4. CallsTypeOK'
    BY <1>a, <1>b, <2>1, <2>2, <2>3 DEF CallInv, CallsTypeOK, CallRecords
  <2>5. OneRow' /\ Frame(c)
    BY <1>a, <1>b, <2>1, <2>2 DEF CallInv, OneRow, Frame
  <2>6. call'[c] = asking /\ asking.at = "asking" /\ asking.place = call[c].place /\ asking.got = call[c].got
        /\ asking.stream = call[c].stream /\ asking.accounted = call[c].accounted
    BY <1>a, <2>1 DEF CallRecords
  <2> HIDE DEF asking
  <2>7. ~Has(c)'
    BY <1>b, <1>c DEF Has
  <2>8. RowWhenDue(c)'
    BY <1>a, <1>c, <2>6, <2>7 DEF RowWhenDue
  <2>9. PricedRight(c)'
    BY <1>1, <1>b, <2>6, <2>7 DEF PricedRight, Estimated, Told, Has
  <2> QED
    BY <2>4, <2>5, <2>8, <2>9, StepOfOne
<1>2. CASE ~(Estimated(c, call[c].place) /\ pricing = "unknown")
  <2>1. call' = [call EXCEPT ![c] = new] /\ UNCHANGED together
    BY <1>2 DEF Finalize
  <2>2. cost \in {0, 1} /\ RightCost(c, call[c].place, cost)
    BY <1>2 DEF RightCost, Estimated
  <2>3. new \in CallRecords /\ call'[c] = new /\ new.at = "insert" /\ new.place = call[c].place /\ new.got = call[c].got
        /\ new.stream = call[c].stream /\ new.accounted = call[c].accounted /\ new.cost = cost
    BY <1>a, <2>1, <2>2 DEF CallRecords
  <2> HIDE DEF new, cost
  <2>4. CallsTypeOK'
    BY <1>a, <1>b, <2>1, <2>3 DEF CallInv, CallsTypeOK, CallRecords
  <2>5. OneRow' /\ Frame(c)
    BY <1>a, <1>b, <2>1, <2>3 DEF CallInv, OneRow, Frame
  <2>7. ~Has(c)'
    BY <1>b, <1>c DEF Has
  <2>8. RowWhenDue(c)'
    BY <1>a, <1>c, <2>3, <2>7 DEF RowWhenDue
  <2>9. PricedRight(c)'
    BY <1>b, <2>1, <2>2, <2>3, <2>7 DEF PricedRight, RightCost, Estimated, Told, Has
  <2> QED
    BY <2>4, <2>5, <2>8, <2>9, StepOfOne
<1> QED BY <1>1, <1>2

LEMMA PricedKeeps ==
  ASSUME CallInv, NEW c \in Calls, Priced(c) PROVE CallInv' /\ Frame(c)
<1> DEFINE cost == IF pricing' = "known" THEN 1 ELSE 0
           new == [call[c] EXCEPT !.at = "insert", !.cost = cost]
<1>a. call[c] \in CallRecords /\ call[c].at = "asking" /\ call \in [Calls -> CallRecords]
  BY DEF CallInv, CallsTypeOK, CallRecords, Priced
<1>b. UNCHANGED <<rows, failures, lost, together>> /\ pricing' \in {"known", "none"}
  BY DEF Priced
<1>c. RowWhenDue(c) /\ PricedRight(c) /\ ~Has(c)
  BY <1>a DEF CallInv, RowWhenDue
<1>d. Estimated(c, call[c].place) /\ (~together => pricing = "unknown" /\ Alone(c))
  BY <1>a, <1>c DEF CallInv, OneAsks, PricedRight
<1>1. call' = [call EXCEPT ![c] = new]
  BY DEF Priced
<1>2. cost \in {0, 1} /\ (cost = 1 <=> pricing' = "known")
  OBVIOUS
<1>3. new \in CallRecords /\ call'[c] = new /\ new.at = "insert" /\ new.place = call[c].place /\ new.got = call[c].got
      /\ new.stream = call[c].stream /\ new.accounted = call[c].accounted /\ new.cost = cost
  BY <1>a, <1>1, <1>2 DEF CallRecords
<1> HIDE DEF new, cost
<1>4. CallsTypeOK'
  BY <1>a, <1>b, <1>1, <1>3 DEF CallInv, CallsTypeOK, CallRecords
<1>5. OneRow' /\ Frame(c)
  BY <1>a, <1>b, <1>d, <1>1, <1>3 DEF CallInv, OneRow, Frame
<1>6. ~Has(c)'
  BY <1>b, <1>c DEF Has
<1>7. RowWhenDue(c)'
  BY <1>a, <1>c, <1>3, <1>6 DEF RowWhenDue
<1>8. PricedRight(c)'
  BY <1>b, <1>d, <1>2, <1>3, <1>6 DEF PricedRight, RightCost, Estimated, Told, Has
<1> QED
  BY <1>4, <1>5, <1>7, <1>8, StepOfOne

LEMMA InsertKeeps ==
  ASSUME CallInv, NEW c \in Calls, Insert(c) PROVE CallInv' /\ Frame(c)
<1> DEFINE new == [call |-> c, place |-> call[c].place, cost |-> call[c].cost]
<1>1. rows' = rows \union {new} /\ ~Has(c)
  BY DEF CallInv, RowWhenDue, Insert
<1>2. CallsTypeOK' /\ Frame(c)
  BY DEF CallInv, CallsTypeOK, Frame, Insert
<1>3. OneRow'
  BY <1>1 DEF CallInv, OneRow, Has
<1>4. RowWhenDue(c)'
  <2>1. new \in rows' /\ new.call = c
    BY <1>1
  <2>2. Has(c)'
    BY <2>1 DEF Has
  <2> QED BY <2>2 DEF CallInv, CallsTypeOK, RowWhenDue, Insert
<1>5. PricedRight(c)'
  BY <1>1 DEF CallInv, CallsTypeOK, PricedRight, RightCost, Told, Estimated, Has, Insert
<1> QED BY <1>2, <1>3, <1>4, <1>5, StepOfOne

LEMMA InsertFailsKeeps ==
  ASSUME CallInv, NEW c \in Calls, InsertFails(c) PROVE CallInv' /\ Frame(c)
<1>1. CallsTypeOK' /\ OneRow' /\ Frame(c)
  BY MaxFailuresIsNumber DEF CallInv, CallsTypeOK, OneRow, Frame, InsertFails, Fault, AfterRow
<1>2. RowWhenDue(c)' /\ PricedRight(c)'
  BY DEF CallInv, CallsTypeOK, RowWhenDue, PricedRight, RightCost, Told, Estimated, Has, InsertFails, AfterRow
<1> QED BY <1>1, <1>2, StepOfOne

LEMMA PublishKeeps ==
  ASSUME CallInv, NEW c \in Calls, Publish(c) PROVE CallInv' /\ Frame(c)
<1>1. CallsTypeOK' /\ OneRow' /\ Frame(c)
  BY DEF CallInv, CallsTypeOK, OneRow, Frame, Publish, AfterRow
<1>2. RowWhenDue(c)' /\ PricedRight(c)'
  BY DEF CallInv, CallsTypeOK, RowWhenDue, PricedRight, RightCost, Told, Estimated, Has, Publish, AfterRow
<1> QED BY <1>1, <1>2, StepOfOne

LEMMA DiesKeeps ==
  ASSUME CallInv, NEW c \in Calls, Dies(c) PROVE CallInv' /\ Frame(c)
<1>1. CallsTypeOK' /\ OneRow' /\ Frame(c)
  BY MaxFailuresIsNumber DEF CallInv, CallsTypeOK, OneRow, Frame, Dies, Fault
<1>2. RowWhenDue(c)' /\ PricedRight(c)'
  BY DEF CallInv, CallsTypeOK, RowWhenDue, PricedRight, RightCost, Told, Estimated, Has, Dies
<1> QED BY <1>1, <1>2, StepOfOne

LEMMA CallStepKeeps == ASSUME CallInv, NEW c \in Calls, CallStep(c) PROVE CallInv' /\ Frame(c)
BY StartKeeps, AnswerKeeps, HttpFailsKeeps, CutKeeps, BreaksKeeps, FinallyKeeps, FinalizeKeeps, PricedKeeps, InsertKeeps,
   InsertFailsKeeps, PublishKeeps, DiesKeeps DEF CallStep, CallSteps

LEMMA NothingKeeps == ASSUME CallInv, UNCHANGED callVars PROVE CallInv'
BY DEF CallInv, CallsTypeOK, OneRow, RowWhenDue, PricedRight, RightCost, Told, Estimated, OneAsks, Alone, Has, callVars

-----------------------------------------------------------------------------
\* The browser does nothing to the calls.
LEMMA NextIsCallStep == ASSUME Next PROVE (\E c \in Calls : CallStep(c)) \/ UNCHANGED callVars
<1>1. CASE \E c \in Calls : CallSteps(c)
  BY <1>1 DEF CallStep
<1>2. CASE \E c \in Calls : Announce(c) \/ ProcessDies(c)
  BY <1>2 DEF CallStep, Announce, ProcessDies
<1>3. CASE \E n \in 1 .. Cardinality(Calls), newest \in BOOLEAN : Render(n, newest)
  BY <1>3 DEF Render
<1>4. CASE Connect \/ Disconnect \/ ReadTotal \/ TotalArrives
  BY <1>4 DEF Connect, Disconnect, ReadTotal, TotalArrives
<1>5. CASE \E agents \in 1 .. 2 : Checkpoint(agents)
  BY <1>5 DEF Checkpoint
<1>6. CASE LoadLatest \/ AskOlder \/ OlderArrives \/ OlderFails \/ Reload
  BY <1>6 DEF LoadLatest, AskOlder, OlderArrives, OlderFails, Reload
<1> QED BY <1>1, <1>2, <1>3, <1>4, <1>5, <1>6 DEF Next

LEMMA OneRowAtMost == ASSUME OneRow, NEW c \in Calls PROVE Cardinality(RowsOf(c)) <= 1
<1>1. CASE RowsOf(c) = {}
  BY <1>1, FS_EmptySet
<1>2. CASE RowsOf(c) # {}
  <2>1. PICK r \in RowsOf(c) : TRUE
    BY <1>2
  <2>2. RowsOf(c) = {r}
    BY <2>1 DEF OneRow, RowsOf
  <2> QED BY <2>2, FS_Singleton
<1> QED BY <1>1, <1>2

LEMMA CallInvAccounts == ASSUME CallInv PROVE AccountedOnce
<1>1. SUFFICES ASSUME NEW c \in Calls
               PROVE /\ Cardinality(RowsOf(c)) <= 1
                     /\ call[c].at = "done" /\ c \notin lost => RowsOf(c) # {}
                     /\ \A r \in RowsOf(c) : RightCost(c, r.place, r.cost)
  BY DEF AccountedOnce
<1>2. RowWhenDue(c) /\ PricedRight(c)
  BY DEF CallInv
<1> QED BY <1>2, OneRowAtMost DEF CallInv, RowWhenDue, PricedRight, Has, RowsOf

\* No call is ever paid for twice, one that is over has its row unless a failure
\* cost it, and the row has the cost the gateway told, or else what its tokens come
\* to by the one answer about the prices, unless two calls asked for them at once; a
\* stream that was cut has not the cost in its header: _finalize_llm_call,
\* _fetch_pricing_per_token and the finally of traced_llm_call_stream.
THEOREM CallsAreAccountedOnce == Spec => []AccountedOnce
<1>1. Init => CallInv
  BY InitAccounts DEF Init
<1>2. CallInv /\ [Next]_vars => CallInv'
  BY CallStepKeeps, NothingKeeps, NextIsCallStep DEF vars
<1>3. CallInv => AccountedOnce
  BY CallInvAccounts
<1> QED BY <1>1, <1>2, <1>3, PTL DEF Spec

-----------------------------------------------------------------------------
(* The replay.                                                               *)

Cursors(n) == {0} \union 2 .. n
InARow(s, first) ==
  /\ \A i \in 1 .. Len(s) - 1 : s[i + 1] = s[i] + 1
  /\ s # <<>> => s[1] = Larger(first, 1)

\* Only a request that the latest page has crossed is for older events than those
\* before the first one shown.
ReplayInv ==
  /\ steps \in 0 .. MaxSteps /\ shown \in Seq(1 .. steps)
  /\ cursor \in Cursors(steps) /\ older \in Cursors(steps)
  /\ crossed \in BOOLEAN /\ mixed \in BOOLEAN
  /\ older # 0 /\ ~crossed => cursor = older
  /\ ~mixed => InARow(shown, cursor)

\* A page is a run of events, and the cursor with it is its first event or says that
\* this is the first of all.
LEMMA PageOf ==
  ASSUME NEW n \in Nat, NEW w, w.first \in 1 .. n + 1, w.last \in w.first - 1 .. n
  PROVE  /\ Page(w) \in Seq(1 .. n) /\ Len(Page(w)) = w.last + 1 - w.first
         /\ \A i \in 1 .. Len(Page(w)) : Page(w)[i] = w.first + i - 1
<1> DEFINE len == w.last + 1 - w.first
<1>1. len \in Nat
  OBVIOUS
<1>2. \A i \in 1 .. len : w.first + i - 1 \in 1 .. n
  OBVIOUS
<1>3. Page(w) \in [1 .. len -> 1 .. n]
  BY <1>2 DEF Page
<1>4. Page(w) \in Seq(1 .. n)
  BY <1>1, <1>3, SeqDef
<1>5. Len(Page(w)) = len
  <2>1. DOMAIN Page(w) = 1 .. len
    BY DEF Page
  <2>2. DOMAIN Page(w) = 1 .. Len(Page(w)) /\ Len(Page(w)) \in Nat
    BY <1>4, LenProperties
  <2> QED
    BY <1>1, <2>1, <2>2
<1> QED
  BY <1>4, <1>5 DEF Page

LEMMA WindowOf ==
  ASSUME NEW m \in Nat, NEW n \in 0 .. m, NEW limit \in Nat \ {0}, NEW before \in Cursors(m),
         NEW w, w = Window(n, limit, before)
  PROVE  /\ w.found \in BOOLEAN /\ Page(w) \in Seq(1 .. m) /\ CursorOf(w) \in Cursors(m)
         /\ InARow(Page(w), CursorOf(w))
         /\ before # 0 /\ w.found => Len(Page(w)) > 0 /\ Page(w)[Len(Page(w))] = before - 1
<1>1. CASE n = 0 \/ before > n
  <2>1. w = NoPage(before = 0)
    BY <1>1 DEF Window
  <2>2. w.first = 1 /\ w.last = 0 /\ w.more = FALSE /\ w.found = (before = 0)
    BY <2>1 DEF NoPage
  <2>3. Page(w) \in Seq(1 .. m) /\ Len(Page(w)) = 0
    BY <2>2, PageOf
  <2>4. Page(w) = <<>>
    BY <2>3, EmptySeq
  <2>5. CursorOf(w) = 0 /\ CursorOf(w) \in Cursors(m)
    BY <2>2 DEF CursorOf, Cursors
  <2>6. InARow(Page(w), CursorOf(w))
    BY <2>3, <2>4 DEF InARow
  <2>7. w.found \in BOOLEAN /\ (w.found => before = 0)
    BY <2>2
  <2> QED
    BY <2>3, <2>5, <2>6, <2>7
<1>2. CASE ~(n = 0 \/ before > n)
  <2> DEFINE last == IF before = 0 THEN n ELSE before - 1
  <2>1. w = [first |-> Larger(1, last - limit + 1), last |-> last, more |-> last > limit, found |-> TRUE]
    BY <1>2 DEF Window
  <2>2. last \in 1 .. m
    BY <1>2 DEF Cursors
  <2>3. w.first \in 1 .. last /\ w.last = last /\ w.found = TRUE
        /\ w.first = IF last > limit THEN last - limit + 1 ELSE 1
    BY <2>1, <2>2 DEF Larger
  <2>12. w.more = (last > limit)
    BY <2>1
  <2>9. (w.more => last > limit) /\ (~w.more => ~(last > limit))
    BY <2>12
  <2> HIDE DEF last
  <2>10. w.first \in 1 .. m + 1 /\ w.last \in w.first - 1 .. m
    BY <2>2, <2>3
  <2>4. /\ Page(w) \in Seq(1 .. m) /\ Len(Page(w)) = last + 1 - w.first
        /\ \A i \in 1 .. Len(Page(w)) : Page(w)[i] = w.first + i - 1
    BY <2>3, <2>10, PageOf
  <2>11. Len(Page(w)) \in Nat \ {0} /\ w.first \in Nat /\ last \in Nat
    BY <2>2, <2>3, <2>4
  <2>5. Len(Page(w)) > 0 /\ Page(w)[Len(Page(w))] = last /\ Page(w)[1] = w.first
    <3>1. Len(Page(w)) \in 1 .. Len(Page(w)) /\ 1 \in 1 .. Len(Page(w))
      BY <2>11
    <3>2. Page(w)[Len(Page(w))] = w.first + Len(Page(w)) - 1 /\ Page(w)[1] = w.first + 1 - 1
      BY <2>4, <3>1
    <3> QED
      BY <2>4, <2>11, <3>2
  <2>6. ASSUME NEW i \in 1 .. Len(Page(w)) - 1
        PROVE  Page(w)[i + 1] = Page(w)[i] + 1
    <3>1. i \in 1 .. Len(Page(w)) /\ i + 1 \in 1 .. Len(Page(w))
      BY <2>11
    <3>2. Page(w)[i] = w.first + i - 1 /\ Page(w)[i + 1] = w.first + (i + 1) - 1
      BY <2>4, <3>1
    <3> QED
      BY <2>11, <3>2
  <2>7. CursorOf(w) \in Cursors(m) /\ w.first = Larger(CursorOf(w), 1)
    <3>1. CASE w.more
      BY <2>2, <2>3, <2>9, <3>1 DEF CursorOf, Cursors, Larger
    <3>2. CASE ~w.more
      BY <2>3, <2>9, <3>2 DEF CursorOf, Cursors, Larger
    <3> QED
      BY <3>1, <3>2
  <2>8. before # 0 => last = before - 1
    BY DEF last
  <2> QED
    BY <2>3, <2>4, <2>5, <2>6, <2>7, <2>8 DEF InARow
<1> QED
  BY <1>1, <1>2

LEMMA ReadableIs == ASSUME ReplayInv, NEW n \in Readable PROVE n \in 0 .. steps /\ steps \in Nat
  BY PagesAreNumbers DEF ReplayInv, Readable

LEMMA CheckpointKeeps ==
  ASSUME ReplayInv, NEW agents \in 1 .. 2, Checkpoint(agents) PROVE ReplayInv'
<1>1. steps' \in 0 .. MaxSteps /\ steps' >= steps /\ UNCHANGED <<shown, cursor, older, crossed, mixed>>
  BY PagesAreNumbers DEF Checkpoint, ReplayInv
<1>2. shown \in Seq(1 .. steps')
  <2>1. 1 .. steps \subseteq 1 .. steps'
    BY <1>1 DEF ReplayInv
  <2> QED
    BY <2>1, SeqMonotonic DEF ReplayInv
<1> QED
  BY <1>1, <1>2 DEF ReplayInv, Cursors

LEMMA LoadLatestKeeps == ASSUME ReplayInv, LoadLatest PROVE ReplayInv'
<1>1. PICK n \in Readable : shown' = Page(Window(n, FirstPage, 0)) /\ cursor' = CursorOf(Window(n, FirstPage, 0))
  BY DEF LoadLatest
<1>2. crossed' = (older # 0) /\ mixed' = FALSE /\ UNCHANGED <<steps, older>>
  BY DEF LoadLatest
<1>3. shown' \in Seq(1 .. steps) /\ cursor' \in Cursors(steps) /\ InARow(shown', cursor')
  BY <1>1, ReadableIs, WindowOf, PagesAreNumbers DEF Cursors
<1>4. crossed' \in BOOLEAN /\ (older # 0 => crossed')
  BY <1>2
<1> QED
  BY <1>2, <1>3, <1>4 DEF ReplayInv

\* The page before the first event shown, and then the events shown.
LEMMA PageBefore ==
  ASSUME NEW n \in Nat, NEW s \in Seq(1 .. n), NEW t \in Seq(1 .. n), NEW c \in Cursors(n), NEW d \in Cursors(n),
         InARow(s, c), InARow(t, d), d # 0, Len(s) > 0, s[Len(s)] = d - 1
  PROVE  InARow(s \o t, c)
<1>1. /\ Len(s \o t) = Len(s) + Len(t)
      /\ \A i \in 1 .. Len(s) + Len(t) : (s \o t)[i] = IF i <= Len(s) THEN s[i] ELSE t[i - Len(s)]
  BY ConcatProperties
<1>2. Len(s) \in Nat /\ Len(t) \in Nat
  BY LenProperties
<1>3. s # <<>> /\ (s \o t)[1] = s[1]
  BY <1>1, <1>2, EmptySeq
<1>4. ASSUME NEW i \in 1 .. Len(s \o t) - 1
      PROVE  (s \o t)[i + 1] = (s \o t)[i] + 1
  <2>1. CASE i < Len(s)
    BY <1>1, <1>2, <2>1 DEF InARow
  <2>2. CASE i = Len(s)
    <3>1. t # <<>> /\ t[1] = d
      BY <1>1, <1>2, <2>2, EmptySeq DEF InARow, Cursors, Larger
    <3> QED
      BY <1>1, <1>2, <2>2, <3>1 DEF Cursors
  <2>3. CASE i > Len(s)
    <3>1. i - Len(s) \in 1 .. Len(t) - 1 /\ i + 1 - Len(s) = (i - Len(s)) + 1
      BY <1>1, <1>2, <2>3
    <3> QED
      BY <1>1, <1>2, <2>3, <3>1 DEF InARow
  <2> QED
    BY <1>2, <2>1, <2>2, <2>3
<1> QED
  BY <1>3, <1>4 DEF InARow

LEMMA OlderArrivesKeeps == ASSUME ReplayInv, OlderArrives PROVE ReplayInv'
<1>1. older # 0 /\ older' = 0 /\ crossed' = FALSE /\ UNCHANGED steps
  BY DEF OlderArrives
<1>2. PICK n \in Readable :
        LET w == Window(n, OlderPage, older) IN
          IF w.found
            THEN shown' = Page(w) \o shown /\ cursor' = CursorOf(w) /\ mixed' = (mixed \/ crossed)
            ELSE \E m \in Readable :
                   LET latest == Window(m, FirstPage, 0) IN
                     shown' = Page(latest) /\ cursor' = CursorOf(latest) /\ mixed' = FALSE
  BY DEF OlderArrives
<1> DEFINE w == Window(n, OlderPage, older)
<1>3. /\ w.found \in BOOLEAN /\ Page(w) \in Seq(1 .. steps) /\ CursorOf(w) \in Cursors(steps)
      /\ InARow(Page(w), CursorOf(w))
      /\ w.found => Len(Page(w)) > 0 /\ Page(w)[Len(Page(w))] = older - 1
  BY <1>1, ReadableIs, WindowOf, PagesAreNumbers DEF ReplayInv
<1>4. CASE w.found
  <2>1. shown' = Page(w) \o shown /\ cursor' = CursorOf(w) /\ mixed' = (mixed \/ crossed)
    BY <1>2, <1>4
  <2>2. mixed' \in BOOLEAN /\ (~mixed' => ~mixed /\ ~crossed)
    BY <2>1
  <2> HIDE DEF w
  <2>3. shown' \in Seq(1 .. steps)
    BY <1>3, <2>1, ConcatProperties DEF ReplayInv
  <2>4. steps \in Nat
    BY PagesAreNumbers DEF ReplayInv
  <2>5. ~mixed' => InARow(shown', cursor')
    BY <1>1, <1>3, <1>4, <2>1, <2>2, <2>4, PageBefore DEF ReplayInv
  <2> QED
    BY <1>1, <1>3, <2>1, <2>2, <2>3, <2>5 DEF ReplayInv, Cursors
<1>5. CASE ~w.found
  <2>1. PICK m \in Readable :
          /\ shown' = Page(Window(m, FirstPage, 0)) /\ cursor' = CursorOf(Window(m, FirstPage, 0)) /\ mixed' = FALSE
    BY <1>2, <1>5
  <2>2. shown' \in Seq(1 .. steps) /\ cursor' \in Cursors(steps) /\ InARow(shown', cursor')
    BY <2>1, ReadableIs, WindowOf, PagesAreNumbers DEF Cursors
  <2> QED
    BY <1>1, <2>1, <2>2 DEF ReplayInv, Cursors
<1> QED
  BY <1>3, <1>4, <1>5

LEMMA ReloadKeeps == ASSUME ReplayInv, Reload PROVE ReplayInv'
<1>1. <<>> \in Seq(1 .. steps) /\ Len(<<>>) = 0
  BY EmptySeq
<1>2. shown' = <<>> /\ cursor' = 0 /\ older' = 0 /\ crossed' = FALSE /\ mixed' = FALSE /\ steps' = steps
  BY DEF Reload
<1>3. InARow(shown', cursor')
  BY <1>1, <1>2 DEF InARow
<1> QED
  BY <1>1, <1>2, <1>3 DEF ReplayInv, Cursors

LEMMA ReplayKeeps == ASSUME ReplayInv, Next PROVE ReplayInv'
<1>1. ASSUME UNCHANGED replayVars PROVE ReplayInv'
  BY <1>1 DEF replayVars, ReplayInv
<1>2. CASE \E c \in Calls : CallSteps(c) /\ "calls" \in parts /\ UNCHANGED <<parts, bannerVars, replayVars>>
  BY <1>1, <1>2
<1>3. CASE \/ \E c \in Calls : Announce(c) \/ ProcessDies(c)
           \/ \E n \in 1 .. Cardinality(Calls), newest \in BOOLEAN : Render(n, newest)
           \/ Connect \/ Disconnect \/ ReadTotal \/ TotalArrives
  <2>1. UNCHANGED replayVars
    BY <1>3 DEF Announce, ProcessDies, Render, Connect, Disconnect, ReadTotal, TotalArrives
  <2> QED
    BY <1>1, <2>1
<1>4. CASE AskOlder
  BY <1>4 DEF AskOlder, ReplayInv
<1>5. CASE OlderFails
  BY <1>5 DEF OlderFails, ReplayInv, Cursors
<1> QED
  BY <1>2, <1>3, <1>4, <1>5, CheckpointKeeps, LoadLatestKeeps, OlderArrivesKeeps, ReloadKeeps DEF Next

-----------------------------------------------------------------------------
(* The banner.                                                               *)

BannerTyped ==
  /\ online \in BOOLEAN /\ line \in Seq(Calls) /\ banner \in [Calls -> 0 .. 2]
  /\ turn \in [asked : BOOLEAN, total : SUBSET Calls]
  /\ missed \subseteq Calls /\ overtaken \subseteq Calls

\* A call has one event, and that on its way is of a call with a row.
LineInv ==
  /\ \A i, j \in 1 .. Len(line) : line[i] = line[j] => i = j
  /\ \A i \in 1 .. Len(line) : Has(line[i]) /\ call[line[i]].at # "publish"

\* The banner counts a call when its event has come, and at most once more.
Counted(c) ==
  /\ ~Has(c) => banner[c] = 0 /\ c \notin turn.total
  /\ Has(c) /\ c \notin OnTheWay /\ c \notin missed /\ c \notin overtaken => banner[c] = 1
  /\ c \in OnTheWay /\ c \notin missed /\ c \notin overtaken => banner[c] = 0
  /\ c \in OnTheWay => banner[c] <= 1

BannerInv == BannerTyped /\ LineInv /\ \A c \in Calls : Counted(c)

LEMMA InLine ==
  ASSUME NEW S, NEW s \in Seq(S), NEW c
  PROVE  c \in ToSet(s) <=> \E i \in 1 .. Len(s) : s[i] = c
  BY LenProperties DEF ToSet

LEMMA ComingIs ==
  ASSUME BannerTyped, NEW c \in Calls
  PROVE  c \in OnTheWay <=> (\E i \in 1 .. Len(line) : line[i] = c) \/ call[c].at = "publish"
  BY InLine DEF BannerTyped, OnTheWay

\* Only the INSERT gives a call its row, and then its event is to be published.
LEMMA CallMoves ==
  ASSUME CallInv, NEW c \in Calls, CallSteps(c)
  PROVE  /\ CallInv'
         /\ \A d \in Calls \ {c} : call'[d] = call[d] /\ (Has(d)' <=> Has(d))
         /\ Has(c) => call[c].at # "publish" /\ call'[c].at # "publish" /\ Has(c)'
         /\ ~Has(c) => call[c].at # "publish"
         /\ Has(c)' /\ ~Has(c) => call'[c].at = "publish"
         /\ call'[c].at = "publish" => Has(c)'
<1>1. CallInv' /\ Frame(c)
  BY CallStepKeeps DEF CallStep
<1>2. \A d \in Calls \ {c} : call'[d] = call[d] /\ (Has(d)' <=> Has(d))
  BY <1>1 DEF Frame, Has
<1>3. Has(c) => Has(c)'
  BY <1>1 DEF Frame, Has
<1>4. call'[c].at = "publish" => Has(c)'
  BY <1>1 DEF CallInv, RowWhenDue
<1>5. call[c].at # "publish"
  BY DEF CallSteps, Start, Answer, HttpFails, Cut, Breaks, Finally, Finalize, Priced, Insert, InsertFails
<1>6. CASE Insert(c)
  <2>1. ~Has(c)
    BY <1>6 DEF Insert, CallInv, RowWhenDue
  <2>2. call'[c].at = "publish"
    BY <1>6 DEF Insert, CallInv, CallsTypeOK
  <2> QED
    BY <1>1, <1>2, <1>4, <1>5, <2>1, <2>2
<1>7. CASE ~Insert(c)
  <2>1. rows' = rows
    BY <1>7 DEF CallSteps, Start, Answer, HttpFails, Cut, Breaks, Finally, Finalize, Priced, InsertFails
  <2>2. Has(c)' <=> Has(c)
    BY <2>1 DEF Has
  <2>3. call'[c].at # "publish"
    <3>1. call \in [Calls -> CallRecords]
      BY DEF CallInv, CallsTypeOK, CallRecords
    <3>2. ASSUME NEW stream \in BOOLEAN, Start(c, stream) PROVE call'[c].at # "publish"
      BY <3>1, <3>2 DEF Start, CallRecords
    <3>3. ASSUME NEW got \in Said, Answer(c, got) \/ Cut(c, got) PROVE call'[c].at # "publish"
      BY <3>1, <3>3 DEF Answer, Cut, CallRecords
    <3>4. CASE HttpFails(c)
      BY <3>1, <3>4 DEF HttpFails, CallRecords
    <3>5. CASE Breaks(c) \/ Finally(c)
      BY <3>1, <3>5 DEF Breaks, Finally, CallRecords
    <3>6. CASE Finalize(c) \/ Priced(c)
      BY <3>1, <3>6 DEF Finalize, Priced, CallRecords
    <3>7. CASE InsertFails(c)
      BY <3>1, <3>7 DEF InsertFails, AfterRow, CallRecords
    <3> QED
      BY <1>7, <3>2, <3>3, <3>4, <3>5, <3>6, <3>7 DEF CallSteps
  <2> QED
    BY <1>1, <1>2, <1>4, <1>5, <2>2, <2>3
<1> QED
  BY <1>6, <1>7

LEMMA CallStepsKeepBanner ==
  ASSUME CallInv, BannerInv, NEW c \in Calls, CallSteps(c), UNCHANGED bannerVars
  PROVE  BannerInv'
<1>1. UNCHANGED <<online, line, banner, turn, missed, overtaken>>
  BY DEF bannerVars
<1>2. /\ \A d \in Calls \ {c} : call'[d] = call[d] /\ (Has(d)' <=> Has(d))
      /\ Has(c) => call[c].at # "publish" /\ call'[c].at # "publish" /\ Has(c)'
      /\ ~Has(c) => call[c].at # "publish"
      /\ Has(c)' /\ ~Has(c) => call'[c].at = "publish"
      /\ call'[c].at = "publish" => Has(c)'
  BY CallMoves
<1>3. BannerTyped'
  BY <1>1 DEF BannerInv, BannerTyped
<1>4. \A i \in 1 .. Len(line) : line[i] \in Calls
  BY ElementOfSeq DEF BannerInv, BannerTyped
<1>5. LineInv'
  <2>1. ASSUME NEW i \in 1 .. Len(line) PROVE Has(line[i])' /\ call'[line[i]].at # "publish"
    <3>1. Has(line[i]) /\ call[line[i]].at # "publish" /\ line[i] \in Calls
      BY <1>4 DEF BannerInv, LineInv
    <3>2. CASE line[i] = c
      <4>1. Has(c)' /\ call'[c].at # "publish"
        BY <1>2, <3>1, <3>2
      <4> QED
        BY <1>1, <3>2, <4>1 DEF Has
    <3>3. CASE line[i] # c
      BY <1>1, <1>2, <3>1, <3>3 DEF Has
    <3> QED
      BY <3>2, <3>3
  <2> QED
    BY <1>1, <2>1 DEF BannerInv, LineInv, Has
<1>6. ASSUME NEW d \in Calls
      PROVE  (d \in OnTheWay)' <=> (\E i \in 1 .. Len(line) : line[i] = d) \/ call'[d].at = "publish"
  <2>1. (d \in OnTheWay)' <=> (\E i \in 1 .. Len(line') : line'[i] = d) \/ call'[d].at = "publish"
    BY <1>3, InLine DEF BannerTyped, OnTheWay
  <2> QED
    BY <1>1, <2>1
<1>7. ASSUME NEW d \in Calls PROVE Counted(d)'
  <2>1. d \in OnTheWay <=> (\E i \in 1 .. Len(line) : line[i] = d) \/ call[d].at = "publish"
    BY ComingIs DEF BannerInv
  <2>2. Counted(d)
    BY DEF BannerInv
  <2>3. (\E i \in 1 .. Len(line) : line[i] = d) => Has(d)
    BY DEF BannerInv, LineInv
  <2>4. CASE d # c
    BY <1>1, <1>2, <1>6, <2>1, <2>2, <2>4 DEF Counted
  <2>5. CASE d = c
    <3>1. CASE Has(c)
      BY <1>1, <1>2, <1>6, <2>1, <2>2, <2>5, <3>1 DEF Counted
    <3>2. CASE ~Has(c)
      <4>1. banner[c] = 0 /\ c \notin turn.total
        BY <2>2, <2>5, <3>2 DEF Counted
      <4>2. (c \in OnTheWay)' <=> Has(c)'
        BY <1>2, <1>6, <2>3, <2>5, <3>2
      <4> QED
        BY <1>1, <2>5, <4>1, <4>2 DEF Counted
    <3> QED
      BY <3>1, <3>2
  <2> QED
    BY <2>4, <2>5
<1> QED
  BY <1>3, <1>5, <1>7 DEF BannerInv

\* What the browser does leaves the calls alone.
LEMMA SeenNext ==
  ASSUME BannerTyped', UNCHANGED <<call, rows>>, NEW d \in Calls
  PROVE  /\ Has(d)' <=> Has(d)
         /\ (d \in OnTheWay)' <=> (\E i \in 1 .. Len(line') : line'[i] = d) \/ call[d].at = "publish"
<1>1. (d \in OnTheWay)' <=> (\E i \in 1 .. Len(line') : line'[i] = d) \/ call'[d].at = "publish"
  BY InLine DEF BannerTyped, OnTheWay
<1> QED
  BY <1>1 DEF Has

LEMMA AnnounceKeepsBanner ==
  ASSUME CallInv, BannerInv, NEW c \in Calls, Announce(c)
  PROVE  BannerInv'
<1>1. Publish(c) /\ UNCHANGED <<online, banner, turn, overtaken>>
      /\ ((line' = Append(line, c) /\ UNCHANGED missed) \/ (missed' = missed \union {c} /\ UNCHANGED line))
  BY DEF Announce
<1>2. call[c].at = "publish" /\ call'[c].at # "publish" /\ rows' = rows /\ \A d \in Calls \ {c} : call'[d] = call[d]
  <2>1. AfterRow(c) # "publish"
    BY DEF AfterRow
  <2>2. call' = [call EXCEPT ![c].at = AfterRow(c)] /\ call[c].at = "publish" /\ rows' = rows
    BY <1>1 DEF Publish
  <2> QED
    BY <2>1, <2>2 DEF CallInv, CallsTypeOK
<1>3. Has(c) /\ \A d : Has(d)' <=> Has(d)
  BY <1>2 DEF Has, CallInv, RowWhenDue
<1>4. \A i \in 1 .. Len(line) : line[i] \in Calls /\ line[i] # c
  BY <1>2, ElementOfSeq DEF BannerInv, BannerTyped, LineInv
<1>5. \A d \in Calls : d \in OnTheWay <=> (\E i \in 1 .. Len(line) : line[i] = d) \/ call[d].at = "publish"
  BY ComingIs DEF BannerInv
<1>6. Len(line) \in Nat
  BY LenProperties DEF BannerInv, BannerTyped
<1>7. CASE line' = Append(line, c) /\ UNCHANGED missed
  <2>1. /\ line' \in Seq(Calls) /\ Len(line') = Len(line) + 1 /\ line'[Len(line) + 1] = c
        /\ \A i \in 1 .. Len(line) : line'[i] = line[i]
    BY <1>7, AppendProperties DEF BannerInv, BannerTyped
  <2>2. BannerTyped'
    BY <1>1, <1>7, <2>1 DEF BannerInv, BannerTyped
  <2>3. \A i \in 1 .. Len(line') : (i = Len(line) + 1 /\ line'[i] = c) \/ (i \in 1 .. Len(line) /\ line'[i] = line[i])
    BY <1>6, <2>1
  <2>4. LineInv'
    <3>1. \A i, j \in 1 .. Len(line') : line'[i] = line'[j] => i = j
      BY <1>4, <2>3 DEF BannerInv, LineInv
    <3>2. \A i \in 1 .. Len(line') : Has(line'[i]) /\ call'[line'[i]].at # "publish"
      BY <1>2, <1>3, <1>4, <2>3 DEF BannerInv, LineInv
    <3> QED
      BY <1>2, <3>1, <3>2 DEF LineInv, Has
  <2>5. ASSUME NEW d \in Calls PROVE (d \in OnTheWay)' <=> d \in OnTheWay
    <3>1. (d \in OnTheWay)' <=> (\E i \in 1 .. Len(line') : line'[i] = d) \/ call'[d].at = "publish"
      BY <2>2, InLine DEF BannerTyped, OnTheWay
    <3>2. CASE d = c
      BY <1>2, <1>5, <1>6, <2>1, <3>1, <3>2
    <3>3. CASE d # c
      <4>1. (\E i \in 1 .. Len(line') : line'[i] = d) <=> \E i \in 1 .. Len(line) : line[i] = d
        BY <1>6, <2>1, <2>3, <3>3
      <4> QED
        BY <1>2, <1>5, <3>1, <3>3, <4>1
    <3> QED
      BY <3>2, <3>3
  <2>6. \A d \in Calls : Counted(d)'
    BY <1>1, <1>3, <1>7, <2>5 DEF BannerInv, Counted
  <2> QED
    BY <2>2, <2>4, <2>6 DEF BannerInv
<1>8. CASE missed' = missed \union {c} /\ UNCHANGED line
  <2>2. BannerTyped'
    BY <1>1, <1>8 DEF BannerInv, BannerTyped
  <2>3. LineInv'
    BY <1>2, <1>3, <1>4, <1>8 DEF BannerInv, LineInv
  <2>4. ASSUME NEW d \in Calls
        PROVE  (d \in OnTheWay)' <=> (\E i \in 1 .. Len(line) : line[i] = d) \/ call'[d].at = "publish"
    <3>1. (d \in OnTheWay)' <=> (\E i \in 1 .. Len(line') : line'[i] = d) \/ call'[d].at = "publish"
      BY <2>2, InLine DEF BannerTyped, OnTheWay
    <3> QED
      BY <1>8, <3>1
  <2>5. \A d \in Calls \ {c} : (d \in OnTheWay)' <=> d \in OnTheWay
    BY <1>2, <1>5, <2>4
  <2>6. ~(c \in OnTheWay)'
    BY <1>2, <1>4, <2>4
  <2>7. \A d \in Calls : Counted(d)'
    BY <1>1, <1>3, <1>8, <2>5, <2>6 DEF BannerInv, Counted
  <2> QED
    BY <2>2, <2>3, <2>7 DEF BannerInv
<1> QED
  BY <1>1, <1>7, <1>8

LEMMA ProcessDiesKeepsBanner ==
  ASSUME CallInv, BannerInv, NEW c \in Calls, ProcessDies(c)
  PROVE  BannerInv'
<1>1. UNCHANGED <<online, line, banner, turn, overtaken>> /\ missed' = missed \union {c} /\ Dies(c)
  BY DEF ProcessDies
<1>2. call'[c].at = "done" /\ rows' = rows /\ \A d \in Calls \ {c} : call'[d] = call[d]
  BY <1>1 DEF Dies, CallInv, CallsTypeOK
<1>3. \A d : Has(d)' <=> Has(d)
  BY <1>2 DEF Has
<1>4. \A i \in 1 .. Len(line) : line[i] \in Calls
  BY ElementOfSeq DEF BannerInv, BannerTyped
<1>5. \A d \in Calls : d \in OnTheWay <=> (\E i \in 1 .. Len(line) : line[i] = d) \/ call[d].at = "publish"
  BY ComingIs DEF BannerInv
<1>6. BannerTyped'
  BY <1>1 DEF BannerInv, BannerTyped
<1>7. LineInv'
  BY <1>1, <1>2, <1>3, <1>4 DEF BannerInv, LineInv
<1>8. ASSUME NEW d \in Calls
      PROVE  (d \in OnTheWay)' <=> (\E i \in 1 .. Len(line) : line[i] = d) \/ call'[d].at = "publish"
  <2>1. (d \in OnTheWay)' <=> (\E i \in 1 .. Len(line') : line'[i] = d) \/ call'[d].at = "publish"
    BY <1>6, InLine DEF BannerTyped, OnTheWay
  <2> QED
    BY <1>1, <2>1
<1>9. (c \in OnTheWay)' => c \in OnTheWay
  BY <1>2, <1>5, <1>8
<1>10. \A d \in Calls \ {c} : (d \in OnTheWay)' <=> d \in OnTheWay
  BY <1>2, <1>5, <1>8
<1>11. \A d \in Calls : Counted(d)'
  BY <1>1, <1>3, <1>9, <1>10 DEF BannerInv, Counted
<1> QED
  BY <1>6, <1>7, <1>11 DEF BannerInv

LEMMA RenderKeepsBanner ==
  ASSUME CallInv, BannerInv, NEW n \in 1 .. Cardinality(Calls), NEW newest \in BOOLEAN, Render(n, newest)
  PROVE  BannerInv'
<1>1. /\ n <= Len(line) /\ line' = SubSeq(line, n + 1, Len(line))
      /\ banner' = IF newest THEN [banner EXCEPT ![line[n]] = @ + 1] ELSE banner
      /\ missed' = missed \union {line[i] : i \in 1 .. IF newest THEN n - 1 ELSE n}
      /\ UNCHANGED <<online, turn, overtaken, call, rows>>
  BY DEF Render, callVars
<1>2. Len(line) \in Nat /\ \A i \in 1 .. Len(line) : line[i] \in Calls
  BY LenProperties, ElementOfSeq DEF BannerInv, BannerTyped
<1>3. n \in 1 .. Len(line)
  <2>1. Cardinality(Calls) \in Nat
    BY CallsAreFinite, FS_CardinalityType
  <2> QED
    BY <1>1, <1>2, <2>1
<1>4. /\ line' \in Seq(Calls) /\ Len(line') = Len(line) - n
      /\ \A i \in 1 .. Len(line) - n : line'[i] = line[n + i]
  <2>1. \A i \in n + 1 .. Len(line) : line[i] \in Calls
    BY <1>2, <1>3
  <2>2. /\ SubSeq(line, n + 1, Len(line)) \in Seq(Calls)
        /\ Len(SubSeq(line, n + 1, Len(line))) = IF n + 1 <= Len(line) THEN Len(line) - (n + 1) + 1 ELSE 0
        /\ \A i \in 1 .. Len(line) - (n + 1) + 1 : SubSeq(line, n + 1, Len(line))[i] = line[(n + 1) + i - 1]
    BY <1>2, <1>3, <2>1, SubSeqProperties
  <2>3. \A i \in 1 .. Len(line) - n : (n + 1) + i - 1 = n + i /\ i \in 1 .. Len(line) - (n + 1) + 1
    BY <1>2, <1>3
  <2> QED
    BY <1>1, <1>2, <1>3, <2>2, <2>3
<1>5. \A d : Has(d)' <=> Has(d)
  BY <1>1 DEF Has
<1>6. \A d \in Calls : d \in OnTheWay <=> (\E i \in 1 .. Len(line) : line[i] = d) \/ call[d].at = "publish"
  BY ComingIs DEF BannerInv
<1>7. /\ Has(line[n]) /\ call[line[n]].at # "publish" /\ line[n] \in OnTheWay
      /\ \A i \in 1 .. Len(line) : line[i] = line[n] => i = n
  BY <1>2, <1>3, <1>6 DEF BannerInv, LineInv
<1>8. banner[line[n]] \in 0 .. 1
  BY <1>2, <1>3, <1>7 DEF BannerInv, BannerTyped, Counted
<1>9. /\ banner' \in [Calls -> 0 .. 2]
      /\ \A d \in Calls : d # line[n] => banner'[d] = banner[d]
      /\ newest => banner'[line[n]] = banner[line[n]] + 1
      /\ ~newest => banner'[line[n]] = banner[line[n]]
  BY <1>1, <1>2, <1>3, <1>8 DEF BannerInv, BannerTyped
<1>10. BannerTyped'
  <2>1. missed' \subseteq Calls
    BY <1>1, <1>2, <1>3 DEF BannerInv, BannerTyped
  <2> QED
    BY <1>1, <1>4, <1>9, <2>1 DEF BannerInv, BannerTyped
<1>11. \A i \in 1 .. Len(line') : n + i \in 1 .. Len(line) /\ line'[i] = line[n + i]
  BY <1>2, <1>3, <1>4
<1>12. LineInv'
  <2>1. \A i, j \in 1 .. Len(line') : line'[i] = line'[j] => i = j
    <3> SUFFICES ASSUME NEW i \in 1 .. Len(line'), NEW j \in 1 .. Len(line'), line'[i] = line'[j]
                 PROVE  i = j
      OBVIOUS
    <3>1. n + i = n + j
      BY <1>11 DEF BannerInv, LineInv
    <3> QED
      BY <1>2, <1>3, <1>4, <3>1
  <2>2. ASSUME NEW i \in 1 .. Len(line')
        PROVE  Has(line'[i]) /\ call[line'[i]].at # "publish"
    <3>1. n + i \in 1 .. Len(line) /\ line'[i] = line[n + i]
      BY <1>11
    <3>2. Has(line[n + i]) /\ call[line[n + i]].at # "publish"
      BY <3>1 DEF BannerInv, LineInv
    <3> QED
      BY <3>1, <3>2
  <2> QED
    BY <1>1, <2>1, <2>2 DEF LineInv, Has
<1>13. ASSUME NEW d \in Calls PROVE Counted(d)'
  <2>1. (d \in OnTheWay)' <=> (\E i \in 1 .. Len(line') : line'[i] = d) \/ call[d].at = "publish"
    BY <1>1, <1>10, SeenNext
  <2>2. Counted(d)
    BY DEF BannerInv
  <2>3. CASE d = line[n]
    <3>1. Has(d) /\ d \in OnTheWay
      BY <1>7, <2>3
    <3>2. ~(d \in OnTheWay)'
      <4>1. ASSUME NEW i \in 1 .. Len(line'), line'[i] = d PROVE FALSE
        <5>1. n + i = n
          BY <1>7, <1>11, <2>3, <4>1
        <5> QED
          BY <1>2, <1>3, <1>4, <5>1
      <4> QED
        BY <1>7, <2>1, <2>3, <4>1
    <3>3. ~newest => d \in missed'
      BY <1>1, <1>3, <2>3
    <3>4. newest /\ d \notin missed' /\ d \notin overtaken' => banner'[d] = 1
      BY <1>1, <1>9, <2>2, <2>3, <3>1 DEF Counted
    <3> QED
      BY <1>5, <3>1, <3>2, <3>3, <3>4 DEF Counted
  <2>4. CASE d # line[n] /\ \E i \in 1 .. n : line[i] = d
    <3>1. PICK i \in 1 .. n - 1 : line[i] = d
      BY <1>3, <2>4
    <3>2. i \in 1 .. Len(line) /\ d \in missed'
      BY <1>1, <1>3, <3>1
    <3>3. Has(d) /\ call[d].at # "publish"
      BY <3>1, <3>2 DEF BannerInv, LineInv
    <3>4. ~(d \in OnTheWay)'
      <4>1. ASSUME NEW j \in 1 .. Len(line'), line'[j] = d PROVE FALSE
        <5>1. n + j = i
          BY <1>11, <3>1, <3>2, <4>1 DEF BannerInv, LineInv
        <5> QED
          BY <1>2, <1>3, <1>4, <3>1, <5>1
      <4> QED
        BY <2>1, <3>3, <4>1
    <3> QED
      BY <1>5, <3>2, <3>3, <3>4 DEF Counted
  <2>5. CASE d # line[n] /\ ~\E i \in 1 .. n : line[i] = d
    <3>1. d \in missed' <=> d \in missed
      BY <1>1, <1>3, <2>5
    <3>2. (\E i \in 1 .. Len(line') : line'[i] = d) <=> \E i \in 1 .. Len(line) : line[i] = d
      <4>1. ASSUME NEW i \in 1 .. Len(line), line[i] = d
            PROVE  \E j \in 1 .. Len(line') : line'[j] = d
        <5>1. i - n \in 1 .. Len(line') /\ n + (i - n) = i
          BY <1>2, <1>3, <1>4, <2>5, <4>1
        <5> QED
          BY <1>11, <4>1, <5>1
      <4> QED
        BY <1>11, <4>1
    <3>3. (d \in OnTheWay)' <=> d \in OnTheWay
      BY <1>6, <2>1, <3>2
    <3> QED
      BY <1>1, <1>5, <1>9, <2>2, <2>5, <3>1, <3>3 DEF Counted
  <2> QED
    BY <2>3, <2>4, <2>5
<1> QED
  BY <1>10, <1>12, <1>13 DEF BannerInv

LEMMA PaidIs == ASSUME CallInv PROVE Paid \subseteq Calls /\ \A c : c \in Paid <=> Has(c)
  BY DEF CallInv, CallsTypeOK, Paid, Has

\* Where the stream is closed, and the events on it are lost.
LEMMA DropsKeepBanner ==
  ASSUME CallInv, BannerInv, Disconnect
  PROVE  BannerInv'
<1>1. online' \in BOOLEAN /\ line' = <<>> /\ missed' = missed \union ToSet(line)
      /\ UNCHANGED <<banner, turn, overtaken, call, rows>>
  BY DEF Disconnect, callVars
<1>2. line' \in Seq(Calls) /\ Len(line') = 0
  BY <1>1, EmptySeq
<1>3. \A d : d \in ToSet(line) <=> \E i \in 1 .. Len(line) : line[i] = d
  BY InLine DEF BannerInv, BannerTyped
<1>4. \A i \in 1 .. Len(line) : line[i] \in Calls
  BY ElementOfSeq DEF BannerInv, BannerTyped
<1>5. BannerTyped'
  BY <1>1, <1>2, <1>3, <1>4 DEF BannerInv, BannerTyped
<1>6. LineInv'
  BY <1>2 DEF LineInv
<1>7. ASSUME NEW d \in Calls PROVE Counted(d)'
  <2>1. (Has(d)' <=> Has(d)) /\ ((d \in OnTheWay)' <=> call[d].at = "publish")
    BY <1>1, <1>2, <1>5, SeenNext
  <2>2. d \in OnTheWay <=> d \in ToSet(line) \/ call[d].at = "publish"
    BY <1>3, ComingIs DEF BannerInv
  <2> QED
    BY <1>1, <2>1, <2>2 DEF BannerInv, Counted
<1> QED
  BY <1>5, <1>6, <1>7 DEF BannerInv

LEMMA ReadTotalKeepsBanner ==
  ASSUME CallInv, BannerInv, ReadTotal
  PROVE  BannerInv'
<1>1. UNCHANGED <<online, line, banner, missed, overtaken, call, rows>>
  BY DEF ReadTotal, callVars
<1>2. PICK total \in {Paid, {}} : turn' = [asked |-> TRUE, total |-> total]
  BY DEF ReadTotal
<1>3. total \subseteq Calls /\ \A d \in total : Has(d)
  BY <1>2, PaidIs
<1>4. turn' \in [asked : BOOLEAN, total : SUBSET Calls] /\ turn'.total = total
  BY <1>2, <1>3
<1>5. BannerTyped'
  BY <1>1, <1>4 DEF BannerInv, BannerTyped
<1>6. LineInv'
  BY <1>1 DEF BannerInv, LineInv, Has
<1>7. ASSUME NEW d \in Calls PROVE Counted(d)'
  <2>1. (Has(d)' <=> Has(d)) /\ ((d \in OnTheWay)' <=> (\E i \in 1 .. Len(line) : line[i] = d) \/ call[d].at = "publish")
    BY <1>1, <1>5, SeenNext
  <2>2. (d \in OnTheWay)' <=> d \in OnTheWay
    BY <2>1, ComingIs DEF BannerInv
  <2> QED
    BY <1>1, <1>3, <1>4, <2>1, <2>2 DEF BannerInv, Counted
<1> QED
  BY <1>5, <1>6, <1>7 DEF BannerInv

LEMMA TotalArrivesKeepsBanner ==
  ASSUME CallInv, BannerInv, TotalArrives
  PROVE  BannerInv'
<1>1. /\ UNCHANGED <<online, line, call, rows>> /\ turn' = NoTurn
      /\ banner' = [c \in Calls |-> IF c \in turn.total THEN 1 ELSE 0]
      /\ missed' = (Paid \ turn.total) \ OnTheWay /\ overtaken' = turn.total \intersect OnTheWay
  BY DEF TotalArrives, callVars
<1>2. turn' \in [asked : BOOLEAN, total : SUBSET Calls] /\ turn'.total = {}
  BY <1>1 DEF NoTurn
<1>3. banner' \in [Calls -> 0 .. 2] /\ \A d \in Calls : banner'[d] = IF d \in turn.total THEN 1 ELSE 0
  BY <1>1
<1>4. BannerTyped'
  BY <1>1, <1>2, <1>3, PaidIs DEF BannerInv, BannerTyped
<1>5. LineInv'
  BY <1>1 DEF BannerInv, LineInv, Has
<1>6. ASSUME NEW d \in Calls PROVE Counted(d)'
  <2>1. (Has(d)' <=> Has(d)) /\ ((d \in OnTheWay)' <=> (\E i \in 1 .. Len(line) : line[i] = d) \/ call[d].at = "publish")
    BY <1>1, <1>4, SeenNext
  <2>2. (d \in OnTheWay)' <=> d \in OnTheWay
    BY <2>1, ComingIs DEF BannerInv
  <2>3. (d \in Paid <=> Has(d)) /\ (~Has(d) => d \notin turn.total)
    BY PaidIs DEF BannerInv, Counted
  <2> QED
    BY <1>1, <1>2, <1>3, <2>1, <2>2, <2>3 DEF Counted
<1> QED
  BY <1>4, <1>5, <1>6 DEF BannerInv

LEMMA ReloadKeepsBanner ==
  ASSUME CallInv, BannerInv, Reload
  PROVE  BannerInv'
<1>1. /\ online' = FALSE /\ line' = <<>> /\ turn' = NoTurn /\ UNCHANGED <<call, rows>>
      /\ banner' = [c \in Calls |-> 0] /\ overtaken' = {}
      /\ missed' = Paid \ {c \in Calls : call[c].at = "publish"}
  BY DEF Reload, callVars
<1>2. turn' \in [asked : BOOLEAN, total : SUBSET Calls] /\ turn'.total = {}
  BY <1>1 DEF NoTurn
<1>3. banner' \in [Calls -> 0 .. 2] /\ \A d \in Calls : banner'[d] = 0
  BY <1>1
<1>4. line' \in Seq(Calls) /\ Len(line') = 0
  BY <1>1, EmptySeq
<1>5. BannerTyped'
  BY <1>1, <1>2, <1>3, <1>4, PaidIs DEF BannerTyped
<1>6. LineInv'
  BY <1>4 DEF LineInv
<1>7. ASSUME NEW d \in Calls PROVE Counted(d)'
  <2>1. (Has(d)' <=> Has(d)) /\ ((d \in OnTheWay)' <=> call[d].at = "publish")
    BY <1>1, <1>4, <1>5, SeenNext
  <2>2. d \in Paid <=> Has(d)
    BY PaidIs
  <2> QED
    BY <1>1, <1>2, <1>3, <2>1, <2>2 DEF Counted
<1> QED
  BY <1>5, <1>6, <1>7 DEF BannerInv

LEMMA BannerKeeps == ASSUME CallInv, BannerInv, Next PROVE BannerInv'
<1>1. ASSUME UNCHANGED <<line, banner, turn, missed, overtaken, call, rows>>, online' \in BOOLEAN
      PROVE  BannerInv'
  BY <1>1 DEF BannerInv, BannerTyped, LineInv, Counted, OnTheWay, Has
<1>2. ASSUME NEW c \in Calls, CallSteps(c) /\ "calls" \in parts /\ UNCHANGED <<parts, bannerVars, replayVars>>
      PROVE  BannerInv'
  BY <1>2, CallStepsKeepBanner
<1>3. CASE \/ \E agents \in 1 .. 2 : Checkpoint(agents)
           \/ LoadLatest \/ AskOlder \/ OlderArrives \/ OlderFails
  <2>1. UNCHANGED <<line, banner, turn, missed, overtaken, call, rows>> /\ UNCHANGED online
    BY <1>3 DEF Checkpoint, LoadLatest, AskOlder, OlderArrives, OlderFails, bannerVars, callVars
  <2>2. online' \in BOOLEAN
    BY <2>1 DEF BannerInv, BannerTyped
  <2> QED
    BY <1>1, <2>1, <2>2
<1>4. CASE Connect
  <2>1. UNCHANGED <<line, banner, turn, missed, overtaken, call, rows>> /\ online' \in BOOLEAN
    BY <1>4 DEF Connect, callVars
  <2> QED
    BY <1>1, <2>1
<1> QED
  BY <1>2, <1>3, <1>4, AnnounceKeepsBanner, ProcessDiesKeepsBanner, RenderKeepsBanner, DropsKeepBanner,
     ReadTotalKeepsBanner, TotalArrivesKeepsBanner, ReloadKeepsBanner DEF Next

-----------------------------------------------------------------------------
(* The invariant and the theorems.                                           *)

IInv == CallInv /\ BannerInv /\ ReplayInv /\ parts \in Parts

LEMMA PartsStay == ASSUME Next PROVE parts' = parts
BY DEF Next, Announce, ProcessDies, Render, Connect, Disconnect, ReadTotal, TotalArrives, Checkpoint, LoadLatest,
       AskOlder, OlderArrives, OlderFails, Reload

LEMMA Invariance == Spec => []IInv
<1>1. Init => IInv
  <2> SUFFICES ASSUME Init
               PROVE  IInv
    OBVIOUS
  <2>1. CallInv
    BY InitAccounts DEF Init
  <2>2. \A S : <<>> \in Seq(S) /\ Len(<<>>) = 0
    BY EmptySeq
  <2>3. \A c \in Calls : ~Has(c) /\ call[c].at = "idle"
    BY DEF Init, InitCalls, Has
  <2>4. BannerTyped /\ LineInv
    <3>1. line = <<>> /\ turn = [asked |-> FALSE, total |-> {}] /\ banner = [c \in Calls |-> 0] /\ online = FALSE
          /\ missed = {} /\ overtaken = {}
      BY DEF Init, NoTurn
    <3>2. line \in Seq(Calls) /\ Len(line) = 0
      BY <2>2, <3>1
    <3>3. turn \in [asked : BOOLEAN, total : SUBSET Calls]
      BY <3>1
    <3> QED
      <4>1. banner \in [Calls -> 0 .. 2]
        BY <3>1
      <4>2. LineInv
        BY <3>2 DEF LineInv
      <4>3. online \in BOOLEAN /\ missed \subseteq Calls /\ overtaken \subseteq Calls
        BY <3>1
      <4> QED
        BY <3>2, <3>3, <4>1, <4>2, <4>3 DEF BannerTyped
  <2>5. ASSUME NEW c \in Calls PROVE Counted(c)
    <3>1. c \notin OnTheWay
      BY <2>2, <2>3, <2>4, ComingIs DEF Init
    <3> QED
      BY <2>3, <3>1 DEF Init, Counted, NoTurn
  <2>6. ReplayInv
    <3>1. steps = 0 /\ shown = <<>> /\ cursor = 0 /\ older = 0 /\ crossed = FALSE /\ mixed = FALSE
      BY DEF Init
    <3>2. shown \in Seq(1 .. steps) /\ Len(shown) = 0
      BY <2>2, <3>1
    <3>3. InARow(shown, cursor)
      BY <3>1, <3>2 DEF InARow
    <3> QED
      <4>1. crossed \in BOOLEAN /\ mixed \in BOOLEAN
        BY <3>1
      <4>2. steps \in 0 .. MaxSteps /\ cursor \in Cursors(steps) /\ older \in Cursors(steps)
        BY <3>1, PagesAreNumbers DEF Cursors
      <4> QED
        BY <3>1, <3>2, <3>3, <4>1, <4>2 DEF ReplayInv
  <2> QED
    BY <2>1, <2>4, <2>5, <2>6 DEF Init, IInv, BannerInv
<1>2. IInv /\ [Next]_vars => IInv'
  <2>1. ASSUME IInv, Next PROVE IInv'
    BY <2>1, PartsStay, NextIsCallStep, CallStepKeeps, NothingKeeps, BannerKeeps, ReplayKeeps DEF IInv
  <2>2. ASSUME IInv, UNCHANGED vars PROVE IInv'
    <3>1. UNCHANGED callVars /\ UNCHANGED <<call, rows>> /\ UNCHANGED <<online, line, banner, turn, missed, overtaken>>
          /\ UNCHANGED <<parts, steps, shown, cursor, older, crossed, mixed>>
      BY <2>2 DEF vars, callVars, bannerVars, replayVars
    <3>2. BannerInv'
      BY <2>2, <3>1 DEF IInv, BannerInv, BannerTyped, LineInv, Counted, OnTheWay, Has
    <3> QED
      BY <2>2, <3>1, <3>2, NothingKeeps DEF IInv, ReplayInv
  <2> QED
    BY <2>1, <2>2
<1> QED
  BY <1>1, <1>2, PTL DEF Spec

\* Whatever is published, rendered, lost, read and reloaded, in any order, the calls,
\* the events on the way, the banner and the replay stay of their types: no more events
\* than calls, no call counted more than twice (useSSE, the effect on events,
\* loadReplay).
THEOREM TypeCorrect == Spec => []TypeOK
<1>1. IInv => TypeOK
  <2> SUFFICES ASSUME IInv
               PROVE  TypeOK
    OBVIOUS
  <2>1. Len(line) <= Cardinality(Calls) /\ ToSet(line) \subseteq Calls
    <3>1. line \in [1 .. Len(line) -> Calls] /\ Len(line) \in Nat
      BY LenProperties DEF IInv, BannerInv, BannerTyped
    <3>2. line \in Injection(1 .. Len(line), Calls)
      BY <3>1, Fun_IsInj DEF IInv, BannerInv, LineInv
    <3>3. Cardinality(1 .. Len(line)) <= Cardinality(Calls)
      BY <3>2, CallsAreFinite, FS_Injection
    <3>4. Cardinality(1 .. Len(line)) = Len(line)
      <4>1. 1 \in Int /\ Len(line) \in Int
        BY <3>1
      <4>2. Cardinality(1 .. Len(line)) = IF 1 > Len(line) THEN 0 ELSE Len(line) - 1 + 1
        BY <4>1, FS_Interval
      <4> QED
        BY <3>1, <4>2
    <3>5. ToSet(line) \subseteq Calls
      BY <3>1, InLine DEF IInv, BannerInv, BannerTyped
    <3> QED
      BY <3>3, <3>4, <3>5
  <2>2. ToSet(shown) \subseteq 1 .. steps
    BY InLine, ElementOfSeq DEF IInv, ReplayInv
  <2>3. cursor \in 0 .. steps /\ older \in 0 .. steps
    BY PagesAreNumbers DEF IInv, ReplayInv, Cursors
  <2> QED
    BY <2>1, <2>2, <2>3 DEF IInv, CallInv, BannerInv, BannerTyped, ReplayInv, TypeOK
<1> QED
  BY <1>1, Invariance, PTL

\* However the events of the calls and the totals in the chat's answers overtake each
\* other or are lost, the banner counts every call that is paid for once, but for the
\* calls on the way, missed or overtaken (the effect on events, applyCampaignSummary).
THEOREM BannerCountsOnce == Spec => []BannerIsRight
<1>1. IInv => BannerIsRight
  <2> SUFFICES ASSUME IInv, NEW c \in Calls, c \notin OnTheWay, c \notin missed, c \notin overtaken
               PROVE  banner[c] = Cardinality(RowsOf(c))
    BY DEF BannerIsRight
  <2>1. Counted(c)
    BY DEF IInv, BannerInv
  <2>2. CASE ~Has(c)
    <3>1. RowsOf(c) = {}
      BY <2>2 DEF RowsOf, Has
    <3> QED
      BY <2>1, <2>2, <3>1, FS_EmptySet DEF Counted
  <2>3. CASE Has(c)
    <3>1. PICK r \in rows : r.call = c
      BY <2>3 DEF Has
    <3>2. RowsOf(c) = {r}
      BY <3>1 DEF RowsOf, IInv, CallInv, OneRow
    <3> QED
      BY <2>1, <2>3, <3>2, FS_Singleton DEF Counted
  <2> QED
    BY <2>2, <2>3
<1> QED
  BY <1>1, Invariance, PTL

\* While the history grows, and for any sizes of the pages, the browser shows a run of
\* it without gap or repetition, which goes back to the first event when there is no
\* older page to ask for, unless a page is mixed in that the latest page has crossed
\* (_window_replay_events, loadReplay, loadOlderReplay).
THEOREM ReplayHasNoGap == Spec => []ReplayIsContiguous
<1>1. IInv => ReplayIsContiguous
  BY DEF IInv, ReplayInv, InARow, ReplayIsContiguous
<1> QED
  BY <1>1, Invariance, PTL
=============================================================================
