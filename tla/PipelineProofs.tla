--------------------------- MODULE PipelineProofs ---------------------------
(***************************************************************************)
(* Theorems about Pipeline, for any tasks, judges, rounds and generations:   *)
(* type correctness, and that it implements GraphRun.                        *)
(***************************************************************************)
EXTENDS Pipeline, TLAPS

\* The checkpoint lacks what was done to a variant, never the variant.
SavedIsMade == \A k \in Keys : saved[k] = NoVariant <=> variants[k] = NoVariant

\* Until something goes wrong, every generation has a variant for every task.
PlannedIsMade ==
  node # "intake_agent" /\ ~errors =>
    /\ plan = Tasks
    /\ node # "content_generator" =>
         /\ generation \in Generations
         /\ \A t \in Tasks : variants[<<generation, t>>] # NoVariant

AggregatesAreMade == \A a \in aggs : variants[a.key] # NoVariant

\* Only a decision rejects a variant, and decisions answer requests.
RejectedIsRequested ==
  \A k \in Keys : variants[k].status = "rejected" \/ saved[k].status = "rejected"
                    => TaskOf(k) \in Requested

VerdictsAnswer == node = "review_gate" => \A t \in Tasks : verdict[t] # "none" <=> t \in Requested

\* What publishing_agent finds was last decided as its status says.
VerdictsApplied ==
  node = "publishing_agent" =>
    \A k \in Made : verdict[TaskOf(k)] \in {"rejected", "edited"}
                      => variants[k].status = verdict[TaskOf(k)]

IInv == TypeOK /\ PlannedIsMade /\ SavedIsMade /\ AggregatesAreMade /\ RejectedIsRequested
          /\ VerdictsAnswer /\ VerdictsApplied

-----------------------------------------------------------------------------
LEMMA NoVariantIsNone == NoVariant \notin Variant /\ NoVariant.status = "none"
<1>1. NoVariant.status = "none"
  BY DEF NoVariant
<1>2. ASSUME NoVariant \in Variant PROVE NoVariant.status \in Statuses
  BY <1>2 DEF Variant
<1>3. "none" \notin Statuses
  BY DEF Statuses, Dead, Decisions
<1> QED BY <1>1, <1>2, <1>3

LEMMA KeyTypes == \A k \in Keys : TaskOf(k) \in Tasks /\ k[1] \in Generations
BY DEF Keys, TaskOf

\* A made variant is a variant.
LEMMA MadeVariant == ASSUME TypeOK, NEW k \in Made PROVE k \in Keys /\ variants[k] \in Variant
BY DEF TypeOK, Made

-----------------------------------------------------------------------------
LEMMA InitTypes == ASSUME ConstantsAssumption, Init PROVE TypeOK
<1>1. node \in Nodes /\ generation \in 0 .. MaxGenerations /\ round \in Nat /\ loops \in 0 .. MaxLoops
  BY DEF Init, Nodes, Working, ConstantsAssumption
<1>2. variants \in [Keys -> Variant \union {NoVariant}] /\ saved = variants
  BY DEF Init
<1>3. verdict \in [Tasks -> Decisions \union {"none"}] /\ shown \in [Tasks -> Finals \union {"none"}]
  BY DEF Init, NoVerdict
<1> QED BY <1>1, <1>2, <1>3 DEF Init, TypeOK

LEMMA StepTypes == ASSUME ConstantsAssumption, TypeOK, PlannedIsMade, [Next]_vars
                  PROVE  TypeOK'
<1> USE DEF Nodes, Working
<1>1. ASSUME NEW valid \in BOOLEAN, Intake(valid) PROVE TypeOK'
  BY <1>1 DEF TypeOK, Intake, panel, review
<1>2. ASSUME NEW F \in SUBSET Tasks, NEW retry \in [Tasks -> Drafts],
             ContentGenerator(F, retry)
      PROVE TypeOK'
  <2>1. \A t \in Tasks : Generated(retry[t]) \in Variant /\ Ungenerated \in Variant
    BY DEF ConstantsAssumption, Drafts, Generated, Ungenerated, Variant, Statuses, Dead, Texts
  <2>2. variants' \in [Keys -> Variant \union {NoVariant}]
    BY <1>2, <2>1, KeyTypes DEF ContentGenerator, TypeOK
  <2> QED BY <1>2, <2>2 DEF TypeOK, ContentGenerator, panel, review, ConstantsAssumption
<1>3. CASE ContentGeneratorRaises
  BY <1>3 DEF TypeOK, ContentGeneratorRaises, panel, review
<1>4. ASSUME NEW D \in Handled(Unpersonalized), Personalize(D) PROVE TypeOK'
  <2>1. \A k \in D : variants[k] \in Variant
    BY MadeVariant DEF Handled, Unpersonalized
  <2>2. \A v \in Variant :
          [v EXCEPT !.status = "personalized", !.text = "personalized"] \in Variant
    BY DEF Variant, Statuses, Texts
  <2>3. variants' \in [Keys -> Variant \union {NoVariant}]
    BY <1>4, <2>1, <2>2 DEF Personalize, TypeOK
  <2> QED BY <1>4, <2>3 DEF TypeOK, Personalize, panel, review
<1>5. ASSUME NEW P \in Passing, NEW X \in Raising(P), Translate(P, X) PROVE TypeOK'
  <2>1. \A k \in ToTranslate : variants[k] \in Variant
    BY MadeVariant DEF ToTranslate
  <2>2. \A v \in Variant :
          /\ Translated(v) \in Variant
          /\ [v EXCEPT !.status = "translation_blocked_no_source"] \in Variant
          /\ [v EXCEPT !.status = "translation_failed"] \in Variant
          /\ [v EXCEPT !.status = "translation_failed", !.text = "translated"] \in Variant
    BY DEF Variant, Translated, Statuses, Dead, Texts, Finals
  <2>3. Same \union P \subseteq ToTranslate /\ Blank \subseteq ToTranslate
          /\ X \subseteq ToTranslate /\ Tried \subseteq ToTranslate
    BY DEF Passing, Raising, Tried, Same, Blank
  <2>4. \A k \in Keys : variants'[k] \in Variant \union {NoVariant}
    <3> TAKE k \in Keys
    <3>1. CASE k \in Same \union P
      BY <1>5, <3>1, <2>1, <2>2, <2>3 DEF Translate
    <3>2. CASE k \notin Same \union P /\ k \in ToTranslate
      BY <1>5, <3>2, <2>1, <2>2, <2>3 DEF Translate, TypeOK
    <3>3. CASE k \notin ToTranslate
      BY <1>5, <3>3, <2>3 DEF Translate, TypeOK
    <3> QED BY <3>1, <3>2, <3>3, <2>3
  <2>5. variants' \in [Keys -> Variant \union {NoVariant}]
    BY <1>5, <2>4 DEF Translate
  <2> QED BY <1>5, <2>5 DEF TypeOK, Translate, panel, review
<1>6. CASE JudgeGate
  BY <1>6 DEF TypeOK, JudgeGate, panel, review
<1>7. ASSUME NEW S \in SUBSET Unscored, NEW R \in SUBSET Judges, Judge(S, R) PROVE TypeOK'
  <2>1. Scoreable \subseteq Tasks \X Nat
    BY MadeVariant, KeyTypes DEF Scoreable, Variant
  <2>2. Unscored \subseteq Tasks \X Nat \X Judges
    BY <2>1 DEF Unscored
  <2> QED BY <1>7, <2>2 DEF TypeOK, Judge, review
<1>8. ASSUME NEW route \in [{Content(k) : k \in Ready} -> Routes(2)], AggregateWith(route)
      PROVE TypeOK'
  <2>1. \A k \in Ready : k \in Keys /\ variants[k].retry \in Nat
    BY MadeVariant DEF Ready, Variant
  <2>2. \A k \in Ready : route[Content(k)] \in {"auto_approve", "auto_reject", "flag"}
    BY DEF Routes
  <2>3. aggs' \subseteq Aggregate
    BY <1>8, <2>1, <2>2 DEF AggregateWith, TypeOK, Aggregate
  <2> QED BY <1>8, <2>3 DEF TypeOK, AggregateWith, review
<1>9. ASSUME NEW D \in Handled(Failing), NEW E \in SUBSET D, Reflexion(D, E) PROVE TypeOK'
  <2>1. \A k \in D : variants[k] \in Variant
    BY MadeVariant DEF Handled, Failing
  <2>2. \A v \in Variant, a \in {"rewritten", "none"} : Rewritten(v, a) \in Variant
    BY DEF Variant, Rewritten, Statuses, Texts
  <2>3. variants' \in [Keys -> Variant \union {NoVariant}]
    BY <1>9, <2>1, <2>2 DEF Reflexion, TypeOK
  <2>4. loops' \in 0 .. MaxLoops /\ node' \in Nodes
    BY <1>9 DEF Reflexion, TypeOK, ConstantsAssumption
  <2>5. errors' \in BOOLEAN
    BY <1>9 DEF Reflexion, TypeOK
  <2> QED BY <1>9, <2>3, <2>4, <2>5 DEF TypeOK, Reflexion, review
<1>10. CASE Pause
  <2>1. \A v \in Variant : Body(v) \in Finals \union {"none"}
    BY DEF Body, Variant, Finals
  <2>2. CASE errors
    BY <1>10, <2>2 DEF TypeOK, Pause, panel
  <2>3. CASE ~errors
    <3>1. \A t \in Tasks : variants[<<generation, t>>] \in Variant
      BY <1>10, <2>3 DEF PlannedIsMade, Pause, TypeOK, Keys
    <3>2. shown' \in [Tasks -> Finals \union {"none"}]
      BY <1>10, <2>1, <2>3, <3>1 DEF Pause
    <3> QED BY <1>10, <2>3, <3>2 DEF TypeOK, Pause, panel
  <2> QED BY <2>2, <2>3
<1>11. ASSUME NEW f \in [Tasks -> Decisions \union {"none"}], Resume(f) PROVE TypeOK'
  BY <1>11 DEF TypeOK, Resume, ConstantsAssumption
<1>12. CASE ReviewGate
  <2>1. ASSUME NEW v \in Variant, NEW d \in Decisions \union {"none"}
        PROVE  Reviewed(v, d) \in Variant
    <3>1. /\ v.text \in Finals \union {"none"} /\ "edited" \in Finals
          /\ Decisions \subseteq Statuses
      BY DEF Variant, Finals, Statuses
    <3>2. CASE d = "none"
      BY <3>1, <3>2 DEF Reviewed, Variant
    <3>3. CASE d = "approved"
      BY <3>1, <3>3 DEF Reviewed, Variant, Decisions
    <3>4. CASE d = "edited"
      BY <3>1, <3>4 DEF Reviewed, Variant, Decisions
    <3>5. CASE d = "rejected"
      <4>1. v.retry + 1 \in Nat /\ "rejected" \in Statuses
        BY <3>1 DEF Variant, Decisions
      <4>2. Reviewed(v, d) = [v EXCEPT !.status = "rejected", !.retry = v.retry + 1]
        BY <3>5 DEF Reviewed, Variant
      <4> QED BY <4>1, <4>2 DEF Variant
    <3> QED BY <3>2, <3>3, <3>4, <3>5 DEF Decisions
  <2>2. variants' \in [Keys -> Variant \union {NoVariant}]
    BY <1>12, <2>1, KeyTypes, MadeVariant DEF ReviewGate, TypeOK
  <2>3. round' \in Nat /\ node' \in Nodes
    BY <1>12 DEF ReviewGate, TypeOK
  <2> QED BY <1>12, <2>2, <2>3 DEF TypeOK, ReviewGate, panel
<1>13. ASSUME NEW D \in SUBSET Publishable, Publish(D) PROVE TypeOK'
  <2>1. \A k \in D : k \in Keys /\ Body(variants[k]) \in Finals \union {"none"}
    BY MadeVariant DEF Publishable, Body, Variant, Finals
  <2>2. delivered' \subseteq Keys \X (Finals \union {"none"})
    BY <1>13, <2>1 DEF Publish
  <2>3. errors' \in BOOLEAN
    BY <1>13 DEF Publish, TypeOK
  <2> QED BY <1>13, <2>2, <2>3 DEF TypeOK, Publish, panel
<1>14. CASE UNCHANGED vars
  BY <1>14 DEF TypeOK, vars
<1> QED
  BY <1>1, <1>2, <1>3, <1>4, <1>5, <1>6, <1>7, <1>8, <1>9, <1>10, <1>11, <1>12, <1>13, <1>14
  DEF Next

-----------------------------------------------------------------------------
\* Requests are never withdrawn, and AggregateWith is the only action that adds some.
LEMMA RequestedKept == ASSUME aggs' = aggs PROVE Requested' = Requested
BY DEF Requested

LEMMA InitIInv == ASSUME ConstantsAssumption, Init PROVE IInv
<1>1. \A k \in Keys : variants[k] = NoVariant /\ saved[k] = NoVariant
  BY DEF Init
<1>2. SavedIsMade /\ RejectedIsRequested
  BY <1>1, NoVariantIsNone DEF SavedIsMade, RejectedIsRequested
<1>3. PlannedIsMade /\ AggregatesAreMade /\ VerdictsAnswer /\ VerdictsApplied
  BY DEF Init, PlannedIsMade, AggregatesAreMade, VerdictsAnswer, VerdictsApplied
<1> QED BY <1>2, <1>3, InitTypes DEF IInv

\* The nodes that enrich what is there: each variant stays made, and none becomes
\* rejected.
Enriching ==
  /\ \A k \in Keys : /\ variants'[k] = NoVariant <=> variants[k] = NoVariant
                     /\ variants'[k].status = "rejected" => variants[k].status = "rejected"
  /\ UNCHANGED <<plan, generation, saved, aggs, verdict>>
  /\ errors => errors'
  /\ node \in Working \ {"intake_agent", "content_generator"}
  /\ node' \in (Working \ {"intake_agent", "content_generator"}) \union {"gate", "failed"}

LEMMA EnrichingStep == ASSUME IInv, Enriching PROVE
  PlannedIsMade' /\ SavedIsMade' /\ AggregatesAreMade' /\ RejectedIsRequested'
    /\ VerdictsAnswer' /\ VerdictsApplied'
<1>1. SavedIsMade'
  BY DEF IInv, SavedIsMade, Enriching
<1>2. AggregatesAreMade'
  BY DEF IInv, AggregatesAreMade, Enriching, TypeOK, Aggregate
<1>3. RejectedIsRequested'
  BY RequestedKept DEF IInv, RejectedIsRequested, Enriching
<1>4. VerdictsAnswer' /\ VerdictsApplied'
  BY DEF Enriching, VerdictsAnswer, VerdictsApplied, Working
<1>5. PlannedIsMade'
  <2>1. \A t \in Tasks : generation \in Generations => <<generation, t>> \in Keys
    BY DEF Keys
  <2> QED BY <2>1 DEF IInv, PlannedIsMade, Enriching, Working
<1> QED BY <1>1, <1>2, <1>3, <1>4, <1>5

LEMMA StepIInv == ASSUME ConstantsAssumption, IInv, [Next]_vars PROVE IInv'
<1> USE DEF Working
<1>0. TypeOK'
  BY StepTypes DEF IInv
<1> SUFFICES PlannedIsMade' /\ SavedIsMade' /\ AggregatesAreMade' /\ RejectedIsRequested'
               /\ VerdictsAnswer' /\ VerdictsApplied'
  BY <1>0 DEF IInv
<1> USE NoVariantIsNone
<1>1. ASSUME NEW valid \in BOOLEAN, Intake(valid)
      PROVE  PlannedIsMade' /\ SavedIsMade' /\ AggregatesAreMade' /\ RejectedIsRequested'
               /\ VerdictsAnswer' /\ VerdictsApplied'
  <2>1. Requested' = Requested
    BY <1>1, RequestedKept DEF Intake, panel
  <2> QED
    BY <1>1, <2>1 DEF Intake, panel, review, IInv, PlannedIsMade, SavedIsMade,
       AggregatesAreMade, RejectedIsRequested, VerdictsAnswer, VerdictsApplied
<1>2. ASSUME NEW F \in SUBSET Tasks, NEW retry \in [Tasks -> Drafts],
             ContentGenerator(F, retry)
      PROVE  PlannedIsMade' /\ SavedIsMade' /\ AggregatesAreMade' /\ RejectedIsRequested'
               /\ VerdictsAnswer' /\ VerdictsApplied'
  <2>1. Requested' = Requested
    BY <1>2, RequestedKept DEF ContentGenerator, panel
  <2>2. \A k \in Keys :
          LET new == k[1] = generation' /\ TaskOf(k) \in plan
          IN  /\ ~new => variants'[k] = variants[k]
              /\ new => variants'[k] # NoVariant /\ variants'[k].status \in {"failed", "generated"}
    BY <1>2 DEF ContentGenerator, Generated, Ungenerated
  <2>3. PlannedIsMade'
    <3>1. generation' \in Generations
      BY <1>2 DEF ContentGenerator, IInv, TypeOK, Generations, ConstantsAssumption
    <3>2. ASSUME ~errors, NEW t \in Tasks PROVE variants'[<<generation', t>>] # NoVariant
      <4>1. <<generation', t>> \in Keys /\ TaskOf(<<generation', t>>) = t
        BY <3>1 DEF Keys, TaskOf
      <4>2. t \in plan
        BY <1>2, <3>2 DEF ContentGenerator, IInv, PlannedIsMade
      <4> QED BY <2>2, <4>1, <4>2
    <3> QED BY <1>2, <3>1, <3>2 DEF ContentGenerator, IInv, PlannedIsMade
  <2>4. SavedIsMade'
    BY <1>2 DEF ContentGenerator, SavedIsMade
  <2>5. AggregatesAreMade'
    BY <1>2, <2>2 DEF ContentGenerator, panel, IInv, AggregatesAreMade, TypeOK, Aggregate
  <2>6. RejectedIsRequested'
    BY <1>2, <2>1, <2>2 DEF ContentGenerator, IInv, RejectedIsRequested
  <2>7. VerdictsAnswer' /\ VerdictsApplied'
    BY <1>2 DEF ContentGenerator, VerdictsAnswer, VerdictsApplied
  <2> QED BY <2>3, <2>4, <2>5, <2>6, <2>7
<1>3. CASE ContentGeneratorRaises
  <2>1. Requested' = Requested
    BY <1>3, RequestedKept DEF ContentGeneratorRaises, panel
  <2> QED
    BY <1>3, <2>1 DEF ContentGeneratorRaises, panel, review, IInv, PlannedIsMade, SavedIsMade,
       AggregatesAreMade, RejectedIsRequested, VerdictsAnswer, VerdictsApplied
<1>4. ASSUME NEW D \in Handled(Unpersonalized), Personalize(D) PROVE Enriching
  <2>1. \A k \in D : variants[k] \in Variant
    BY MadeVariant DEF IInv, Handled, Unpersonalized
  <2>2. \A v \in Variant :
          LET w == [v EXCEPT !.status = "personalized", !.text = "personalized"]
          IN  w.status = "personalized"
    BY DEF Variant
  <2>3. \A k \in Keys : IF k \in D THEN variants'[k].status = "personalized"
                                  ELSE variants'[k] = variants[k]
    BY <1>4, <2>1, <2>2 DEF Personalize
  <2>4. \A k \in D : variants[k] # NoVariant
    BY <2>1
  <2> QED BY <1>4, <2>3, <2>4 DEF Personalize, Enriching, panel, review
<1>5. ASSUME NEW P \in Passing, NEW X \in Raising(P), Translate(P, X) PROVE Enriching
  <2>1. \A k \in ToTranslate : variants[k] \in Variant
    BY MadeVariant DEF IInv, ToTranslate
  <2>2. \A v \in Variant : \A w \in
          {Translated(v), [v EXCEPT !.status = "translation_blocked_no_source"],
           [v EXCEPT !.status = "translation_failed"],
           [v EXCEPT !.status = "translation_failed", !.text = "translated"]} :
             w.status \notin {"none", "rejected"}
    BY DEF Variant, Translated
  <2>3. Same \union P \subseteq ToTranslate /\ Blank \subseteq ToTranslate
          /\ X \subseteq ToTranslate /\ Tried \subseteq ToTranslate
    BY DEF Passing, Raising, Tried, Same, Blank
  <2>4. ToTranslate = Same \union Blank \union Tried /\ ToTranslate \subseteq Keys
    BY DEF Tried, Same, Blank, ToTranslate, Made
  <2>5. ASSUME NEW k \in Keys
        PROVE  IF k \in ToTranslate THEN variants'[k].status \notin {"none", "rejected"}
                                    ELSE variants'[k] = variants[k]
    <3>1. CASE k \in ToTranslate
      <4>1. variants'[k] \in
          {Translated(variants[k]), [variants[k] EXCEPT !.status = "translation_blocked_no_source"],
           [variants[k] EXCEPT !.status = "translation_failed"],
           [variants[k] EXCEPT !.status = "translation_failed", !.text = "translated"]}
        <5>1. CASE k \in Same \union P
          BY <1>5, <5>1 DEF Translate
        <5>2. CASE k \notin Same \union P
          BY <1>5, <5>2, <3>1, <2>4 DEF Translate
        <5> QED BY <5>1, <5>2
      <4> QED BY <2>1, <2>2, <3>1, <4>1
    <3>2. CASE k \notin ToTranslate
      BY <1>5, <3>2, <2>3 DEF Translate
    <3> QED BY <3>1, <3>2
  <2>6. \A k \in ToTranslate : variants[k] # NoVariant
    BY <2>1
  <2> QED BY <1>5, <2>5, <2>6 DEF Translate, Enriching, panel, review
<1>6. ASSUME JudgeGate PROVE Enriching
  <2>1. errors' = errors /\ errors \in BOOLEAN
    BY <1>6 DEF JudgeGate, IInv, TypeOK
  <2> QED BY <1>6, <2>1 DEF JudgeGate, Enriching, panel, review
<1>7. ASSUME NEW S \in SUBSET Unscored, NEW R \in SUBSET Judges, Judge(S, R) PROVE Enriching
  BY <1>7 DEF Judge, Enriching, review
<1>8. ASSUME NEW route \in [{Content(k) : k \in Ready} -> Routes(2)], AggregateWith(route)
      PROVE  PlannedIsMade' /\ SavedIsMade' /\ AggregatesAreMade' /\ RejectedIsRequested'
               /\ VerdictsAnswer' /\ VerdictsApplied'
  <2>1. Requested \subseteq Requested'
    BY <1>8 DEF AggregateWith, Requested
  <2>2. AggregatesAreMade'
    <3>1. \A k \in Ready : variants[k] # NoVariant
      BY DEF Ready, Made
    <3>2. \A a \in aggs' : a \in aggs \/ a.key \in Ready
      BY <1>8 DEF AggregateWith
    <3> QED BY <1>8, <3>1, <3>2 DEF AggregateWith, AggregatesAreMade, IInv
  <2>3. RejectedIsRequested'
    BY <1>8, <2>1 DEF AggregateWith, RejectedIsRequested, IInv
  <2>4. PlannedIsMade' /\ SavedIsMade' /\ VerdictsAnswer' /\ VerdictsApplied'
    BY <1>8 DEF AggregateWith, review, PlannedIsMade, SavedIsMade, VerdictsAnswer,
       VerdictsApplied, IInv
  <2> QED BY <2>2, <2>3, <2>4
<1>9. ASSUME NEW D \in Handled(Failing), NEW E \in SUBSET D, Reflexion(D, E) PROVE Enriching
  <2>1. \A k \in D : variants[k] \in Variant
    BY MadeVariant DEF IInv, Handled, Failing
  <2>2. \A v \in Variant, a \in {"rewritten", "none"} : Rewritten(v, a).status = "generated"
    BY DEF Variant, Rewritten
  <2>3. \A k \in Keys : IF k \in D THEN variants'[k].status = "generated"
                                  ELSE variants'[k] = variants[k]
    BY <1>9, <2>1, <2>2 DEF Reflexion
  <2>4. \A k \in D : variants[k] # NoVariant
    BY <2>1
  <2>5. node' \in {"interrupt", "judges", "failed"} /\ node = "reflexion"
    BY <1>9 DEF Reflexion
  <2>6. UNCHANGED <<plan, generation, saved, aggs, verdict>> /\ (errors => errors')
    BY <1>9 DEF Reflexion, review
  <2> QED BY <2>3, <2>4, <2>5, <2>6 DEF Enriching
<1>10. ASSUME Pause PROVE Enriching
  <2>1. errors' = errors /\ errors \in BOOLEAN
    BY <1>10 DEF Pause, IInv, TypeOK
  <2>2. node' \in {"gate", "failed"}
    BY <1>10 DEF Pause
  <2> QED BY <1>10, <2>1, <2>2 DEF Pause, Enriching, panel
<1>11. ASSUME NEW f \in [Tasks -> Decisions \union {"none"}], Resume(f)
       PROVE  PlannedIsMade' /\ SavedIsMade' /\ AggregatesAreMade' /\ RejectedIsRequested'
                /\ VerdictsAnswer' /\ VerdictsApplied'
  <2>1. Requested' = Requested
    BY <1>11, RequestedKept DEF Resume
  <2>2. SavedIsMade' /\ RejectedIsRequested' /\ VerdictsAnswer' /\ VerdictsApplied'
    BY <1>11, <2>1 DEF Resume, IInv, SavedIsMade, RejectedIsRequested, VerdictsAnswer,
       VerdictsApplied
  <2>3. AggregatesAreMade'
    BY <1>11 DEF Resume, IInv, AggregatesAreMade, SavedIsMade, TypeOK, Aggregate
  <2>4. PlannedIsMade'
    <3>1. \A t \in Tasks : generation \in Generations => <<generation, t>> \in Keys
      BY DEF Keys
    <3> QED BY <1>11, <3>1 DEF Resume, IInv, PlannedIsMade, SavedIsMade
  <2> QED BY <2>2, <2>3, <2>4
<1>12. ASSUME ReviewGate
       PROVE  PlannedIsMade' /\ SavedIsMade' /\ AggregatesAreMade' /\ RejectedIsRequested'
                /\ VerdictsAnswer' /\ VerdictsApplied'
  <2>1. Requested' = Requested
    BY <1>12, RequestedKept DEF ReviewGate, panel
  <2>2. ASSUME NEW v \in Variant, NEW d \in Decisions \union {"none"}
        PROVE  Reviewed(v, d).status = IF d = "none" THEN v.status ELSE d
    BY DEF Reviewed, Variant, Decisions
  <2>3. ASSUME NEW k \in Keys
        PROVE  /\ variants'[k] = NoVariant <=> variants[k] = NoVariant
               /\ k \in Made => variants'[k].status =
                    IF verdict[TaskOf(k)] = "none" THEN variants[k].status ELSE verdict[TaskOf(k)]
    <3>1. CASE k \in Made
      <4>1. variants[k] \in Variant /\ verdict[TaskOf(k)] \in Decisions \union {"none"}
        BY <3>1, MadeVariant, KeyTypes DEF IInv, TypeOK
      <4>2. variants'[k] = Reviewed(variants[k], verdict[TaskOf(k)])
        BY <1>12, <3>1 DEF ReviewGate
      <4>3. \/ variants[k].status # "none" /\ verdict[TaskOf(k)] = "none"
            \/ verdict[TaskOf(k)] \in Decisions
        BY <4>1 DEF Variant, Statuses, Dead, Decisions
      <4>4. variants'[k].status =
              IF verdict[TaskOf(k)] = "none" THEN variants[k].status ELSE verdict[TaskOf(k)]
        BY <4>1, <4>2, <2>2
      <4>5. variants'[k].status # "none"
        BY <4>3, <4>4 DEF Decisions
      <4> QED BY <3>1, <4>4, <4>5 DEF Made
    <3>2. CASE k \notin Made
      BY <1>12, <3>2 DEF ReviewGate, Made
    <3> QED BY <3>1, <3>2
  <2>4. RejectedIsRequested'
    <3>1. \A k \in Made : variants'[k].status = "rejected" => TaskOf(k) \in Requested
      BY <1>12, <2>3, KeyTypes DEF ReviewGate, IInv, RejectedIsRequested, VerdictsAnswer, Made
    <3> QED BY <1>12, <2>1, <2>3, <3>1 DEF ReviewGate, IInv, RejectedIsRequested, Made
  <2>5. VerdictsApplied'
    BY <1>12, <2>3 DEF ReviewGate, VerdictsApplied, Made
  <2>6. PlannedIsMade'
    <3>1. \A t \in Tasks : generation \in Generations => <<generation, t>> \in Keys
      BY DEF Keys
    <3> QED BY <1>12, <2>3, <3>1 DEF ReviewGate, IInv, PlannedIsMade
  <2>7. SavedIsMade'
    BY <1>12, <2>3 DEF ReviewGate, IInv, SavedIsMade
  <2>8. AggregatesAreMade'
    BY <1>12, <2>3 DEF ReviewGate, panel, IInv, AggregatesAreMade, TypeOK, Aggregate
  <2>9. VerdictsAnswer'
    BY <1>12 DEF ReviewGate, VerdictsAnswer
  <2> QED BY <2>4, <2>5, <2>6, <2>7, <2>8, <2>9
<1>13. ASSUME NEW D \in SUBSET Publishable, Publish(D)
       PROVE  PlannedIsMade' /\ SavedIsMade' /\ AggregatesAreMade' /\ RejectedIsRequested'
                /\ VerdictsAnswer' /\ VerdictsApplied'
  <2>1. Requested' = Requested
    BY <1>13, RequestedKept DEF Publish, panel
  <2>2. errors => errors'
    BY <1>13 DEF Publish
  <2> QED
    BY <1>13, <2>1, <2>2 DEF Publish, panel, IInv, PlannedIsMade, SavedIsMade,
       AggregatesAreMade, RejectedIsRequested, VerdictsAnswer, VerdictsApplied
<1>14. CASE UNCHANGED vars
  <2>1. Requested' = Requested
    BY <1>14, RequestedKept DEF vars
  <2> QED
    BY <1>14, <2>1 DEF vars, IInv, PlannedIsMade, SavedIsMade, AggregatesAreMade,
       RejectedIsRequested, VerdictsAnswer, VerdictsApplied, Made
<1> QED
  BY <1>1, <1>2, <1>3, <1>4, <1>5, <1>6, <1>7, <1>8, <1>9, <1>10, <1>11, <1>12, <1>13, <1>14,
     EnrichingStep
  DEF Next

\* The invariant holds of every reachable state.
LEMMA Invariance == ASSUME ConstantsAssumption PROVE Spec => []IInv
<1>1. Init => IInv
  BY InitIInv
<1>2. IInv /\ [Next]_vars => IInv'
  BY StepIInv
<1> QED BY <1>1, <1>2, PTL DEF Spec

\* Every field of every variant, score and aggregate stays within its type: the
\* texts a pause shows exist, since a run without errors has made all of them.
THEOREM TypeCorrect == ASSUME ConstantsAssumption PROVE Spec => []TypeOK
<1>1. IInv => TypeOK
  BY DEF IInv
<1> QED BY <1>1, Invariance, PTL

-----------------------------------------------------------------------------
LEMMA InitMaps == ASSUME Init PROVE Contract!Init
BY DEF Init, Contract!Init, Contract!NoVerdict, NoVerdict, Requested, Working

\* A step between working nodes that leaves the aggregates alone is a stutter.
LEMMA WorkStutters ==
  ASSUME node \in Working, node' \in Working, UNCHANGED <<round, verdict, aggs, delivered>>
  PROVE  UNCHANGED Contract!vars
<1>1. Requested' = Requested
  BY RequestedKept
<1> QED BY <1>1 DEF Contract!vars, Working

\* The rejections review_gate sees are those of the verdict, since every requested
\* task has a variant, and it sees no other, since older ones are decided again.
LEMMA RouteMaps == ASSUME ConstantsAssumption, IInv, ReviewGate PROVE Contract!Route
<1> DEFINE rejected == \E t \in Tasks : verdict[t] = "rejected"
<1>1. rejected <=> \E k \in Made : verdict[TaskOf(k)] = "rejected"
  <2>1. ASSUME NEW t \in Tasks, verdict[t] = "rejected" PROVE \E k \in Made : TaskOf(k) = t
    <3>1. t \in Requested
      BY <2>1 DEF ReviewGate, IInv, VerdictsAnswer
    <3>2. PICK a \in aggs : TaskOf(a.key) = t
      BY <3>1 DEF Requested
    <3>3. a.key \in Made
      BY <3>2 DEF IInv, TypeOK, Aggregate, AggregatesAreMade, Made
    <3> QED BY <3>2, <3>3
  <2>2. \A k \in Made : TaskOf(k) \in Tasks
    BY KeyTypes DEF Made
  <2> QED BY <2>1, <2>2
<1>2. round' = IF rejected THEN round + 1 ELSE round
  BY <1>1 DEF ReviewGate, IInv, TypeOK
<1>3. ASSUME NEW k \in Made
      PROVE  variants'[k].status = "rejected" <=> verdict[TaskOf(k)] = "rejected"
  <2>1. variants[k] \in Variant /\ verdict[TaskOf(k)] \in Decisions \union {"none"}
    BY <1>3, MadeVariant, KeyTypes DEF IInv, TypeOK
  <2>2. variants'[k] = Reviewed(variants[k], verdict[TaskOf(k)])
    BY MadeVariant DEF ReviewGate, IInv
  <2>3. variants[k].status = "rejected" => verdict[TaskOf(k)] # "none"
    BY MadeVariant, KeyTypes DEF ReviewGate, IInv, RejectedIsRequested, VerdictsAnswer
  <2> QED BY <2>1, <2>2, <2>3 DEF Reviewed, Variant, Decisions
<1>4. node' = IF rejected /\ round' <= MaxReviewRounds THEN "content_generator" ELSE "publishing_agent"
  BY <1>1, <1>3 DEF ReviewGate, MayRegenerate
<1>5. Requested' = Requested
  BY RequestedKept DEF ReviewGate, panel
<1> QED BY <1>2, <1>4, <1>5 DEF Contract!Route, ReviewGate, Working

LEMMA StepMaps == ASSUME ConstantsAssumption, IInv, [Next]_vars PROVE [Contract!Next]_(Contract!vars)
<1>1. ASSUME NEW valid \in BOOLEAN, Intake(valid) PROVE UNCHANGED Contract!vars
  BY <1>1, WorkStutters DEF Intake, panel, review, Working
<1>2. ASSUME NEW F \in SUBSET Tasks, NEW retry \in [Tasks -> Drafts],
             ContentGenerator(F, retry)
      PROVE UNCHANGED Contract!vars
  BY <1>2, WorkStutters DEF ContentGenerator, panel, review, Working
<1>3. ASSUME ContentGeneratorRaises PROVE UNCHANGED Contract!vars
  BY <1>3, WorkStutters DEF ContentGeneratorRaises, panel, review, Working
<1>4. ASSUME NEW D \in Handled(Unpersonalized), Personalize(D) PROVE UNCHANGED Contract!vars
  BY <1>4, WorkStutters DEF Personalize, panel, review, Working
<1>5. ASSUME NEW P \in Passing, NEW X \in Raising(P), Translate(P, X)
      PROVE  UNCHANGED Contract!vars
  BY <1>5, WorkStutters DEF Translate, panel, review, Working
<1>6. ASSUME JudgeGate PROVE UNCHANGED Contract!vars
  BY <1>6, WorkStutters DEF JudgeGate, panel, review, Working
<1>7. ASSUME NEW S \in SUBSET Unscored, NEW R \in SUBSET Judges, Judge(S, R)
      PROVE  UNCHANGED Contract!vars
  BY <1>7, WorkStutters DEF Judge, review, Working
<1>8. ASSUME NEW route \in [{Content(k) : k \in Ready} -> Routes(2)], AggregateWith(route)
      PROVE  \E S \in SUBSET Tasks : Contract!Flag(S)
  <2>1. Requested \subseteq Requested'
    BY <1>8 DEF AggregateWith, Requested
  <2>2. aggs' \subseteq Aggregate
    BY <1>8, StepTypes DEF Next, IInv, TypeOK
  <2>3. Requested' \subseteq Tasks
    BY <2>2, KeyTypes DEF Requested, Aggregate
  <2>4. Contract!Flag(Requested')
    BY <1>8, <2>1 DEF AggregateWith, review, Contract!Flag, Working
  <2> QED BY <2>3, <2>4
<1>9. ASSUME NEW D \in Handled(Failing), NEW E \in SUBSET D, Reflexion(D, E)
      PROVE  UNCHANGED Contract!vars \/ Contract!Stop("failed")
  <2>1. node = "reflexion" /\ node' \in {"interrupt", "judges", "failed"}
          /\ UNCHANGED <<round, verdict, aggs, delivered>>
    BY <1>9 DEF Reflexion, review
  <2>2. CASE node' = "failed"
    BY <2>1, <2>2, RequestedKept DEF Contract!Stop, Working
  <2>3. CASE node' # "failed"
    BY <2>1, <2>3, WorkStutters DEF Working
  <2> QED BY <2>2, <2>3
<1>10. ASSUME Pause PROVE \E p \in {"gate", "failed"} : Contract!Stop(p)
  <2>1. node = "interrupt" /\ node' \in {"gate", "failed"}
          /\ UNCHANGED <<round, verdict, aggs, delivered>>
    BY <1>10 DEF Pause, panel
  <2>2. Contract!Stop(node')
    BY <2>1, RequestedKept DEF Contract!Stop, Working
  <2> QED BY <2>1, <2>2
<1>11. ASSUME NEW f \in [Tasks -> Decisions \union {"none"}], Resume(f) PROVE Contract!Resume(f)
  BY <1>11, RequestedKept DEF Resume, Contract!Resume, Working
<1>12. ASSUME ReviewGate PROVE Contract!Route
  BY <1>12, RouteMaps
<1>13. ASSUME NEW D \in SUBSET Publishable, Publish(D)
       PROVE  \E E \in SUBSET Tasks : Contract!Deliver(E)
  <2> DEFINE mailed == {TaskOf(d[1]) : d \in delivered'}
  <2>1. \A t \in mailed : \E k \in D : t = TaskOf(k)
    BY <1>13 DEF Publish
  <2>2. \A k \in D : k \in Made /\ TaskOf(k) \in Tasks /\ variants[k].status \in Eligible
    BY KeyTypes DEF Publishable, Made
  <2>3. \A t \in mailed : t \in Tasks /\ verdict[t] \in {"approved", "none"}
    BY <1>13, <2>1, <2>2 DEF Publish, IInv, TypeOK, VerdictsApplied, Eligible, Decisions
  <2>4. Requested' = Requested
    BY <1>13, RequestedKept DEF Publish, panel
  <2>5. Contract!Deliver(mailed)
    BY <1>13, <2>3, <2>4 DEF Publish, Contract!Deliver, Working
  <2> QED BY <2>3, <2>5
<1>14. ASSUME UNCHANGED vars PROVE UNCHANGED Contract!vars
  BY <1>14, RequestedKept DEF vars, Contract!vars
<1> QED
  BY <1>1, <1>2, <1>3, <1>4, <1>5, <1>6, <1>7, <1>8, <1>9, <1>10, <1>11, <1>12, <1>13, <1>14
  DEF Next, Contract!Next, Contract!Decisions, Decisions

\* Whatever nodes fail and however often it is resumed, a run keeps the contract of
\* graph.py with its callers: only an undecided gate is resumed, rejections cost
\* rounds up to the cap, and nothing last rejected or edited is delivered.
THEOREM Implements == ASSUME ConstantsAssumption PROVE Spec => ImplementsGraphRun
<1>1. Init => Contract!Init
  BY InitMaps
<1>2. IInv /\ [Next]_vars => [Contract!Next]_(Contract!vars)
  BY StepMaps
<1> QED BY <1>1, <1>2, Invariance, PTL DEF Spec, ImplementsGraphRun, Contract!Spec

-----------------------------------------------------------------------------
\* From translation_agent to the mails.
Panel == {"judge_gate", "judges", "confidence_aggregator", "reflexion", "interrupt"}
Unsaved == Panel \union {"gate"}
Late == Unsaved \union {"review_gate", "publishing_agent"}

\* A run that comes to the gate has no error, and what is resumed keeps it so.
GateIsClean == node \in {"gate", "review_gate", "publishing_agent"} => ~errors

\* Unless something went wrong only a failed generation has no text, and it does
\* not get past translation_agent, in memory or in the checkpoint.
BlankIsFailed ==
  /\ node = "intake_agent" => Made = {}
  /\ ~errors => \A k \in Made :
       /\ node \in Late => saved[k].text # "none"
       /\ node \in Late => variants[k].text # "none" \/ (node \in Unsaved /\ variants[k].reflexed)
       /\ node \in {"content_generator", "personalization_agent", "translation_agent"} =>
            /\ variants[k].text = "none" => variants[k].status = "failed"
            /\ saved[k].text = "none" => variants[k].text = "none"

\* translation_agent skips nothing of the last generation, and what it leaves is
\* translated or, later, rewritten.
LastIsTranslated ==
  ~errors => \A t \in Tasks :
    /\ node \in {"personalization_agent", "translation_agent"} =>
         variants[<<generation, t>>].status \in {"generated", "failed", "personalized"}
    /\ node \in Panel => \/ Body(variants[<<generation, t>>]) \in {"translated", "rewritten"}
                        \/ <<generation, t>> \in Emptied

\* So is what is shown, but for the texts reflexion emptied.
ShownOrEmptied ==
  node = "gate" => \A t \in Requested :
    shown[t] \in {"translated", "rewritten"} \/ <<generation, t>> \in Emptied

TextInv == GateIsClean /\ BlankIsFailed /\ LastIsTranslated /\ ShownOrEmptied /\ NoEmptyMail

-----------------------------------------------------------------------------
\* What the nodes do to the fields of a variant that is made.
LEMMA GenerateDoes ==
  ASSUME ConstantsAssumption, IInv, NEW F \in SUBSET Tasks, NEW retry \in [Tasks -> Drafts],
         ContentGenerator(F, retry)
  PROVE  /\ generation' \in Generations
         /\ \A k \in Keys : k[1] = generation' /\ TaskOf(k) \in plan
              => /\ variants'[k] # NoVariant
                 /\ variants'[k].status \in {"generated", "failed"}
                 /\ variants'[k].text = "none" => variants'[k].status = "failed"
                 /\ ~variants'[k].reflexed
         /\ \A k \in Keys : k[1] # generation' \/ TaskOf(k) \notin plan => variants'[k] = variants[k]
         /\ saved' = variants'
<1>1. generation' \in Generations
  BY DEF ContentGenerator, IInv, TypeOK, Generations, ConstantsAssumption
<1> QED BY <1>1, NoVariantIsNone DEF ContentGenerator, Generated, Ungenerated

LEMMA PersonalizeDoes ==
  ASSUME TypeOK, NEW D \in Handled(Unpersonalized), Personalize(D)
  PROVE  /\ Made' = Made
         /\ \A k \in Made :
              \/ variants'[k] = variants[k]
              \/ /\ variants[k].text # "none"
                 /\ variants'[k].text = "personalized" /\ variants'[k].status = "personalized"
                 /\ variants'[k].retry = variants[k].retry
                 /\ variants'[k].reflexed = variants[k].reflexed
<1>1. \A k \in D : k \in Made /\ variants[k] \in Variant /\ variants[k].text # "none"
  BY MadeVariant DEF Handled, Unpersonalized
<1>2. \A v \in Variant :
        LET w == [v EXCEPT !.status = "personalized", !.text = "personalized"]
        IN  /\ w.status = "personalized" /\ w.text = "personalized"
            /\ w.retry = v.retry /\ w.reflexed = v.reflexed
  BY DEF Variant
<1>3. \A k \in Keys : k \in D => variants'[k] =
                 [variants[k] EXCEPT !.status = "personalized", !.text = "personalized"]
  BY DEF Personalize
<1>4. \A k \in Keys : k \notin D => variants'[k] = variants[k]
  BY DEF Personalize
<1>5. \A k \in D : variants'[k] # NoVariant
  BY <1>1, <1>2, <1>3, NoVariantIsNone DEF Made
<1>6. Made' = Made
  BY <1>1, <1>4, <1>5 DEF Made
<1>7. ASSUME NEW k \in Made, k \in D
      PROVE  /\ variants[k].text # "none"
             /\ variants'[k].text = "personalized" /\ variants'[k].status = "personalized"
             /\ variants'[k].retry = variants[k].retry
             /\ variants'[k].reflexed = variants[k].reflexed
  <2>1. k \in Keys /\ variants[k] \in Variant /\ variants[k].text # "none"
    BY <1>1, <1>7 DEF Made
  <2>2. variants'[k] = [variants[k] EXCEPT !.status = "personalized", !.text = "personalized"]
    BY <1>3, <1>7, <2>1
  <2> QED BY <1>2, <2>1, <2>2
<1>8. ASSUME NEW k \in Made, k \notin D PROVE variants'[k] = variants[k]
  BY <1>4, <1>8 DEF Made
<1> QED BY <1>6, <1>7, <1>8

LEMMA TranslateDoes ==
  ASSUME TypeOK, NEW P \in Passing, NEW X \in Raising(P), Translate(P, X)
  PROVE  /\ Made' = Made
         /\ \A k \in Made : /\ variants'[k].reflexed = variants[k].reflexed
                             /\ variants'[k].retry = variants[k].retry
         /\ ~errors' =>
              /\ ~errors /\ Blank = {}
              /\ \A k \in ToTranslate : variants'[k].text = "translated"
                                       /\ variants'[k].final = "translated"
              /\ \A k \in Made \ ToTranslate : variants'[k] = variants[k]
<1>1. \A k \in Made : variants[k] \in Variant
  BY MadeVariant
<1>2. \A v \in Variant : \A w \in
        {Translated(v), [v EXCEPT !.status = "translation_blocked_no_source"],
         [v EXCEPT !.status = "translation_failed"],
         [v EXCEPT !.status = "translation_failed", !.text = "translated"]} :
           w.status # "none" /\ w.reflexed = v.reflexed /\ w.retry = v.retry
  BY DEF Variant, Translated
<1>3. Same \union P \subseteq ToTranslate /\ Blank \subseteq ToTranslate
        /\ X \subseteq ToTranslate /\ Tried \subseteq ToTranslate /\ ToTranslate \subseteq Made
  BY DEF Passing, Raising, Tried, Same, Blank, ToTranslate
<1>4. ToTranslate = Same \union Blank \union Tried /\ Made \subseteq Keys
  BY DEF Tried, Same, Blank, Made
<1>5. \A k \in Keys : k \notin ToTranslate => variants'[k] = variants[k]
  BY <1>3 DEF Translate
<1>6. ASSUME NEW k \in ToTranslate
      PROVE  variants'[k].status # "none" /\ variants'[k].reflexed = variants[k].reflexed
               /\ variants'[k].retry = variants[k].retry
  <2>1. variants'[k] \in
      {Translated(variants[k]), [variants[k] EXCEPT !.status = "translation_blocked_no_source"],
       [variants[k] EXCEPT !.status = "translation_failed"],
       [variants[k] EXCEPT !.status = "translation_failed", !.text = "translated"]}
    <3>1. CASE k \in Same \union P
      BY <3>1, <1>3, <1>4 DEF Translate
    <3>2. CASE k \notin Same \union P
      BY <3>2, <1>3, <1>4, <1>6 DEF Translate
    <3> QED BY <3>1, <3>2
  <2> QED BY <2>1, <1>1, <1>2, <1>3
<1>7. Made' = Made
  <2>1. \A k \in ToTranslate : variants'[k] # NoVariant
    BY <1>6, NoVariantIsNone
  <2> QED BY <2>1, <1>3, <1>5 DEF Made
<1>8. ASSUME ~errors'
      PROVE  /\ ~errors /\ Blank = {}
             /\ \A k \in ToTranslate : variants'[k].text = "translated"
                                      /\ variants'[k].final = "translated"
  <2>1. ~errors /\ ToTranslate \subseteq Same \union P
    <3>1. ~errors /\ Untranslated(P) = {}
      BY <1>8 DEF Translate
    <3> QED BY <3>1 DEF Untranslated
  <2>2. Blank = {}
    BY <2>1, <1>3 DEF Same, Blank, Passing, Tried
  <2>3. \A k \in ToTranslate : variants'[k] = Translated(variants[k])
    <3>1. ASSUME NEW k \in Keys, k \in Same \union P PROVE variants'[k] = Translated(variants[k])
      <4>1. k \notin Blank /\ k \notin X /\ k \notin Tried \ (P \union X)
        BY <3>1 DEF Same, Blank, Tried, Passing, Raising
      <4> QED BY <3>1, <4>1 DEF Translate
    <3> QED BY <3>1, <2>1, <1>3, <1>4
  <2>4. \A v \in Variant : Translated(v).text = "translated" /\ Translated(v).final = "translated"
    BY DEF Variant, Translated
  <2> QED BY <2>1, <2>2, <2>3, <2>4, <1>1, <1>3
<1> QED BY <1>3, <1>4, <1>5, <1>6, <1>7, <1>8

LEMMA ReflexionDoes ==
  ASSUME TypeOK, NEW D \in Handled(Failing), NEW E \in SUBSET D, Reflexion(D, E)
  PROVE  /\ Made' = Made /\ D \subseteq Made
         /\ \A k \in D : /\ variants'[k].text \in {"rewritten", "none"} /\ variants'[k].final = "none"
                          /\ variants'[k].status = "generated" /\ variants'[k].retry = 1
                          /\ variants'[k].reflexed
         /\ \A k \in Made \ D : variants'[k] = variants[k]
         /\ ~errors' => ~errors /\ D = Failing
<1>1. \A k \in D : k \in Made /\ variants[k] \in Variant
  BY MadeVariant DEF Handled, Failing
<1>2. \A v \in Variant, a \in {"rewritten", "none"} : LET w == Rewritten(v, a) IN
        w.text = a /\ w.final = "none" /\ w.status = "generated" /\ w.retry = 1 /\ w.reflexed
  BY DEF Variant, Rewritten
<1>3. \A k \in Keys : variants'[k] =
        IF k \in D THEN Rewritten(variants[k], IF k \in E THEN "none" ELSE "rewritten")
        ELSE variants[k]
  BY DEF Reflexion
<1>4. Made' = Made
  BY <1>1, <1>2, <1>3, NoVariantIsNone DEF Made
<1>5. ~errors' => ~errors /\ D = Failing
  BY DEF Reflexion
<1> QED BY <1>1, <1>2, <1>3, <1>4, <1>5 DEF Made

LEMMA ReviewDoes ==
  ASSUME IInv, ReviewGate
  PROVE  /\ Made' = Made
         /\ \A k \in Made : /\ variants'[k].text = variants[k].text
                             /\ variants'[k].reflexed = variants[k].reflexed
<1>1. ASSUME NEW v \in Variant, NEW d \in Decisions \union {"none"}
      PROVE  /\ Reviewed(v, d).status = IF d = "none" THEN v.status ELSE d
             /\ Reviewed(v, d).text = v.text /\ Reviewed(v, d).reflexed = v.reflexed
  BY DEF Reviewed, Variant, Decisions
<1>2. \A k \in Made : variants[k] \in Variant /\ verdict[TaskOf(k)] \in Decisions \union {"none"}
  BY MadeVariant, KeyTypes DEF IInv, TypeOK, Made
<1>3. \A k \in Keys : variants'[k] =
        IF k \in Made THEN Reviewed(variants[k], verdict[TaskOf(k)]) ELSE NoVariant
  BY DEF ReviewGate
<1>4. \A v \in Variant : v.status # "none"
  BY DEF Variant, Statuses, Dead, Decisions
<1>5. \A k \in Made : variants'[k].status # "none"
  BY <1>1, <1>2, <1>3, <1>4 DEF Made, Decisions
<1>6. Made' = Made
  BY <1>3, <1>5, NoVariantIsNone DEF Made
<1> QED BY <1>1, <1>2, <1>3, <1>6 DEF Made

-----------------------------------------------------------------------------
LEMMA InitText == ASSUME ConstantsAssumption, Init PROVE TextInv
BY DEF Init, TextInv, GateIsClean, BlankIsFailed, LastIsTranslated, ShownOrEmptied, NoEmptyMail,
   Made, Late, Unsaved, Panel

\* Nodes between translation_agent and the gate that leave the variants alone.
LEMMA IdleText ==
  ASSUME TextInv, node \in Panel, node' \in Panel \union {"failed"}, errors => errors',
         UNCHANGED <<variants, saved, generation, shown, delivered>>
  PROVE  TextInv'
<1> USE DEF Panel, Unsaved, Late
<1>1. Made' = Made /\ Emptied' = Emptied
  BY DEF Made, Emptied, Body
<1>2. GateIsClean' /\ ShownOrEmptied' /\ NoEmptyMail'
  BY DEF TextInv, GateIsClean, ShownOrEmptied, NoEmptyMail
<1>3. BlankIsFailed'
  BY <1>1 DEF TextInv, BlankIsFailed
<1>4. LastIsTranslated'
  BY <1>1 DEF TextInv, LastIsTranslated, Body
<1> QED BY <1>2, <1>3, <1>4 DEF TextInv

LEMMA StepText == ASSUME ConstantsAssumption, IInv, TextInv, [Next]_vars PROVE TextInv'
<1> USE DEF Panel, Unsaved, Late
<1>a. IInv'
  BY StepIInv
<1>1. ASSUME NEW valid \in BOOLEAN, Intake(valid) PROVE TextInv'
  <2>1. Made' = Made
    BY <1>1 DEF Intake, Made
  <2>2. GateIsClean' /\ ShownOrEmptied' /\ NoEmptyMail' /\ LastIsTranslated'
    BY <1>1 DEF Intake, review, TextInv, GateIsClean, ShownOrEmptied, NoEmptyMail, LastIsTranslated
  <2>3. BlankIsFailed'
    BY <1>1, <2>1 DEF Intake, TextInv, BlankIsFailed
  <2> QED BY <2>2, <2>3 DEF TextInv
<1>2. ASSUME NEW F \in SUBSET Tasks, NEW retry \in [Tasks -> Drafts], ContentGenerator(F, retry)
      PROVE TextInv'
  <2>1. node = "content_generator" /\ node' = "personalization_agent" /\ errors' = errors
          /\ UNCHANGED <<shown, delivered, plan>>
    BY <1>2 DEF ContentGenerator, review
  <2>2. GateIsClean' /\ ShownOrEmptied' /\ NoEmptyMail'
    BY <2>1 DEF TextInv, GateIsClean, ShownOrEmptied, NoEmptyMail
  <2>3. ASSUME ~errors, NEW k \in Made'
        PROVE  variants'[k].text = "none" => variants'[k].status = "failed"
    <3>1. k \in Keys
      BY <2>3 DEF Made
    <3>2. CASE k[1] = generation' /\ TaskOf(k) \in plan
      BY <1>2, <3>1, <3>2, GenerateDoes
    <3>3. CASE k[1] # generation' \/ TaskOf(k) \notin plan
      <4>1. variants'[k] = variants[k]
        BY <1>2, <3>1, <3>3, GenerateDoes
      <4>2. k \in Made
        BY <4>1, <2>3 DEF Made
      <4> QED BY <4>1, <4>2, <2>1, <2>3 DEF TextInv, BlankIsFailed
    <3> QED BY <3>2, <3>3
  <2>4. BlankIsFailed'
    BY <1>2, <2>1, <2>3, GenerateDoes DEF BlankIsFailed
  <2>5. LastIsTranslated'
    <3>1. ASSUME ~errors, NEW t \in Tasks
          PROVE  variants'[<<generation', t>>].status \in {"generated", "failed"}
      <4>1. generation' \in Generations
        BY <1>2, GenerateDoes
      <4>2. t \in plan
        BY <3>1, <2>1 DEF IInv, PlannedIsMade
      <4>3. <<generation', t>> \in Keys /\ <<generation', t>>[1] = generation'
              /\ TaskOf(<<generation', t>>) = t
        BY <4>1 DEF Keys, TaskOf
      <4> QED BY <1>2, <4>2, <4>3, GenerateDoes
    <3> QED BY <2>1, <3>1 DEF LastIsTranslated
  <2> QED BY <2>2, <2>4, <2>5 DEF TextInv
<1>3. ASSUME ContentGeneratorRaises PROVE TextInv'
  <2>1. node' = "personalization_agent" /\ errors' /\ UNCHANGED <<shown, delivered>>
    BY <1>3 DEF ContentGeneratorRaises, review
  <2> QED
    BY <2>1 DEF TextInv, GateIsClean, ShownOrEmptied, NoEmptyMail, BlankIsFailed, LastIsTranslated
<1>4. ASSUME NEW D \in Handled(Unpersonalized), Personalize(D) PROVE TextInv'
  <2>1. /\ node = "personalization_agent" /\ node' = "translation_agent" /\ (errors => errors')
        /\ UNCHANGED <<shown, delivered, saved, generation, plan>>
    BY <1>4 DEF Personalize, review
  <2>2. GateIsClean' /\ ShownOrEmptied' /\ NoEmptyMail'
    BY <2>1 DEF TextInv, GateIsClean, ShownOrEmptied, NoEmptyMail
  <2>3. Made' = Made /\ \A k \in Made :
          \/ variants'[k] = variants[k]
          \/ variants[k].text # "none" /\ variants'[k].text = "personalized"
               /\ variants'[k].status = "personalized"
    BY <1>4, PersonalizeDoes DEF IInv
  <2>4. BlankIsFailed'
    <3>1. ASSUME ~errors, NEW k \in Made
          PROVE  /\ variants'[k].text = "none" => variants'[k].status = "failed"
                 /\ saved[k].text = "none" => variants'[k].text = "none"
      <4>1. /\ variants[k].text = "none" => variants[k].status = "failed"
            /\ saved[k].text = "none" => variants[k].text = "none"
        BY <2>1, <3>1 DEF TextInv, BlankIsFailed
      <4>2. CASE variants'[k] = variants[k]
        BY <4>1, <4>2
      <4>3. CASE variants[k].text # "none" /\ variants'[k].text = "personalized"
                   /\ variants'[k].status = "personalized"
        BY <4>1, <4>3
      <4> QED BY <2>3, <4>2, <4>3
    <3> QED BY <2>1, <2>3, <3>1 DEF BlankIsFailed
  <2>5. LastIsTranslated'
    <3>1. ASSUME ~errors, NEW t \in Tasks
          PROVE  variants'[<<generation, t>>].status \in {"generated", "failed", "personalized"}
      <4>1. <<generation, t>> \in Made
        BY <3>1, <2>1 DEF IInv, PlannedIsMade, Made, Keys
      <4>2. variants[<<generation, t>>].status \in {"generated", "failed", "personalized"}
        BY <3>1, <2>1 DEF TextInv, LastIsTranslated
      <4> QED BY <4>1, <4>2, <2>3
    <3> QED BY <2>1, <3>1 DEF LastIsTranslated
  <2> QED BY <2>2, <2>4, <2>5 DEF TextInv
<1>5. ASSUME NEW P \in Passing, NEW X \in Raising(P), Translate(P, X) PROVE TextInv'
  <2>1. /\ node = "translation_agent" /\ node' = "judge_gate" /\ (errors => errors')
        /\ UNCHANGED <<shown, delivered, saved, generation, plan>>
    BY <1>5 DEF Translate, review
  <2>2. GateIsClean' /\ ShownOrEmptied' /\ NoEmptyMail'
    BY <2>1 DEF TextInv, GateIsClean, ShownOrEmptied, NoEmptyMail
  <2>3. /\ Made' = Made
        /\ ~errors' =>
              /\ ~errors /\ Blank = {}
              /\ \A k \in ToTranslate : variants'[k].text = "translated"
                                       /\ variants'[k].final = "translated"
              /\ \A k \in Made \ ToTranslate : variants'[k] = variants[k]
    BY <1>5, TranslateDoes DEF IInv
  <2>4. BlankIsFailed'
    <3>1. ASSUME ~errors', NEW k \in Made
          PROVE  variants'[k].text # "none" /\ saved[k].text # "none"
      <4>1. variants[k].text # "none"
        <5>1. variants[k].text = "none" => variants[k].status = "failed"
          BY <2>1, <2>3, <3>1 DEF TextInv, BlankIsFailed
        <5>2. variants[k].text = "none" => k \in Blank
          BY <5>1 DEF Blank, ToTranslate, Terminal, Dead
        <5> QED BY <5>2, <2>3, <3>1
      <4>2. saved[k].text # "none"
        BY <4>1, <2>1, <2>3, <3>1 DEF TextInv, BlankIsFailed
      <4>3. variants'[k].text # "none"
        BY <4>1, <2>3, <3>1
      <4> QED BY <4>2, <4>3
    <3> QED BY <2>1, <2>3, <3>1 DEF BlankIsFailed
  <2>5. LastIsTranslated'
    <3>1. ASSUME ~errors', NEW t \in Tasks
          PROVE  Body(variants'[<<generation, t>>]) = "translated"
      <4>1. <<generation, t>> \in Made
        BY <3>1, <2>1, <2>3 DEF IInv, PlannedIsMade, Made, Keys
      <4>2. variants[<<generation, t>>].status \in {"generated", "failed", "personalized"}
        BY <3>1, <2>1, <2>3 DEF TextInv, LastIsTranslated
      <4>3. <<generation, t>> \in ToTranslate
        BY <4>1, <4>2 DEF ToTranslate, Terminal, Dead
      <4> QED BY <4>3, <2>3, <3>1 DEF Body
    <3> QED BY <2>1, <3>1 DEF LastIsTranslated, Body
  <2> QED BY <2>2, <2>4, <2>5 DEF TextInv
<1>6. ASSUME JudgeGate PROVE TextInv'
  BY <1>6, IdleText DEF JudgeGate, review
<1>7. ASSUME NEW S \in SUBSET Unscored, NEW R \in SUBSET Judges, Judge(S, R) PROVE TextInv'
  BY <1>7, IdleText DEF Judge, review
<1>8. ASSUME NEW route \in [{Content(k) : k \in Ready} -> Routes(2)], AggregateWith(route)
      PROVE TextInv'
  <2>1. errors' = errors /\ node = "confidence_aggregator" /\ node' = "reflexion"
          /\ UNCHANGED <<variants, saved, generation, shown, delivered>>
    BY <1>8 DEF AggregateWith, review
  <2> QED BY <2>1, IdleText
<1>9. ASSUME NEW D \in Handled(Failing), NEW E \in SUBSET D, Reflexion(D, E) PROVE TextInv'
  <2>1. /\ node = "reflexion" /\ node' \in {"interrupt", "judges", "failed"}
        /\ UNCHANGED <<shown, delivered, saved, generation, plan>>
    BY <1>9 DEF Reflexion, review
  <2>2. GateIsClean' /\ ShownOrEmptied' /\ NoEmptyMail'
    BY <2>1 DEF TextInv, GateIsClean, ShownOrEmptied, NoEmptyMail
  <2>3. /\ Made' = Made /\ D \subseteq Made /\ (~errors' => ~errors)
        /\ \A k \in D : /\ variants'[k].text \in {"rewritten", "none"}
                         /\ variants'[k].final = "none" /\ variants'[k].reflexed
        /\ \A k \in Made \ D : variants'[k] = variants[k]
    BY <1>9, ReflexionDoes DEF IInv
  <2>4. BlankIsFailed'
    <3>1. ASSUME ~errors', NEW k \in Made
          PROVE  saved[k].text # "none" /\ (variants'[k].text # "none" \/ variants'[k].reflexed)
      <4>1. saved[k].text # "none" /\ (variants[k].text # "none" \/ variants[k].reflexed)
        BY <2>1, <2>3, <3>1 DEF TextInv, BlankIsFailed
      <4> QED BY <4>1, <2>3
    <3> QED BY <2>1, <2>3, <3>1 DEF BlankIsFailed
  <2>5. LastIsTranslated'
    <3>1. ASSUME ~errors', NEW t \in Tasks
          PROVE  \/ Body(variants'[<<generation, t>>]) \in {"translated", "rewritten"}
                 \/ <<generation, t>> \in Emptied'
      <4>1. <<generation, t>> \in Made
        BY <3>1, <2>1, <2>3 DEF IInv, PlannedIsMade, Made, Keys
      <4>2. \/ Body(variants[<<generation, t>>]) \in {"translated", "rewritten"}
            \/ <<generation, t>> \in Emptied
        BY <3>1, <2>1, <2>3 DEF TextInv, LastIsTranslated
      <4>3. CASE <<generation, t>> \in D
        BY <4>1, <4>3, <2>3 DEF Body, Emptied
      <4>4. CASE <<generation, t>> \notin D
        BY <4>1, <4>2, <4>4, <2>3 DEF Body, Emptied
      <4> QED BY <4>3, <4>4
    <3> QED BY <2>1, <3>1 DEF LastIsTranslated, Body
  <2> QED BY <2>2, <2>4, <2>5 DEF TextInv
<1>10. ASSUME Pause PROVE TextInv'
  <2>1. node = "interrupt" /\ errors' = errors
          /\ UNCHANGED <<variants, saved, generation, delivered, aggs>>
    BY <1>10 DEF Pause, panel
  <2>2. CASE errors
    <3>1. node' = "failed" /\ shown' = shown
      BY <1>10, <2>2 DEF Pause
    <3> QED BY <2>1, <2>2, <3>1, IdleText
  <2>3. CASE ~errors
    <3>1. node' = "gate" /\ shown' = [t \in Tasks |-> Body(variants[<<generation, t>>])]
      BY <1>10, <2>3 DEF Pause
    <3>2. GateIsClean' /\ NoEmptyMail' /\ LastIsTranslated'
      BY <2>1, <2>3, <3>1 DEF TextInv, GateIsClean, NoEmptyMail, LastIsTranslated
    <3>3. ShownOrEmptied'
      <4>1. \A t \in Tasks : shown'[t] \in {"translated", "rewritten"}
                              \/ <<generation, t>> \in Emptied
        BY <2>1, <2>3, <3>1 DEF TextInv, LastIsTranslated
      <4>3. Emptied' = Emptied
        BY <2>1 DEF Emptied, Made, Body
      <4>2. Requested' \subseteq Tasks
        BY <1>a, KeyTypes DEF IInv, TypeOK, Requested, Aggregate
      <4> QED BY <2>1, <4>1, <4>2, <4>3 DEF ShownOrEmptied
    <3>4. BlankIsFailed'
      BY <2>1, <3>1 DEF TextInv, BlankIsFailed, Made
    <3> QED BY <3>2, <3>3, <3>4 DEF TextInv
  <2> QED BY <2>2, <2>3
<1>11. ASSUME NEW f \in [Tasks -> Decisions \union {"none"}], Resume(f) PROVE TextInv'
  <2>1. /\ node = "gate" /\ node' = "review_gate"
        /\ UNCHANGED <<errors, shown, delivered, saved, generation>> /\ variants' = saved
    BY <1>11 DEF Resume
  <2>2. GateIsClean' /\ ShownOrEmptied' /\ NoEmptyMail' /\ LastIsTranslated'
    BY <2>1 DEF TextInv, GateIsClean, ShownOrEmptied, NoEmptyMail, LastIsTranslated
  <2>3. Made' = Made
    BY <2>1 DEF IInv, SavedIsMade, Made
  <2>4. BlankIsFailed'
    BY <2>1, <2>3 DEF TextInv, BlankIsFailed
  <2> QED BY <2>2, <2>4 DEF TextInv
<1>12. ASSUME ReviewGate PROVE TextInv'
  <2>1. /\ node = "review_gate" /\ node' \in {"content_generator", "publishing_agent"}
        /\ UNCHANGED <<errors, shown, delivered, saved, generation>>
    BY <1>12 DEF ReviewGate
  <2>2. GateIsClean' /\ ShownOrEmptied' /\ NoEmptyMail' /\ LastIsTranslated'
    BY <2>1 DEF TextInv, GateIsClean, ShownOrEmptied, NoEmptyMail, LastIsTranslated
  <2>3. Made' = Made /\ \A k \in Made : variants'[k].text = variants[k].text
    BY <1>12, ReviewDoes
  <2>4. BlankIsFailed'
    <3>1. ASSUME ~errors, NEW k \in Made
          PROVE  variants'[k].text # "none" /\ saved[k].text # "none"
      BY <2>1, <2>3, <3>1 DEF TextInv, BlankIsFailed
    <3> QED BY <2>1, <2>3, <3>1 DEF BlankIsFailed
  <2> QED BY <2>2, <2>4 DEF TextInv
<1>13. ASSUME NEW D \in SUBSET Publishable, Publish(D) PROVE TextInv'
  <2>1. /\ node = "publishing_agent" /\ node' = "end"
        /\ delivered' = {<<k, Body(variants[k])>> : k \in D}
    BY <1>13 DEF Publish
  <2>2. GateIsClean' /\ ShownOrEmptied' /\ LastIsTranslated' /\ BlankIsFailed'
    BY <2>1 DEF GateIsClean, ShownOrEmptied, LastIsTranslated, BlankIsFailed
  <2>3. \A k \in D : Body(variants[k]) # "none"
    <3>1. \A k \in Made : variants[k].text # "none"
      BY <2>1 DEF TextInv, GateIsClean, BlankIsFailed
    <3> QED BY <3>1 DEF Body, Publishable
  <2>4. NoEmptyMail'
    BY <2>1, <2>3 DEF NoEmptyMail
  <2> QED BY <2>2, <2>4 DEF TextInv
<1>14. CASE UNCHANGED vars
  <2>1. Made' = Made /\ Requested' = Requested /\ Emptied' = Emptied
    BY <1>14 DEF vars, Made, Requested, Emptied, Body
  <2> QED
    BY <1>14, <2>1 DEF vars, TextInv, GateIsClean, ShownOrEmptied, NoEmptyMail, BlankIsFailed,
       LastIsTranslated, Body
<1> QED
  BY <1>1, <1>2, <1>3, <1>4, <1>5, <1>6, <1>7, <1>8, <1>9, <1>10, <1>11, <1>12, <1>13, <1>14
  DEF Next

LEMMA TextInvariance == ASSUME ConstantsAssumption PROVE Spec => []TextInv
<1>1. Init => TextInv
  BY InitText
<1>2. IInv /\ TextInv /\ [Next]_vars => TextInv'
  BY StepText
<1> QED BY <1>1, <1>2, Invariance, PTL DEF Spec

\* A variant whose generation failed is not mailed, in whatever generation it was
\* made and whatever decision its task gets.
THEOREM MailsHaveAText == ASSUME ConstantsAssumption PROVE Spec => []NoEmptyMail
<1>1. TextInv => NoEmptyMail
  BY DEF TextInv
<1> QED BY <1>1, TextInvariance, PTL

-----------------------------------------------------------------------------
Loop == {"judges", "confidence_aggregator", "reflexion"}

\* Only reflexion rewrites, on the way to the gate, and no checkpoint has it.
ReflexedInLoop ==
  \A k \in Made :
    /\ ~saved[k].reflexed
    /\ variants[k].reflexed =>
         /\ node \in Loop \union {"interrupt", "gate", "failed"}
         /\ variants[k].retry = 1 /\ variants[k].status = "generated"
         /\ variants[k].text \in {"rewritten", "none"} /\ variants[k].final = "none"

LoopsInLoop ==
  node \in {"intake_agent", "content_generator", "personalization_agent", "translation_agent",
            "judge_gate", "review_gate"} => loops = 0

PanelAnswered ==
  node \in {"confidence_aggregator", "reflexion"} /\ ~silent =>
    \A c \in Scoreable : Voters(c) # {}

\* confidence_aggregator leaves out what has no scores, the router what is rewritten.
AllRouted ==
  /\ node = "reflexion" => \A k \in Made : Aggregated(Content(k)) \/ Voters(Content(k)) = {}
  /\ node \in {"interrupt", "gate"} => \A k \in Made :
       Aggregated(Content(k)) \/ (Voters(Content(k)) = {} /\ ~variants[k].reflexed)

\* After the first loop nothing of round 0 is left to rewrite or to aggregate.
SettledOnce ==
  node \in Loop /\ loops # 0 /\ ~errors /\ ~silent =>
    \A k \in Made :
      /\ ~Triggered(k)
      /\ variants[k].retry = 0 =>
           \/ Aggregated(Content(k))
           \/ Content(k) \notin Scoreable /\ Voters(Content(k)) = {}

LoopInv == ReflexedInLoop /\ LoopsInLoop /\ PanelAnswered /\ AllRouted /\ SettledOnce
             /\ SingleRetryLoop

LEMMA InitLoop == ASSUME ConstantsAssumption, Init PROVE LoopInv
BY DEF Init, LoopInv, ReflexedInLoop, LoopsInLoop, PanelAnswered, AllRouted, SettledOnce,
   SingleRetryLoop, Made, Loop

\* What holds of the loop holds trivially where the run is not on it.
LEMMA OutsideLoop ==
  ASSUME LoopInv, ReflexedInLoop', node \notin Loop, node' \notin Loop \union {"interrupt", "gate"},
         \/ loops' = 0
         \/ loops' = loops /\ UNCHANGED variants /\ node' \in {"publishing_agent", "end", "failed"},
         errors => errors', silent => silent'
  PROVE  LoopInv'
<1>1. LoopsInLoop' /\ PanelAnswered' /\ AllRouted' /\ SettledOnce'
  BY DEF Loop, LoopsInLoop, PanelAnswered, AllRouted, SettledOnce
<1>2. SingleRetryLoop'
  BY DEF LoopInv, SingleRetryLoop, Emptied, Made, Body
<1> QED BY <1>1, <1>2 DEF LoopInv

\* The panel's answers concern only what it was asked.
LEMMA JudgeLoop ==
  ASSUME IInv, LoopInv, NEW S \in SUBSET Unscored, NEW R \in SUBSET Judges, Judge(S, R)
  PROVE  LoopInv'
<1>1. /\ node = "judges" /\ node' = "confidence_aggregator"
      /\ UNCHANGED <<variants, saved, aggs, loops>> /\ scores' = scores \union S
      /\ (errors => errors') /\ (silent => silent')
  BY DEF Judge
<1>2. Made' = Made /\ Scoreable' = Scoreable /\ \A k \in Made : Content(k)' = Content(k)
  BY <1>1 DEF Made, Scoreable, Content
<1>3. ReflexedInLoop'
  BY <1>1, <1>2 DEF LoopInv, ReflexedInLoop, Loop
<1>4. LoopsInLoop' /\ AllRouted' /\ SingleRetryLoop'
  BY <1>1 DEF LoopInv, LoopsInLoop, AllRouted, SingleRetryLoop, Emptied, Made, Body
<1>5. PanelAnswered'
  <2>1. ASSUME ~silent', NEW c \in Scoreable PROVE \E j \in Judges : <<c[1], c[2], j>> \in scores'
    BY <2>1 DEF Judge
  <2> QED BY <1>2, <2>1 DEF PanelAnswered, Voters
<1>6. SettledOnce'
  <2>1. SUFFICES ASSUME loops # 0, ~errors, ~silent, NEW k \in Made
                 PROVE  /\ ~Triggered(k)'
                        /\ variants[k].retry = 0 =>
                             \/ Aggregated(Content(k))'
                             \/ Content(k) \notin Scoreable /\ Voters(Content(k))' = {}
    BY <1>1, <1>2 DEF SettledOnce, Loop
  <2>2. /\ ~Triggered(k)
        /\ variants[k].retry = 0 =>
             Aggregated(Content(k)) \/ (Content(k) \notin Scoreable /\ Voters(Content(k)) = {})
    BY <1>1, <2>1 DEF LoopInv, SettledOnce, Loop
  <2>3. ~Triggered(k)'
    BY <1>1, <2>2 DEF Triggered, Latest
  <2>4. Aggregated(Content(k))' <=> Aggregated(Content(k))
    BY <1>1, <1>2 DEF Aggregated
  <2>5. ASSUME Content(k) \notin Scoreable, Voters(Content(k)) = {}
        PROVE  Voters(Content(k))' = {}
    <3>1. ASSUME NEW j \in Judges, <<Content(k)[1], Content(k)[2], j>> \in S PROVE FALSE
      <4>1. PICK c \in Scoreable, i \in Judges : <<Content(k)[1], Content(k)[2], j>> = <<c[1], c[2], i>>
        BY <3>1 DEF Unscored
      <4>2. c = <<c[1], c[2]>>
        BY DEF Scoreable
      <4>3. Content(k) = <<Content(k)[1], Content(k)[2]>>
        BY DEF Content
      <4> QED BY <4>1, <4>2, <4>3, <2>5
    <3> QED BY <1>1, <1>2, <2>5, <3>1 DEF Voters
  <2> QED BY <2>2, <2>3, <2>4, <2>5
<1> QED BY <1>3, <1>4, <1>5, <1>6 DEF LoopInv

LEMMA AggregateLoop ==
  ASSUME IInv, LoopInv, NEW route \in [{Content(k) : k \in Ready} -> Routes(2)], AggregateWith(route)
  PROVE  LoopInv'
<1>1. /\ node = "confidence_aggregator" /\ node' = "reflexion" /\ aggs \subseteq aggs'
      /\ UNCHANGED <<variants, saved, scores, loops, errors, silent>>
  BY DEF AggregateWith
<1>2. /\ Made' = Made /\ Scoreable' = Scoreable
      /\ \A k \in Made : Content(k)' = Content(k)
      /\ \A c : Voters(c)' = Voters(c) /\ (Aggregated(c) => Aggregated(c)')
  BY <1>1 DEF Made, Scoreable, Content, Voters, Aggregated
<1>3. ReflexedInLoop'
  BY <1>1, <1>2 DEF LoopInv, ReflexedInLoop, Loop
<1>4. LoopsInLoop' /\ SingleRetryLoop'
  BY <1>1 DEF LoopInv, LoopsInLoop, SingleRetryLoop, Emptied, Made, Body
<1>5. PanelAnswered'
  BY <1>1, <1>2 DEF LoopInv, PanelAnswered
<1>6. \A k \in Made : Aggregated(Content(k))' \/ Voters(Content(k)) = {}
  <2>1. ASSUME NEW k \in Ready PROVE Aggregated(Content(k))'
    <3>1. [key |-> k, round |-> variants[k].retry, decision |-> route[Content(k)]] \in aggs'
      BY DEF AggregateWith
    <3>2. Content(k)' = <<TaskOf(k), variants[k].retry>>
      BY <1>1 DEF Content
    <3> QED BY <3>1, <3>2 DEF Aggregated
  <2> QED BY <1>2, <2>1 DEF Ready
<1>7. AllRouted'
  BY <1>1, <1>2, <1>6 DEF AllRouted
<1>8. SettledOnce'
  <2>1. SUFFICES ASSUME loops # 0, ~errors, ~silent, NEW k \in Made
                 PROVE  /\ ~Triggered(k)'
                        /\ variants[k].retry = 0 =>
                             \/ Aggregated(Content(k))'
                             \/ Content(k) \notin Scoreable /\ Voters(Content(k)) = {}
    BY <1>1, <1>2 DEF SettledOnce, Loop
  <2>2. \A l \in Made :
          /\ ~Triggered(l)
          /\ variants[l].retry = 0 =>
               Aggregated(Content(l)) \/ (Content(l) \notin Scoreable /\ Voters(Content(l)) = {})
    BY <1>1, <2>1 DEF LoopInv, SettledOnce, Loop
  <2>3. \A a \in aggs' : a.round = 0 => a \in aggs
    <3>1. ASSUME NEW l \in Ready PROVE variants[l].retry # 0
      BY <2>2 DEF Ready
    <3> QED BY <3>1 DEF AggregateWith
  <2>4. \A t \in Tasks : \A a \in Latest(t)' : a \in Latest(t)
    BY <1>1, <2>3 DEF Latest
  <2>5. ~Triggered(k)'
    <3>1. TaskOf(k) \in Tasks
      BY KeyTypes DEF Made
    <3> QED BY <1>1, <2>2, <2>4, <3>1 DEF Triggered
  <2> QED BY <1>2, <2>2, <2>5
<1> QED BY <1>3, <1>4, <1>5, <1>7, <1>8 DEF LoopInv

\* A second pass finds nothing to rewrite and nothing that waits.
LEMMA ReflexionLoop ==
  ASSUME IInv, LoopInv, NEW D \in Handled(Failing), NEW E \in SUBSET D, Reflexion(D, E) PROVE LoopInv'
<1>1. /\ node = "reflexion" /\ node' \in {"interrupt", "judges", "failed"}
      /\ UNCHANGED <<saved, scores, aggs, silent>>
  BY DEF Reflexion
<1>2. /\ Made' = Made /\ D \subseteq Made
      /\ \A k \in D : /\ variants'[k].text \in {"rewritten", "none"} /\ variants'[k].final = "none"
                       /\ variants'[k].status = "generated"
                       /\ variants'[k].retry = 1 /\ variants'[k].reflexed
      /\ \A k \in Made \ D : variants'[k] = variants[k]
      /\ ~errors' => ~errors /\ D = Failing
  BY ReflexionDoes DEF IInv
<1>3. \A c : Voters(c)' = Voters(c) /\ (Aggregated(c)' <=> Aggregated(c))
  BY <1>1 DEF Voters, Aggregated
<1>4. ReflexedInLoop'
  <2>1. ASSUME NEW k \in Made
        PROVE  /\ ~saved[k].reflexed
               /\ variants'[k].reflexed =>
                    /\ variants'[k].retry = 1 /\ variants'[k].status = "generated"
                    /\ variants'[k].text \in {"rewritten", "none"} /\ variants'[k].final = "none"
    BY <1>2 DEF LoopInv, ReflexedInLoop
  <2> QED BY <1>1, <1>2, <2>1 DEF ReflexedInLoop, Loop
<1>5. LoopsInLoop' /\ PanelAnswered'
  BY <1>1 DEF LoopsInLoop, PanelAnswered
<1>6. AllRouted'
  <2>1. ASSUME node' = "interrupt", NEW k \in Made
        PROVE  Aggregated(Content(k)') \/ (Voters(Content(k)') = {} /\ ~variants'[k].reflexed)
    <3>1. CASE variants'[k].reflexed
      <4>1. Unjudged(variants') = {}
        BY <2>1 DEF Reflexion
      <4>2. k \in Keys /\ variants'[k] # NoVariant
        BY <1>2 DEF Made
      <4> QED BY <3>1, <4>1, <4>2 DEF Unjudged, Content
    <3>2. CASE ~variants'[k].reflexed
      <4>1. variants'[k] = variants[k]
        BY <1>2, <3>2
      <4>2. Content(k)' = Content(k)
        BY <4>1 DEF Content
      <4> QED BY <1>1, <3>2, <4>2 DEF LoopInv, AllRouted
    <3> QED BY <3>1, <3>2
  <2> QED BY <1>1, <1>2, <1>3, <2>1 DEF AllRouted
<1>7. SettledOnce'
  <2>1. SUFFICES ASSUME ~errors', ~silent, NEW k \in Made
                 PROVE  /\ ~Triggered(k)'
                        /\ variants'[k].retry = 0 =>
                             \/ Aggregated(Content(k)')
                             \/ Content(k)' \notin Scoreable' /\ Voters(Content(k)') = {}
    BY <1>1, <1>2, <1>3 DEF SettledOnce
  <2>2. ASSUME NEW l \in Made, variants'[l].retry = 0
        PROVE  l \notin D /\ variants'[l] = variants[l] /\ Content(l)' = Content(l)
    BY <1>2, <2>2 DEF Content
  <2>3. ~Triggered(k)'
    <3>1. Triggered(k)' => variants'[k].retry = 0 /\ Triggered(k)
      BY <1>1, <2>2 DEF Triggered, Latest
    <3>2. Triggered(k)' => k \in D
      BY <1>2, <2>1, <3>1 DEF Failing
    <3> QED BY <2>2, <3>1, <3>2
  <2>4. ASSUME variants'[k].retry = 0, ~Aggregated(Content(k))
        PROVE  Content(k) \notin Scoreable' /\ Voters(Content(k)) = {}
    <3>1. Voters(Content(k)) = {}
      BY <1>1, <2>4 DEF LoopInv, AllRouted
    <3>2. Content(k) \notin Scoreable
      BY <1>1, <2>1, <3>1 DEF LoopInv, PanelAnswered
    <3>3. ASSUME Content(k) \in Scoreable' PROVE FALSE
      <4>1. PICK l \in Made' :
              /\ variants'[l].status \notin Dead
              /\ variants'[l].final # "none" \/ variants'[l].text # "none"
              /\ Content(k) = <<TaskOf(l), variants'[l].retry>>
        BY <3>3 DEF Scoreable
      <4>2. Content(k) = <<TaskOf(k), 0>>
        BY <2>2, <2>4 DEF Content
      <4>3. variants'[l].retry = 0 /\ l \in Made
        BY <1>2, <4>1, <4>2
      <4>4. variants'[l] = variants[l]
        BY <2>2, <4>3
      <4>5. Content(k) \in Scoreable
        BY <4>1, <4>3, <4>4 DEF Scoreable
      <4> QED BY <3>2, <4>5
    <3> QED BY <3>1, <3>3
  <2> QED BY <2>2, <2>3, <2>4
<1>8. SingleRetryLoop'
  <2>1. loops' \in {loops, loops + 1} /\ (loops' # loops => Unjudged(variants') # {})
    BY DEF Reflexion
  <2>2. ASSUME ~errors', ~silent, Emptied' = {}, loops # 0 PROVE Unjudged(variants') = {}
    <3>1. D = {}
      BY <1>1, <1>2, <2>2 DEF LoopInv, SettledOnce, Loop, Failing
    <3>2. ASSUME NEW k \in Unjudged(variants') PROVE FALSE
      <4>1. k \in Made /\ variants'[k] = variants[k] /\ variants[k].reflexed
              /\ ~Aggregated(Content(k))
        BY <1>2, <3>1 DEF Unjudged, Made, Content
      <4>2. variants[k].status = "generated" /\ variants[k].text = "rewritten"
        BY <1>2, <2>2, <4>1 DEF LoopInv, ReflexedInLoop, Emptied, Body
      <4>3. Content(k) \in Scoreable
        BY <4>1, <4>2 DEF Scoreable, Content, Dead
      <4>4. Voters(Content(k)) # {}
        BY <1>1, <2>2, <4>3 DEF LoopInv, PanelAnswered
      <4> QED BY <1>1, <4>1, <4>4 DEF LoopInv, AllRouted
    <3> QED BY <3>2
  <2>3. loops \in Nat /\ (~errors' => ~errors)
    BY <1>2 DEF IInv, TypeOK, ConstantsAssumption
  <2>4. Emptied \subseteq Emptied'
    <3>1. \A k \in D : variants[k].retry = 0
      BY DEF Handled, Failing, Triggered
    <3>2. ASSUME NEW k \in Emptied PROVE k \in Made \ D
      BY <3>1 DEF Emptied, LoopInv, ReflexedInLoop
    <3> QED BY <1>2, <3>2 DEF Emptied
  <2> QED BY <1>1, <2>1, <2>2, <2>3, <2>4 DEF SingleRetryLoop, LoopInv
<1> QED BY <1>4, <1>5, <1>6, <1>7, <1>8 DEF LoopInv

LEMMA StepLoop == ASSUME ConstantsAssumption, IInv, LoopInv, [Next]_vars PROVE LoopInv'
<1>1. ASSUME NEW valid \in BOOLEAN, Intake(valid) PROVE LoopInv'
  <2>1. node = "intake_agent" /\ node' = "content_generator"
          /\ UNCHANGED <<variants, saved, loops, silent>>
    BY <1>1 DEF Intake, panel
  <2>2. ReflexedInLoop' /\ loops = 0
    BY <2>1 DEF LoopInv, ReflexedInLoop, LoopsInLoop, Made, Loop
  <2>3. LoopsInLoop' /\ PanelAnswered' /\ AllRouted' /\ SettledOnce' /\ SingleRetryLoop'
    BY <2>1, <2>2 DEF LoopsInLoop, PanelAnswered, AllRouted, SettledOnce, SingleRetryLoop, Loop
  <2> QED BY <2>2, <2>3 DEF LoopInv
<1>2. ASSUME NEW F \in SUBSET Tasks, NEW retry \in [Tasks -> Drafts], ContentGenerator(F, retry)
      PROVE LoopInv'
  <2>1. node = "content_generator" /\ node' = "personalization_agent"
          /\ UNCHANGED <<loops, errors, silent>>
    BY <1>2 DEF ContentGenerator, panel
  <2>2. ASSUME NEW k \in Made' PROVE ~variants'[k].reflexed
    <3>1. k \in Keys
      BY DEF Made
    <3>2. CASE k[1] = generation' /\ TaskOf(k) \in plan
      BY <1>2, <3>1, <3>2, GenerateDoes
    <3>3. CASE k[1] # generation' \/ TaskOf(k) \notin plan
      <4>1. variants'[k] = variants[k]
        BY <1>2, <3>1, <3>3, GenerateDoes
      <4>2. k \in Made
        BY <4>1 DEF Made
      <4> QED BY <4>1, <4>2, <2>1 DEF LoopInv, ReflexedInLoop, Loop
    <3> QED BY <3>2, <3>3
  <2>3. ReflexedInLoop'
    BY <1>2, <2>2, GenerateDoes DEF ReflexedInLoop
  <2>4. loops = 0
    BY <2>1 DEF LoopInv, LoopsInLoop
  <2> QED BY <2>1, <2>3, <2>4, OutsideLoop DEF Loop
<1>3. ASSUME ContentGeneratorRaises PROVE LoopInv'
  <2>1. node = "content_generator" /\ node' = "personalization_agent" /\ errors'
          /\ UNCHANGED <<variants, saved, loops, silent>>
    BY <1>3 DEF ContentGeneratorRaises, panel
  <2>2. ReflexedInLoop' /\ loops = 0
    BY <2>1 DEF LoopInv, ReflexedInLoop, LoopsInLoop, Made, Loop
  <2> QED BY <2>1, <2>2, OutsideLoop DEF Loop
<1>4. ASSUME NEW D \in Handled(Unpersonalized), Personalize(D) PROVE LoopInv'
  <2>1. node = "personalization_agent" /\ node' = "translation_agent" /\ (errors => errors')
          /\ UNCHANGED <<saved, loops, silent>>
    BY <1>4 DEF Personalize, panel
  <2>2. Made' = Made /\ \A k \in Made : variants'[k].reflexed = variants[k].reflexed
    BY <1>4, PersonalizeDoes DEF IInv
  <2>3. ReflexedInLoop' /\ loops = 0
    BY <2>1, <2>2 DEF LoopInv, ReflexedInLoop, LoopsInLoop, Loop
  <2> QED BY <2>1, <2>3, OutsideLoop DEF Loop
<1>5. ASSUME NEW P \in Passing, NEW X \in Raising(P), Translate(P, X) PROVE LoopInv'
  <2>1. node = "translation_agent" /\ node' = "judge_gate" /\ (errors => errors')
          /\ UNCHANGED <<saved, loops, silent>>
    BY <1>5 DEF Translate, panel
  <2>2. Made' = Made /\ \A k \in Made : variants'[k].reflexed = variants[k].reflexed
    BY <1>5, TranslateDoes DEF IInv
  <2>3. ReflexedInLoop' /\ loops = 0
    BY <2>1, <2>2 DEF LoopInv, ReflexedInLoop, LoopsInLoop, Loop
  <2> QED BY <2>1, <2>3, OutsideLoop DEF Loop
<1>6. ASSUME JudgeGate PROVE LoopInv'
  <2>1. node = "judge_gate" /\ node' = "judges"
          /\ UNCHANGED <<variants, saved, loops, silent, errors>>
    BY <1>6 DEF JudgeGate, panel
  <2>2. ReflexedInLoop' /\ loops = 0
    BY <2>1 DEF LoopInv, ReflexedInLoop, LoopsInLoop, Made, Loop
  <2>3. LoopsInLoop' /\ PanelAnswered' /\ AllRouted' /\ SettledOnce' /\ SingleRetryLoop'
    BY <2>1, <2>2 DEF LoopsInLoop, PanelAnswered, AllRouted, SettledOnce, SingleRetryLoop
  <2> QED BY <2>2, <2>3 DEF LoopInv
<1>7. ASSUME NEW S \in SUBSET Unscored, NEW R \in SUBSET Judges, Judge(S, R) PROVE LoopInv'
  BY <1>7, JudgeLoop
<1>8. ASSUME NEW route \in [{Content(k) : k \in Ready} -> Routes(2)], AggregateWith(route)
      PROVE LoopInv'
  BY <1>8, AggregateLoop
<1>9. ASSUME NEW D \in Handled(Failing), NEW E \in SUBSET D, Reflexion(D, E) PROVE LoopInv'
  BY <1>9, ReflexionLoop
<1>10. ASSUME Pause PROVE LoopInv'
  <2>1. node = "interrupt" /\ node' \in {"gate", "failed"}
          /\ UNCHANGED <<variants, saved, scores, aggs, loops, silent, errors>>
    BY <1>10 DEF Pause, panel
  <2>2. Made' = Made /\ \A k \in Made : Content(k)' = Content(k)
    BY <2>1 DEF Made, Content
  <2>3. ReflexedInLoop'
    BY <2>1, <2>2 DEF LoopInv, ReflexedInLoop
  <2>4. LoopsInLoop' /\ PanelAnswered' /\ SettledOnce' /\ SingleRetryLoop'
    BY <2>1 DEF LoopInv, LoopsInLoop, PanelAnswered, SettledOnce, SingleRetryLoop, Loop,
       Emptied, Made, Body
  <2>5. \A c : Voters(c)' = Voters(c) /\ (Aggregated(c)' <=> Aggregated(c))
    BY <2>1 DEF Voters, Aggregated
  <2>6. AllRouted'
    BY <2>1, <2>2, <2>5 DEF LoopInv, AllRouted
  <2> QED BY <2>3, <2>4, <2>6 DEF LoopInv
<1>11. ASSUME NEW f \in [Tasks -> Decisions \union {"none"}], Resume(f) PROVE LoopInv'
  <2>1. node = "gate" /\ node' = "review_gate" /\ variants' = saved /\ loops' = 0
          /\ UNCHANGED <<saved, silent, errors>>
    BY <1>11 DEF Resume
  <2>2. Made' = Made
    BY <2>1 DEF IInv, SavedIsMade, Made
  <2>3. ReflexedInLoop'
    BY <2>1, <2>2 DEF LoopInv, ReflexedInLoop
  <2> QED BY <2>1, <2>3, OutsideLoop DEF Loop
<1>12. ASSUME ReviewGate PROVE LoopInv'
  <2>1. node = "review_gate" /\ node' \in {"content_generator", "publishing_agent"}
          /\ UNCHANGED <<saved, loops, silent, errors>>
    BY <1>12 DEF ReviewGate, panel
  <2>2. Made' = Made /\ \A k \in Made : variants'[k].reflexed = variants[k].reflexed
    BY <1>12, ReviewDoes
  <2>3. ReflexedInLoop' /\ loops = 0
    BY <2>1, <2>2 DEF LoopInv, ReflexedInLoop, LoopsInLoop, Loop
  <2> QED BY <2>1, <2>3, OutsideLoop DEF Loop
<1>13. ASSUME NEW D \in SUBSET Publishable, Publish(D) PROVE LoopInv'
  <2>1. node = "publishing_agent" /\ node' = "end"
          /\ UNCHANGED <<variants, saved, loops, silent>>
    BY <1>13 DEF Publish, panel
  <2>2. errors => errors'
    BY <1>13 DEF Publish
  <2>3. ReflexedInLoop'
    BY <2>1 DEF LoopInv, ReflexedInLoop, Made, Loop
  <2> QED BY <2>1, <2>2, <2>3, OutsideLoop DEF Loop
<1>14. CASE UNCHANGED vars
  <2>1. UNCHANGED <<node, variants, saved, scores, aggs, loops, silent, errors>>
    BY <1>14 DEF vars
  <2>2. Made' = Made /\ Scoreable' = Scoreable /\ \A k \in Made : Content(k)' = Content(k)
    BY <2>1 DEF Made, Scoreable, Content
  <2>3. \A c : Voters(c)' = Voters(c) /\ (Aggregated(c)' <=> Aggregated(c))
    BY <2>1 DEF Voters, Aggregated
  <2>4. \A k \in Made : Triggered(k)' <=> Triggered(k)
    BY <2>1 DEF Triggered, Latest
  <2>5. ReflexedInLoop' /\ LoopsInLoop' /\ PanelAnswered' /\ SingleRetryLoop'
    BY <2>1, <2>2, <2>3 DEF LoopInv, ReflexedInLoop, LoopsInLoop, PanelAnswered, SingleRetryLoop,
       Emptied, Body
  <2>6. AllRouted'
    BY <2>1, <2>2, <2>3 DEF LoopInv, AllRouted
  <2>7. SettledOnce'
    BY <2>1, <2>2, <2>3, <2>4 DEF LoopInv, SettledOnce
  <2> QED BY <2>5, <2>6, <2>7 DEF LoopInv
<1> QED
  BY <1>1, <1>2, <1>3, <1>4, <1>5, <1>6, <1>7, <1>8, <1>9, <1>10, <1>11, <1>12, <1>13, <1>14
  DEF Next

LEMMA LoopInvariance == ASSUME ConstantsAssumption PROVE Spec => []LoopInv
<1>1. Init => LoopInv
  BY InitLoop
<1>2. IInv /\ LoopInv /\ [Next]_vars => LoopInv'
  BY StepLoop
<1> QED BY <1>1, <1>2, Invariance, PTL DEF Spec

\* Without an error, a text the whole panel was silent on or a rewrite that came back
\* empty, a run goes back to the judges once: the second pass of reflexion finds nothing of round 0 to rewrite,
\* and everything rewritten has its aggregate.
THEOREM OneRetryLoop == ASSUME ConstantsAssumption PROVE Spec => []SingleRetryLoop
<1>1. LoopInv => SingleRetryLoop
  BY DEF LoopInv
<1> QED BY <1>1, LoopInvariance, PTL

\* What comes to the gate was routed by the scores of its task and round, whatever its
\* generation, unless there are none; what was rewritten always was.
THEOREM GateIsRouted == ASSUME ConstantsAssumption PROVE Spec => []EveryVariantIsRouted
<1>1. LoopInv => EveryVariantIsRouted
  BY DEF LoopInv, AllRouted, EveryVariantIsRouted
<1> QED BY <1>1, LoopInvariance, PTL

-----------------------------------------------------------------------------
\* No variant is of a generation that has not run.
PastOnly == \A k \in Made : k[1] <= generation

\* Nothing is scored or aggregated before there is a variant.
NothingScored ==
  node = "intake_agent" \/ (generation = 0 /\ ~errors) => scores = {} /\ aggs = {}

\* As long as there is one generation, what is scored or aggregated of a task is a
\* round its variant has reached, and had a text.
Judged(t, r) == Voters(<<t, r>>) # {} \/ Aggregated(<<t, r>>)
Early == Unsaved \union {"personalization_agent", "translation_agent"}
FirstRounds ==
  generation = 1 /\ ~errors /\ node \in Early => \A t \in Tasks, r \in Nat :
    Judged(t, r) => /\ r <= variants[<<1, t>>].retry
                    /\ <<1, t>> \in Emptied => r # variants[<<1, t>>].retry

FirstInv == PastOnly /\ NothingScored /\ FirstRounds

LEMMA InitFirst == ASSUME ConstantsAssumption, Init PROVE FirstInv
BY DEF Init, FirstInv, PastOnly, NothingScored, FirstRounds, Early, Unsaved, Panel, Made

\* Nodes that score nothing.
LEMMA FirstKept ==
  ASSUME FirstInv, Made' = Made, UNCHANGED <<generation, scores, aggs>>, errors => errors',
         node' \in Early => node \in Early, node' = "intake_agent" => node = "intake_agent",
         ~errors' => \A k \in Made :
           /\ variants'[k].retry = variants[k].retry
           /\ k \in Emptied' => k \in Emptied,
         \A t \in Tasks : ~errors' /\ generation = 1 /\ node' \in Early => <<1, t>> \in Made
  PROVE  FirstInv'
<1>1. \A t, r : Judged(t, r)' <=> Judged(t, r)
  BY DEF Judged, Voters, Aggregated
<1>2. PastOnly' /\ NothingScored'
  BY DEF FirstInv, PastOnly, NothingScored
<1>3. FirstRounds'
  BY <1>1 DEF FirstInv, FirstRounds
<1> QED BY <1>2, <1>3 DEF FirstInv

\* Unless something went wrong, the first generation has a variant for each task.
LEMMA FirstMade ==
  ASSUME IInv, generation = 1, ~errors, node \in Early PROVE \A t \in Tasks : <<1, t>> \in Made
BY DEF IInv, PlannedIsMade, Early, Unsaved, Panel, Made, Keys

\* Its variant is the only one of a task.
LEMMA FirstOnly ==
  ASSUME IInv, FirstInv, generation = 1, NEW k \in Made PROVE k = <<1, TaskOf(k)>>
<1>1. k \in Generations \X Tasks /\ k[1] <= 1
  BY DEF FirstInv, PastOnly, Made, Keys
<1> QED BY <1>1 DEF Generations, TaskOf

LEMMA StepFirst ==
  ASSUME ConstantsAssumption, IInv, LoopInv, FirstInv, [Next]_vars PROVE FirstInv'
<1> USE DEF Early, Unsaved, Panel
<1>a. IInv'
  BY StepIInv
<1>1. ASSUME NEW valid \in BOOLEAN, Intake(valid) PROVE FirstInv'
  <2>1. /\ node = "intake_agent" /\ node' = "content_generator"
        /\ UNCHANGED <<generation, variants, scores, aggs>>
    BY <1>1 DEF Intake, panel
  <2>2. Made' = Made
    BY <2>1 DEF Made
  <2>3. scores = {} /\ aggs = {}
    BY <2>1 DEF FirstInv, NothingScored
  <2> QED BY <2>1, <2>2, <2>3 DEF FirstInv, PastOnly, NothingScored, FirstRounds
<1>2. ASSUME NEW F \in SUBSET Tasks, NEW retry \in [Tasks -> Drafts], ContentGenerator(F, retry)
      PROVE FirstInv'
  <2>1. /\ node = "content_generator" /\ node' = "personalization_agent"
        /\ generation' = generation + 1 /\ errors' = errors
        /\ UNCHANGED <<scores, aggs>> /\ generation \in Nat
    BY <1>2 DEF ContentGenerator, panel, IInv, TypeOK, ConstantsAssumption
  <2>2. PastOnly'
    <3>1. ASSUME NEW k \in Made' PROVE k[1] <= generation'
      <4>1. CASE k[1] = generation'
        BY <4>1, <2>1
      <4>2. CASE k[1] # generation'
        <5>1. variants'[k] = variants[k] /\ k \in Keys
          BY <4>2, <1>2, <3>1 DEF ContentGenerator, Made
        <5>2. k \in Made
          BY <5>1, <3>1 DEF Made
        <5>3. k[1] <= generation /\ k[1] \in Nat
          BY <5>1, <5>2, KeyTypes DEF FirstInv, PastOnly, Generations
        <5> QED BY <5>3, <2>1
      <4> QED BY <4>1, <4>2
    <3> QED BY <3>1 DEF PastOnly
  <2>3. NothingScored'
    BY <2>1 DEF NothingScored
  <2>4. FirstRounds'
    <3>1. SUFFICES ASSUME generation' = 1, ~errors
                   PROVE \A t \in Tasks, r \in Nat : ~Judged(t, r)'
      BY <2>1 DEF FirstRounds
    <3>2. scores' = {} /\ aggs' = {}
      BY <2>1, <3>1 DEF FirstInv, NothingScored
    <3> QED BY <3>2 DEF Judged, Voters, Aggregated
  <2> QED BY <2>2, <2>3, <2>4 DEF FirstInv
<1>3. ASSUME ContentGeneratorRaises PROVE FirstInv'
  <2>1. node' = "personalization_agent" /\ errors' /\ UNCHANGED <<generation, variants>>
    BY <1>3 DEF ContentGeneratorRaises
  <2> QED BY <2>1 DEF FirstInv, PastOnly, NothingScored, FirstRounds, Made
<1>4. ASSUME NEW D \in Handled(Unpersonalized), Personalize(D) PROVE FirstInv'
  <2>1. /\ node = "personalization_agent" /\ node' = "translation_agent" /\ (errors => errors')
        /\ UNCHANGED <<generation, scores, aggs>>
    BY <1>4 DEF Personalize, panel
  <2>2. Made' = Made /\ \A k \in Made :
          \/ variants'[k] = variants[k]
          \/ /\ variants'[k].text = "personalized"
             /\ variants'[k].retry = variants[k].retry
    BY <1>4, PersonalizeDoes DEF IInv
  <2>3. \A k \in Made : variants'[k].retry = variants[k].retry /\ (k \in Emptied' => k \in Emptied)
    BY <2>2 DEF Emptied, Body
  <2>4. \A t \in Tasks : ~errors' /\ generation = 1 => <<1, t>> \in Made
    BY <2>1, FirstMade
  <2> QED BY <2>1, <2>2, <2>3, <2>4, FirstKept
<1>5. ASSUME NEW P \in Passing, NEW X \in Raising(P), Translate(P, X) PROVE FirstInv'
  <2>1. /\ node = "translation_agent" /\ node' = "judge_gate" /\ (errors => errors')
        /\ UNCHANGED <<generation, scores, aggs>>
    BY <1>5 DEF Translate, panel
  <2>2. /\ Made' = Made /\ \A k \in Made : variants'[k].retry = variants[k].retry
        /\ ~errors' =>
             /\ \A k \in ToTranslate : variants'[k].final = "translated"
             /\ \A k \in Made \ ToTranslate : variants'[k] = variants[k]
    BY <1>5, TranslateDoes DEF IInv
  <2>3. ~errors' => \A k \in Made : k \in Emptied' => k \in Emptied
    BY <2>2 DEF Emptied, Body
  <2>4. \A t \in Tasks : ~errors' /\ generation = 1 => <<1, t>> \in Made
    BY <2>1, FirstMade
  <2> QED BY <2>1, <2>2, <2>3, <2>4, FirstKept
<1>6. ASSUME JudgeGate PROVE FirstInv'
  <2>1. node = "judge_gate" /\ node' = "judges"
          /\ UNCHANGED <<generation, variants, scores, aggs, errors>>
    BY <1>6 DEF JudgeGate, panel
  <2>2. Made' = Made /\ Emptied' = Emptied
    BY <2>1 DEF Made, Emptied, Body
  <2>3. \A t \in Tasks : ~errors' /\ generation = 1 => <<1, t>> \in Made
    BY <2>1, FirstMade
  <2> QED BY <2>1, <2>2, <2>3, FirstKept
<1>7. ASSUME NEW S \in SUBSET Unscored, NEW R \in SUBSET Judges, Judge(S, R) PROVE FirstInv'
  <2>1. /\ node = "judges" /\ node' = "confidence_aggregator" /\ (errors => errors') /\ scores' = scores \union S
        /\ UNCHANGED <<generation, variants, aggs>>
    BY <1>7 DEF Judge
  <2>2. Made' = Made /\ Emptied' = Emptied
    BY <2>1 DEF Made, Emptied, Body
  <2>3. PastOnly'
    BY <2>1, <2>2 DEF FirstInv, PastOnly
  <2>4. NothingScored'
    BY <2>1, <1>a DEF NothingScored, IInv, PlannedIsMade, Generations
  <2>5. FirstRounds'
    <3>1. SUFFICES ASSUME generation = 1, ~errors, NEW t \in Tasks, NEW r \in Nat, Judged(t, r)'
                   PROVE  /\ r <= variants[<<1, t>>].retry
                          /\ <<1, t>> \in Emptied => r # variants[<<1, t>>].retry
      BY <2>1, <2>2 DEF FirstRounds
    <3>2. CASE Judged(t, r)
      BY <2>1, <3>1, <3>2 DEF FirstInv, FirstRounds
    <3>3. CASE ~Judged(t, r)
      <4>1. PICK j \in Judges : <<t, r, j>> \in S
        BY <2>1, <3>1, <3>3 DEF Judged, Voters, Aggregated
      <4>2. PICK c \in Scoreable, i \in Judges : <<t, r, j>> = <<c[1], c[2], i>>
        BY <4>1 DEF Unscored
      <4>3. PICK l \in Made : /\ variants[l].final # "none" \/ variants[l].text # "none"
                              /\ c = <<TaskOf(l), variants[l].retry>>
        BY DEF Scoreable
      <4>4. l = <<1, t>> /\ variants[l].retry = r
        BY <3>1, <4>2, <4>3, FirstOnly
      <4>5. variants[l].retry \in Nat
        BY MadeVariant DEF IInv, Variant
      <4> QED BY <4>3, <4>4, <4>5 DEF Emptied, Body
    <3> QED BY <3>2, <3>3
  <2> QED BY <2>3, <2>4, <2>5 DEF FirstInv
<1>8. ASSUME NEW route \in [{Content(k) : k \in Ready} -> Routes(2)], AggregateWith(route)
      PROVE FirstInv'
  <2>1. /\ node = "confidence_aggregator" /\ node' = "reflexion"
        /\ UNCHANGED <<generation, variants, scores, errors>>
        /\ aggs' = aggs \union
             {[key |-> k, round |-> variants[k].retry, decision |-> route[Content(k)]] : k \in Ready}
    BY <1>8 DEF AggregateWith
  <2>2. Made' = Made /\ Emptied' = Emptied
    BY <2>1 DEF Made, Emptied, Body
  <2>3. PastOnly'
    BY <2>1, <2>2 DEF FirstInv, PastOnly
  <2>4. NothingScored'
    BY <2>1, <1>a, <1>8 DEF NothingScored, IInv, PlannedIsMade, Generations, AggregateWith
  <2>5. FirstRounds'
    <3>1. SUFFICES ASSUME generation = 1, ~errors, NEW t \in Tasks, NEW r \in Nat, Judged(t, r)'
                   PROVE  Judged(t, r)
      BY <2>1, <2>2 DEF FirstInv, FirstRounds
    <3>2. CASE ~Aggregated(<<t, r>>)' \/ Aggregated(<<t, r>>)
      BY <2>1, <3>1, <3>2 DEF Judged, Voters
    <3>3. CASE Aggregated(<<t, r>>)' /\ ~Aggregated(<<t, r>>)
      <4>1. PICK k \in Ready : TaskOf(k) = t /\ variants[k].retry = r
        BY <2>1, <3>3 DEF Aggregated
      <4>2. Content(k) = <<t, r>> /\ Voters(Content(k)) # {}
        BY <4>1 DEF Ready, Content
      <4> QED BY <4>2 DEF Judged
    <3> QED BY <3>2, <3>3
  <2> QED BY <2>3, <2>4, <2>5 DEF FirstInv
<1>9. ASSUME NEW D \in Handled(Failing), NEW E \in SUBSET D, Reflexion(D, E) PROVE FirstInv'
  <2>1. node = "reflexion" /\ node' \in {"interrupt", "judges", "failed"} /\ (errors => errors')
          /\ UNCHANGED <<generation, scores, aggs>>
    BY <1>9 DEF Reflexion
  <2>2. /\ Made' = Made /\ D \subseteq Made
        /\ \A k \in D : variants'[k].retry = 1
        /\ \A k \in Made \ D : variants'[k] = variants[k]
    BY <1>9, ReflexionDoes DEF IInv
  <2>3. PastOnly' /\ NothingScored'
    BY <2>1, <2>2 DEF FirstInv, PastOnly, NothingScored
  <2>4. FirstRounds'
    <3>1. SUFFICES ASSUME generation = 1, ~errors, NEW t \in Tasks, NEW r \in Nat, Judged(t, r)
                   PROVE  /\ r <= variants'[<<1, t>>].retry
                          /\ <<1, t>> \in Emptied' => r # variants'[<<1, t>>].retry
      BY <2>1 DEF FirstRounds, Judged, Voters, Aggregated
    <3>2. /\ r <= variants[<<1, t>>].retry
          /\ <<1, t>> \in Emptied => r # variants[<<1, t>>].retry
      BY <2>1, <3>1 DEF FirstInv, FirstRounds
    <3>3. <<1, t>> \in Made
      BY <2>1, <3>1, FirstMade
    <3>4. CASE <<1, t>> \in D
      <4>1. variants[<<1, t>>].retry = 0
        BY <3>4 DEF Handled, Failing, Triggered
      <4> QED BY <2>2, <3>2, <3>4, <4>1
    <3>5. CASE <<1, t>> \notin D
      BY <2>2, <3>2, <3>3, <3>5 DEF Emptied, Body
    <3> QED BY <3>4, <3>5
  <2> QED BY <2>3, <2>4 DEF FirstInv
<1>10. ASSUME Pause PROVE FirstInv'
  <2>1. node = "interrupt" /\ node' \in {"gate", "failed"}
          /\ UNCHANGED <<generation, variants, scores, aggs, errors>>
    BY <1>10 DEF Pause, panel
  <2>2. Made' = Made /\ Emptied' = Emptied
    BY <2>1 DEF Made, Emptied, Body
  <2>3. \A t \in Tasks : ~errors' /\ generation = 1 => <<1, t>> \in Made
    BY <2>1, FirstMade
  <2> QED BY <2>1, <2>2, <2>3, FirstKept
<1>11. ASSUME NEW f \in [Tasks -> Decisions \union {"none"}], Resume(f) PROVE FirstInv'
  <2>1. /\ node' = "review_gate" /\ variants' = saved
        /\ UNCHANGED <<generation, scores, aggs, errors>>
    BY <1>11 DEF Resume
  <2>2. Made' = Made
    BY <2>1 DEF IInv, SavedIsMade, Made
  <2> QED BY <2>1, <2>2 DEF FirstInv, PastOnly, NothingScored, FirstRounds
<1>12. ASSUME ReviewGate PROVE FirstInv'
  <2>1. /\ node' \in {"content_generator", "publishing_agent"}
        /\ UNCHANGED <<generation, scores, aggs, errors>>
    BY <1>12 DEF ReviewGate, panel
  <2>2. Made' = Made
    BY <1>12, ReviewDoes
  <2> QED BY <2>1, <2>2 DEF FirstInv, PastOnly, NothingScored, FirstRounds
<1>13. ASSUME NEW D \in SUBSET Publishable, Publish(D) PROVE FirstInv'
  <2>1. node' = "end" /\ UNCHANGED <<generation, variants, scores, aggs>>
    BY <1>13 DEF Publish, panel
  <2>2. errors => errors'
    BY <1>13 DEF Publish
  <2>3. Made' = Made
    BY <2>1 DEF Made
  <2> QED BY <2>1, <2>2, <2>3 DEF FirstInv, PastOnly, NothingScored, FirstRounds
<1>14. CASE UNCHANGED vars
  <2>1. UNCHANGED <<node, generation, variants, scores, aggs, errors>>
    BY <1>14 DEF vars
  <2>2. Made' = Made /\ Emptied' = Emptied
    BY <2>1 DEF Made, Emptied, Body
  <2>3. \A t \in Tasks : ~errors /\ generation = 1 /\ node \in Early => <<1, t>> \in Made
    BY FirstMade
  <2> QED BY <2>1, <2>2, <2>3, FirstKept
<1> QED
  BY <1>1, <1>2, <1>3, <1>4, <1>5, <1>6, <1>7, <1>8, <1>9, <1>10, <1>11, <1>12, <1>13, <1>14
  DEF Next

LEMMA FirstInvariance == ASSUME ConstantsAssumption PROVE Spec => []FirstInv
<1>1. Init => FirstInv
  BY InitFirst
<1>2. IInv /\ LoopInv /\ FirstInv /\ [Next]_vars => FirstInv'
  BY StepFirst
<1> QED BY <1>1, <1>2, Invariance, LoopInvariance, PTL DEF Spec

\* Whichever nodes fail for whichever variants, the reviewers are shown only texts
\* that translation_agent completed or reflexion rewrote after it; a text reflexion
\* emptied only from the second generation on, when the aggregate of another variant
\* of its task takes it past the router.
THEOREM ReviewersSeeWholeTexts == ASSUME ConstantsAssumption PROVE Spec => []ShownIsComplete
<1>1. ASSUME IInv, TextInv, LoopInv, FirstInv PROVE ShownIsComplete
  <2>1. SUFFICES ASSUME node = "gate", NEW t \in Requested, <<generation, t>> \in Emptied
                 PROVE  generation > 1
    BY <1>1 DEF ShownIsComplete, TextInv, ShownOrEmptied
  <2>2. ~errors /\ generation \in Generations /\ t \in Tasks
    BY <1>1, <2>1, KeyTypes DEF TextInv, GateIsClean, IInv, PlannedIsMade, TypeOK, Requested, Aggregate
  <2>3. ASSUME generation = 1 PROVE FALSE
    <3>1. <<1, t>> \in Made /\ Content(<<1, t>>) = <<t, variants[<<1, t>>].retry>>
            /\ variants[<<1, t>>].reflexed
      BY <2>1, <2>3 DEF Emptied, Content, TaskOf
    <3>2. Aggregated(<<t, variants[<<1, t>>].retry>>) /\ variants[<<1, t>>].retry \in Nat
      BY <1>1, <2>1, <3>1 DEF LoopInv, AllRouted, ReflexedInLoop
    <3> QED BY <1>1, <2>1, <2>2, <2>3, <3>2 DEF FirstInv, FirstRounds, Judged, Early, Unsaved
  <2> QED BY <2>2, <2>3 DEF Generations
<1> QED BY <1>1, Invariance, TextInvariance, LoopInvariance, FirstInvariance, PTL

=============================================================================
