------------------------------ MODULE Pipeline ------------------------------
(***************************************************************************)
(* The LangGraph pipeline of one campaign: src/backend/pipeline/graph.py and *)
(* the agents in src/backend/pipeline/agents.  One action is one node (one   *)
(* superstep); the three judges are one superstep, as they read the same     *)
(* state and their writes are merged.                                        *)
(*                                                                           *)
(* `variants` is an operator.add channel whose elements the nodes enrich in  *)
(* place.  The checkpointer saves a channel only when a node returns it, so  *)
(* what is in memory and what a resume loads are two different variables.    *)
(***************************************************************************)
EXTENDS Integers, FiniteSets

CONSTANTS
  Tasks,            \* the task ids of a valid brief
  English,          \* the tasks whose locale needs no translation
  Judges,           \* the judge models of the panel
  MaxRetries,       \* content_generator.MAX_RETRIES
  MaxReviewRounds,  \* settings.MAX_REVIEW_ROUNDS
  MaxLoops,         \* bound: re-judging loops before LangGraph's recursion limit
  MaxGenerations    \* bound: how often content_generator runs

ASSUME ConstantsAssumption ==
  /\ English \subseteq Tasks
  /\ IsFiniteSet(Judges)
  /\ MaxRetries \in Nat /\ MaxReviewRounds \in Nat
  /\ MaxLoops \in Nat /\ MaxGenerations \in Nat \ {0}

Generations == 1 .. MaxGenerations
\* A variant is named by the generation that made it and by its task; the code
\* knows it by its task only.
Keys == Generations \X Tasks
TaskOf(k) == k[2]

Texts == {"draft", "personalized", "translated", "rewritten"}
Finals == Texts \union {"edited"}
Decisions == {"approved", "rejected", "edited"}
\* Nothing tells translation_unsupported_locale from a translation that failed.
Dead == {"failed", "translation_failed", "translation_blocked_no_source"}
Statuses == Dead \union Decisions \union {"generated", "personalized", "translated"}
\* text: what translated, personalized or generated content (the first there is)
\* holds; final: final_content.
Variant == [status : Statuses, retry : Nat, reflexed : BOOLEAN,
            text : Texts \union {"none"}, final : Finals \union {"none"}]
NoVariant == [status |-> "none"]
\* An aggregated score: of which variant, at which round, and how it routed.  A
\* flag under the reflexion threshold does what an auto_reject does and counts as one.
Aggregate == [key : Keys, round : Nat, decision : {"auto_approve", "auto_reject", "flag"}]

VARIABLES
  node,       \* the next node, or how the run ended
  plan,       \* the tasks intake planned
  generation, \* how often content_generator has run
  variants,   \* the variants in the memory of the running process
  saved,      \* the variants in the checkpoint
  scores,     \* brand_scores: <<task, round, judge>>
  aggs,       \* aggregated_scores
  errors,     \* errors is not empty, or the brief or its budget was refused
  round,      \* review_round
  verdict,    \* review_decisions
  shown,      \* the text each task was last shown to the reviewers with
  loops,      \* re-judging loops of this invocation
  delivered,  \* the variants mailed, each with its text
  silent      \* history: in some pass the whole panel had no answer for a text

vars == <<node, plan, generation, variants, saved, scores, aggs, errors, round,
          verdict, shown, loops, delivered, silent>>
review == <<round, verdict, shown, delivered>>
panel == <<scores, aggs, loops>>

Made == {k \in Keys : variants[k] # NoVariant}
\* aggregated_scores and review_requests are appended together: what does not
\* pass by itself is requested to be reviewed.
Requested == {TaskOf(a.key) : a \in {b \in aggs : b.decision # "auto_approve"}}

Working == {"intake_agent", "content_generator", "personalization_agent",
            "translation_agent", "judge_gate", "judges", "confidence_aggregator",
            "reflexion", "interrupt"}
Nodes == Working \union {"gate", "review_gate", "publishing_agent", "end", "failed"}
NoVerdict == [t \in Tasks |-> "none"]

TypeOK ==
  /\ node \in Nodes
  /\ plan \subseteq Tasks
  /\ generation \in 0 .. MaxGenerations
  /\ variants \in [Keys -> Variant \union {NoVariant}]
  /\ saved \in [Keys -> Variant \union {NoVariant}]
  /\ scores \subseteq Tasks \X Nat \X Judges
  /\ aggs \subseteq Aggregate
  /\ errors \in BOOLEAN
  /\ round \in Nat
  /\ verdict \in [Tasks -> Decisions \union {"none"}]
  /\ shown \in [Tasks -> Finals \union {"none"}]
  /\ loops \in 0 .. MaxLoops
  /\ delivered \subseteq Keys \X (Finals \union {"none"})
  /\ silent \in BOOLEAN

Init ==
  /\ node = "intake_agent"
  /\ plan = {}
  /\ generation = 0
  /\ variants = [k \in Keys |-> NoVariant]
  /\ saved = variants
  /\ scores = {}
  /\ aggs = {}
  /\ errors = FALSE
  /\ round = 0
  /\ verdict = NoVerdict
  /\ shown = NoVerdict
  /\ loops = 0
  /\ delivered = {}
  /\ silent = FALSE

-----------------------------------------------------------------------------
\* safe_agent_run: a node that loops over variants and raises has handled those
\* of earlier generations before it reaches a later one, and adds an error.
Handled(E) == {D \in SUBSET E : \A k \in E, l \in D : k[1] < l[1] => k \in D}

\* intake_agent plans one task per locale, channel and segment of a brief that is
\* valid and within its budget, and none otherwise, or if it raises.
Intake(valid) ==
  /\ node = "intake_agent"
  /\ node' = "content_generator"
  /\ plan' = IF valid THEN Tasks ELSE {}
  /\ errors' = ~valid
  /\ UNCHANGED <<generation, variants, saved, panel, review, silent>>

\* content_generator appends a variant per planned task, whatever there is
\* already; its own format retries are the variant's retry_count.
Generated(n) == [status |-> "generated", retry |-> n, reflexed |-> FALSE,
                 text |-> "draft", final |-> "none"]
Ungenerated == [status |-> "failed", retry |-> MaxRetries, reflexed |-> FALSE,
                text |-> "none", final |-> "none"]

\* The retries of a text: which drafts break a constraint of their channel is open.
Drafts == 0 .. MaxRetries

ContentGenerator(F, retry) ==
  /\ node = "content_generator"
  /\ generation < MaxGenerations
  /\ node' = "personalization_agent"
  /\ generation' = generation + 1
  /\ variants' = [k \in Keys |->
       IF k[1] # generation' \/ TaskOf(k) \notin plan THEN variants[k]
       ELSE IF TaskOf(k) \in F THEN Ungenerated ELSE Generated(retry[TaskOf(k)])]
  /\ saved' = variants'
  /\ UNCHANGED <<plan, panel, errors, review, silent>>

ContentGeneratorRaises ==
  /\ node = "content_generator"
  /\ node' = "personalization_agent"
  /\ errors' = TRUE
  /\ UNCHANGED <<plan, generation, variants, saved, panel, review, silent>>

\* personalization_agent rewrites every variant with generated content that is
\* not "personalized" at the moment: also one that was reviewed before.
Unpersonalized ==
  {k \in Made : variants[k].text # "none" /\ variants[k].status # "personalized"}
Personalize(D) ==
  /\ node = "personalization_agent"
  /\ node' = "translation_agent"
  /\ variants' = [k \in Keys |->
       IF k \in D THEN [variants[k] EXCEPT !.status = "personalized", !.text = "personalized"]
       ELSE variants[k]]
  /\ errors' = (errors \/ D # Unpersonalized)
  /\ UNCHANGED <<plan, generation, saved, panel, review, silent>>

\* translation_agent skips variants of a terminal status; of the others those in P
\* pass the gate.  A gate failure leaves its last translation; an exception, or a
\* locale that is not supported, the text.
Terminal == (Dead \ {"failed"}) \union {"translated"}
Translated(v) == [v EXCEPT !.status = "translated", !.text = "translated", !.final = "translated"]
ToTranslate == {k \in Made : variants[k].status \notin Terminal}
Blank == {k \in ToTranslate : variants[k].text = "none"}
Same == {k \in ToTranslate \ Blank : TaskOf(k) \in English}
Tried == ToTranslate \ (Blank \union Same)

\* Which translations pass the gate's checks (BLEU, similarity, the translation
\* back, content safety) is open, and so is for which others the calls of the
\* models behind the checks raise.
Passing == SUBSET Tried
Raising(P) == SUBSET (Tried \ P)

\* Mutants: only what the gate refused, or only what has no source, is reported.
UntranslatedByGate(P) == Tried \ P
UntranslatedBlank(P) == Blank

\* Each of them adds an error.
Untranslated(P) == ToTranslate \ (Same \union P)

Translate(P, X) ==
  /\ node = "translation_agent"
  /\ node' = "judge_gate"
  /\ variants' = [k \in Keys |->
       CASE k \in Same \union P -> Translated(variants[k])
         [] k \in Blank        -> [variants[k] EXCEPT !.status = "translation_blocked_no_source"]
         [] k \in X            -> [variants[k] EXCEPT !.status = "translation_failed"]
         [] k \in Tried \ (P \union X) ->
              [variants[k] EXCEPT !.status = "translation_failed", !.text = "translated"]
         [] OTHER              -> variants[k]]
  /\ errors' = (errors \/ Untranslated(P) # {})
  /\ UNCHANGED <<plan, generation, saved, panel, review, silent>>

\* judge_gate always wants the full panel: intake never fills prior_campaigns, so
\* every campaign counts as its brand's first.
JudgeGate ==
  /\ node = "judge_gate"
  /\ node' = "judges"
  /\ UNCHANGED <<plan, generation, variants, saved, panel, errors, review, silent>>

-----------------------------------------------------------------------------
\* The content rounds, by task, that are there to be scored.
Scoreable ==
  {<<TaskOf(k), variants[k].retry>> : k \in
     {l \in Made : /\ variants[l].status \notin Dead
                   /\ variants[l].final # "none" \/ variants[l].text # "none"}}

\* The panel scores what it has not scored yet: S is what the judges return, a
\* judge in R raises, any other may be unable to answer for some of them.
Unscored == {<<c[1], c[2], j>> : c \in Scoreable, j \in Judges} \ scores
Judge(S, R) ==
  /\ node = "judges"
  /\ \A s \in S : s[3] \notin R
  /\ scores' = scores \union S
  /\ silent' = (silent \/ \E c \in Scoreable : \A j \in Judges : <<c[1], c[2], j>> \notin scores')
  /\ node' = "confidence_aggregator"
  /\ errors' = (errors \/ R # {})
  /\ UNCHANGED <<plan, generation, variants, saved, aggs, loops, review>>

Content(k) == <<TaskOf(k), variants[k].retry>>
Voters(c) == {j \in Judges : <<c[1], c[2], j>> \in scores}
Aggregated(c) == \E a \in aggs : TaskOf(a.key) = c[1] /\ a.round = c[2]

\* What _route can answer to the scores of n judges.
Routes(n) == {"auto_reject", "flag"} \union (IF n >= 2 THEN {"auto_approve"} ELSE {})

\* confidence_aggregator routes every variant whose content round has scores and
\* no aggregate from an earlier pass.
Ready == {k \in Made : ~Aggregated(Content(k)) /\ Voters(Content(k)) # {}}
AggregateWith(route) ==
  /\ node = "confidence_aggregator"
  /\ \A k \in Ready : route[Content(k)] \in Routes(Cardinality(Voters(Content(k))))
  /\ aggs' = aggs \union
       {[key |-> k, round |-> variants[k].retry, decision |-> route[Content(k)]] : k \in Ready}
  /\ node' = "reflexion"
  /\ UNCHANGED <<plan, generation, variants, saved, scores, loops, errors, review, silent>>

-----------------------------------------------------------------------------
\* _latest_aggregate of round 0 triggers a rewrite.
Latest(t) ==
  {a \in aggs : /\ TaskOf(a.key) = t /\ a.round = 0
                /\ \A b \in aggs : TaskOf(b.key) = t /\ b.round = 0 => b.key[1] <= a.key[1]}
Triggered(k) ==
  /\ variants[k].retry = 0
  /\ \E a \in Latest(TaskOf(k)) : a.decision = "auto_reject"

\* reflexion stores the model's answer unchecked: also one with nothing in it.
Rewritten(v, answer) == [v EXCEPT !.status = "generated", !.retry = 1, !.reflexed = TRUE,
                                  !.text = answer, !.final = "none"]

\* Mutants: the router forgets the aggregates, or the second look.
UnjudgedForGood(vs) == {k \in Keys : vs[k] # NoVariant /\ vs[k].reflexed}
UnjudgedNever(vs) == {}

\* reflexion_router: a rewritten variant waits for its new round's aggregate.
Unjudged(vs) ==
  {k \in Keys : vs[k] # NoVariant /\ vs[k].reflexed /\ ~Aggregated(<<TaskOf(k), vs[k].retry>>)}

\* reflexion rewrites the triggered variants, D of them if it raises, those in E with
\* an empty answer, and the router goes back to the panel or on to the gate; LangGraph's recursion limit
\* ends a run that keeps going back.
Failing == {k \in Made : Triggered(k)}
Reflexion(D, E) ==
  /\ node = "reflexion"
  /\ variants' = [k \in Keys |->
       IF k \in D THEN Rewritten(variants[k], IF k \in E THEN "none" ELSE "rewritten")
       ELSE variants[k]]
  /\ errors' = (errors \/ D # Failing)
  /\ \/ Unjudged(variants') = {} /\ node' = "interrupt" /\ UNCHANGED loops
     \/ /\ Unjudged(variants') # {} /\ loops < MaxLoops
        /\ node' = "judges"
        /\ loops' = loops + 1
     \/ /\ Unjudged(variants') # {} /\ loops = MaxLoops
        /\ node' = "failed"
        /\ UNCHANGED loops
  /\ UNCHANGED <<plan, generation, saved, scores, aggs, review, silent>>

\* The text persist_review_batch stores for variant v.
Body(v) == IF v.final # "none" THEN v.final ELSE v.text

\* The run stops before review_gate.  If anything went wrong the campaign is
\* failed; otherwise its variants are persisted, the last one of a task for it.
Pause ==
  /\ node = "interrupt"
  /\ IF errors THEN node' = "failed" /\ UNCHANGED shown
     ELSE /\ node' = "gate"
          /\ shown' = [t \in Tasks |-> Body(variants[<<generation, t>>])]
  /\ UNCHANGED <<plan, generation, variants, saved, panel, errors, round, verdict, delivered, silent>>

\* resume_campaign: every requested task has a decision, and the process that
\* takes the last one loads the checkpoint.
Resume(f) ==
  /\ node = "gate"
  /\ Requested # {}
  /\ \A t \in Tasks : f[t] # "none" <=> t \in Requested
  /\ verdict' = f
  /\ variants' = saved
  /\ loops' = 0
  /\ node' = "review_gate"
  /\ UNCHANGED <<plan, generation, saved, scores, aggs, errors, round, shown, delivered, silent>>

\* Mutant: a rejection counts the retries down.
ReviewedDownwards(v, d) ==
  IF d = "rejected" THEN [v EXCEPT !.status = "rejected", !.retry = @ - 1] ELSE v

\* review_gate applies a task's decision to each of its variants.
Reviewed(v, d) ==
  CASE d = "none"     -> [v EXCEPT !.final = IF @ = "none" THEN v.text ELSE @]
    [] d = "approved" -> [v EXCEPT !.final = v.text, !.status = "approved"]
    [] d = "edited"   -> [v EXCEPT !.final = "edited", !.status = "edited"]
    [] d = "rejected" -> [v EXCEPT !.status = "rejected", !.retry = @ + 1]

\* Mutant: one round too many.
MayRegenerateOnceMore(n) == n <= MaxReviewRounds + 1

\* review_router: another generation while the cap allows it.
MayRegenerate(n) == n <= MaxReviewRounds

ReviewGate ==
  /\ node = "review_gate"
  /\ variants' = [k \in Keys |->
       IF k \in Made THEN Reviewed(variants[k], verdict[TaskOf(k)]) ELSE NoVariant]
  /\ round' = round + (IF \E k \in Made : verdict[TaskOf(k)] = "rejected" THEN 1 ELSE 0)
  /\ node' = IF MayRegenerate(round') /\ \E k \in Made : variants'[k].status = "rejected"
             THEN "content_generator" ELSE "publishing_agent"
  /\ UNCHANGED <<plan, generation, saved, panel, errors, verdict, shown, delivered, silent>>

\* publishing_agent mails what has an eligible status, as far as SMTP lets it.
Eligible == {"approved", "generated", "personalized"}
Publishable == {k \in Made : variants[k].status \in Eligible}
Publish(D) ==
  /\ node = "publishing_agent"
  /\ delivered' = {<<k, Body(variants[k])>> : k \in D}
  /\ \/ errors' = (errors \/ D # Publishable)
     \/ D = {} /\ UNCHANGED errors  \* nobody to mail to is no error
  /\ node' = "end"
  /\ UNCHANGED <<plan, generation, variants, saved, panel, round, verdict, shown, silent>>

Next ==
  \/ \E valid \in BOOLEAN : Intake(valid)
  \/ \E F \in SUBSET Tasks, retry \in [Tasks -> Drafts] : ContentGenerator(F, retry)
  \/ ContentGeneratorRaises
  \/ \E D \in Handled(Unpersonalized) : Personalize(D)
  \/ \E P \in Passing : \E X \in Raising(P) : Translate(P, X)
  \/ JudgeGate
  \/ \E S \in SUBSET Unscored, R \in SUBSET Judges : Judge(S, R)
  \/ \E route \in [{Content(k) : k \in Ready} -> Routes(2)] : AggregateWith(route)
  \/ \E D \in Handled(Failing) : \E E \in SUBSET D : Reflexion(D, E)
  \/ Pause
  \/ \E f \in [Tasks -> Decisions \union {"none"}] : Resume(f)
  \/ ReviewGate
  \/ \E D \in SUBSET Publishable : Publish(D)

Spec == Init /\ [][Next]_vars

-----------------------------------------------------------------------------
\* The run keeps the contract its callers rely on: only an undecided gate is
\* resumed, a rejection starts another generation at most MaxReviewRounds times,
\* and of a task that was last rejected or edited nothing is delivered, whatever
\* status its older variants have (review.py, publishing.py).
Contract == INSTANCE GraphRun WITH
  at <- CASE node \in Working            -> "working"
          [] node = "review_gate"        -> "resumed"
          [] node = "publishing_agent"   -> "publishing"
          [] OTHER                       -> node,
  flagged <- Requested,
  delivered <- {TaskOf(d[1]) : d \in delivered}
ImplementsGraphRun == Contract!Spec

\* The variants reflexion has rewritten to nothing: no judge takes one (judges.py:141).
Emptied == {k \in Made : variants[k].reflexed /\ Body(variants[k]) = "none"}

\* Unless a node failed, the panel was silent on a text or a rewrite came back empty, a
\* run goes back to the judges at most once, however many variants reflexion rewrites
\* and in whatever generation (reflexion.py:158-161 promises it).
SingleRetryLoop == ~errors /\ ~silent /\ Emptied = {} => loops <= 1

\* No variant comes to the gate without an aggregate for its round, except one the
\* panel never scored: not a rewritten one, not one of an earlier generation
\* (reflexion_router and the idempotency of confidence_aggregator together).
EveryVariantIsRouted ==
  node = "gate" => \A k \in Made :
    Aggregated(Content(k)) \/ (Voters(Content(k)) = {} /\ ~variants[k].reflexed)

\* Whatever node failed for whatever variant, a reviewer is only shown texts that
\* went all the way through translation or were rewritten after it.  An empty rewrite
\* is shown when an earlier generation left an aggregate for its round; in the first
\* one the router keeps it from the gate.
ShownIsComplete ==
  node = "gate" => \A t \in Requested :
    \/ shown[t] \in {"translated", "rewritten"}
    \/ generation > 1 /\ <<generation, t>> \in Emptied

\* A variant whose generation failed is never mailed, also if the decision taken for
\* another variant of its task approves it (translation.py keeps it from the gate).
NoEmptyMail == \A d \in delivered : d[2] # "none"

-----------------------------------------------------------------------------
\* What a document says and the code does not do.

\* docs/publish_agent.md:34: a variant that was rejected is skipped.  The checkpoint
\* keeps the status a variant had when the next generation was made.
RejectedIsSkipped == \A d \in delivered : saved[d[1]].status # "rejected"
=============================================================================
