# OmniBrand Studio in TLA+

OmniBrand Studio turns a marketing brief into reviewed, translated content. An
API (FastAPI) takes the brief, directly or through a chat, and puts a campaign on
a Redis list; a worker runs a LangGraph pipeline of LLM agents over it, up to a
gate where people decide on the texts a panel of judges flagged; the last
decision resumes the run, which regenerates what was rejected or mails the rest.

This directory specifies the parts of it that are hard to get right: how a
campaign gets from a chat or the API through the queue to a worker, the pipeline
itself, the review by several people over two channels, and what is kept
beside these, in the Airtable grid, in the knowledge base and in a browser. Line
numbers are those of the repository; `map` in `PROJECT.json` gives them for every
definition.

## Inventory

| Part | State it keeps | Operations | Talks to |
|---|---|---|---|
| Campaigns API `api/routers/campaigns.py` | `campaigns` | create (INSERT, then LPUSH), approval, status, replay, stream, rerun | Redis list, rerun service, checkpoint |
| Worker `worker/main.py` | its current task | BLPOP, run the graph, persist the pause or a status, dead letters | Redis, graph, review service |
| Graph `pipeline/graph.py`, `state.py` | checkpoint of a thread per campaign | run to the interrupt, resume | agents |
| Agents `pipeline/agents/*` | the channels of the state: tasks, variants, scores, aggregates, requests, errors | one node each, see below | LLM gateway, SMTP |
| Human review `services/review_service.py`, `api/routers/reviews.py` | `review_requests`, `content_variants`, `aggregated_scores`, `campaigns.status` | persist a batch, apply a decision, resume the campaign | Postgres, graph, Airtable, mail |
| Airtable mirror `services/airtable_service.py`, `scripts/airtable_poll_reviews.py` | one grid row per review, with its Sync Status | mirror a row, poll, decide by webhook | review service |
| Chat `api/routers/conversations.py`, `services/chat/*` | `conversations`, messages, a cached session, a lock per conversation | turn over WebSocket, confirmation gate, enqueue, review card | LLM, Redis, review service |
| LLM gateway `pipeline/agents/base.py` | cost rows, cached prices | `traced_llm_call`, `traced_llm_call_stream`, `safe_agent_run` | LiteLLM, Postgres, Redis pub/sub |
| Rerun `services/campaign/rerun_service.py` | `campaign_revisions` | patch the checkpoint, resume it, number the revision | graph |
| Auth and users | users, API keys, revoked tokens, lockout counters | login, refresh, logout, key checks | Redis, Postgres |
| Knowledge base `services/rag/*`, `api/routers/knowledge.py` | vector store, rows of guides and segments, BM25 indexes in memory and on disk | upload, list, retrieve | Chroma or Pinecone, Postgres |
| Golden dataset `services/golden_dataset_service.py` | sets of examples, one of them active | open drafts, backfill, activate, delete | Postgres |
| Evaluation, prompts | their tables | CRUD, synchronous run | graph |
| Frontend `ConversationView.jsx`, `useSSE.js` | cost banner, shown events and their cursor | event stream, page back, turns | Campaigns API, chat |
| Observability, schema, infrastructure | | | |

### What is hard, and what makes each part correct

* **Human review.** Every handler is a coroutine on its own connection; Postgres
  runs at READ COMMITTED and nothing in `apply_decision` locks the row it read. Two
  last deciders may both resume, or neither; a second decision may replace the first;
  a crash may fall between the decision and the resume. Correct means: one
  resume per batch, no run over open reviews, nothing mailed twice, the two
  tables agree, the status shows open reviews, rounds are capped, calls end.
* **Pipeline.** A node that raises has processed some variants and not others and
  the graph goes on; judges answer or not; the variants of all generations stay
  in one list, are known by their task only, and are written in place while only
  a returned channel is saved. Correct means: nothing incomplete or unjudged
  comes before a reviewer, the panel is asked again once, rounds are capped,
  what was rejected or edited last is not mailed, and no mail is empty.
* **Queue and worker.** Creation is a commit and then a push; BLPOP removes the task
  before it is processed; the row of a campaign has five writers. Correct means: a
  task is handed out at most once, what says queued or running is in the list or
  with somebody, what waits for reviewers can be resumed.
* **Chat.** A turn reads its session before it takes the conversation's lock, the
  lock expires and is deleted by whoever ends, and each change writes a row and then
  a copy. Correct means: turns one at a time, one campaign per conversation, known
  to it, the user's edits kept, and only what the user was shown is run on a yes.
* **Airtable mirror.** A poller, reviewers in the grid and the app decide the same
  reviews, over an API whose failures are passed over. Correct means: Synced is said
  only of what the database holds, the grid ends up with the decision, and what is
  decided in it arrives if the route takes it.
* **Knowledge base.** An upload writes a store without transactions and then
  Postgres. Correct means: what is listed can be retrieved, one guide is active,
  an index has the documents that were read for it, one set of examples is active.
* **Costs and replay.** A call can end in its course or in the `finally` of its stream;
  its event and a total go to the browser over two channels; the replay is paged
  through a history that grows. Correct means: each call is paid for once, the banner
  shows it once, the replay has no gap and no event twice.

## Modules

```
 TaskQueue <--implements-- CampaignQueue      ChatBrief <-- ChatTurn     LlmCalls <-- CampaignView
 GraphRun  <--implements-- Pipeline           ReviewService   AirtableMirror   Knowledge
```

Each has an `MC` module for its instances; `ReviewServiceProofs`, `PipelineProofs`,
`CampaignQueueProofs`, `ChatTurnProofs`, `AirtableMirrorProofs`, `KnowledgeProofs` and
`CampaignViewProofs` hold the theorems. Parts that meet are
abstracted the same way on both sides: the run of the graph is `GraphRun` for the
worker and the review, which see of it a pause, an error or an end; a resume is one
step, or a few, in `CampaignQueue` and `AirtableMirror` and has its awaits in
`ReviewService`; a campaign that a chat starts is a row and a push, whose failures in
between are `CampaignQueue`'s. They are not composed into one module: their product
is out of TLC's reach, and each relies on the others only by what is named here.

### ReviewService

The review of one campaign. Tables are functions of their rows: a review row is
`<<batch, origin, task>>`, since a batch inserts every request accumulated in the
graph's state, old ones too, and `VariantOf` is the `content_variants` row it points
at, the last one of its task in that batch (`persist_review_batch`, lines 83-92). A
decide call `h` of `Requests` is a coroutine with a program counter; one action is
one await:

| `pc` | Code | Action |
|---|---|---|
| idle | `apply_decision` SELECT and its checks, 287-326 | `Check`, `Refuse` |
| checked | two UPDATEs by id, 328-374, which wait for row locks | `Update` |
| updated | COUNT of pending rows, 376-386 | `Count` |
| counted | COMMIT; the caller resumes if the count was 0 | `Commit` |
| resume | SELECT of all decisions into a dict by task, 427-453 | `Collect` |
| inject | `aupdate_state` | `Inject` |
| load | `ainvoke(None)` loads the checkpoint | `Load` |
| running | the resumed run, to its end or its next pause | `Regenerate`, `Publish` |
| persist, publish, fail | the next batch, or the status, 466-497 | `PersistAgain`, `WriteStatus` |

A transaction sees committed values only: `Update` changes no table, `Commit` does,
and `HoldsLock` says who makes others wait in between. `Crash` ends a call anywhere;
inside the transaction it is rolled back, afterwards the decision stands.
`ApprovalReads` and `ApprovalWrites` are `POST /campaigns/{id}/approval`, which
overwrites the status beside all this. The LangGraph run is a black box here: a
checkpoint at the gate or at the end, the round, the requests, the decisions.

### GraphRun and Pipeline

`GraphRun` is what the review and the worker rely on: the run works, flags tasks,
stops at the gate or fails, is resumed with a decision for each flagged task, and
then works again, at most `MaxReviewRounds` times, or delivers, nothing of
a task that was last rejected or edited.

`Pipeline` is the graph, one action per node (per superstep; the three judges are
one, as they read the same state and their writes are merged):

| Node | Action | Kept of it |
|---|---|---|
| `intake_agent` | `Intake` | tasks planned, or an error and none |
| `content_generator` | `ContentGenerator`, `ContentGeneratorRaises` | a further variant per task, failed or with 0 to `MaxRetries` format retries |
| `personalization_agent` | `Personalize` | in place, every variant with content, up to the one that raised |
| `translation_agent` | `Translate` | terminal statuses skipped; source missing, English, passed, refused by the gate, raised |
| `judge_gate` | `JudgeGate` | always the full panel, see below |
| `judge_*` | `Judge` | scores by task, round and judge; any may be missing, a raising judge loses all of its |
| `confidence_aggregator` | `AggregateWith` | variants with scores and no aggregate of an earlier pass |
| `reflexion` and its router | `Reflexion` | in place, also with an empty answer; back to the judges, on to the gate, or out by the recursion limit |
| interrupt | `Pause` | errors fail the campaign (`worker/main.py` 139-160), otherwise the texts are shown |
| `resume_campaign` | `Resume` | decisions by task, variants as the checkpoint has them |
| `review_gate`, `review_router` | `ReviewGate` | each decision on every variant of its task |
| `publishing_agent` | `Publish` | eligible statuses, as far as SMTP takes them |

Texts are the stage they went through (`draft`, `personalized`, `translated`,
`rewritten`, `edited`); scores are who gave one; a flag below the reflexion
threshold is an `auto_reject`, as both ask for a review and a rewrite. Of the answers of an
LLM only an empty rewrite is kept apart: an empty draft is one that failed, an empty
personalization leaves the draft in its place, and an empty translation fails its checks.
`retry` is the one counter `retry_count` is in the code: format retries, reflexion
round and rejections.

`variants` and `saved` are two variables because the checkpointer saves a
channel when a node returns it, and after `content_generator` the nodes only write
into the elements of `variants` (they must not return it: it would be appended). So the
checkpoint taken at the gate holds the variants as `content_generator` returned
them, and a resume goes on from there. This is how langgraph 1.2 with
checkpoint-postgres 3.1 (`uv.lock`) versions its channels, which is code outside the
repository and an assumption of the model; that the saver might serialise the list
later than the next node starts to write into it is left out.

`JudgeGate` has one outcome: `_resolve_mode` asks first whether the brand has earlier
campaigns, and `intake_agent` always sets `prior_campaigns` to an empty list
(`intake.py:112`), so the modes `lite` and `skip` that `judge_planner.py` describes cannot
come about.

### TaskQueue and CampaignQueue

`TaskQueue` is an at-most-once queue: the task of a campaign is outside, listed, held
by a worker, and then gone or buried among the dead letters, and never goes back.

`CampaignQueue` has the state of the processes and the tables behind it:

| Variable | Code |
|---|---|
| `row`, `request` | `campaigns.status`; how far `POST /campaigns` or `_enqueue_campaign` came |
| `list`, `dead` | the Redis lists of tasks and of dead letters |
| `at`, `task` | where a worker is in `main` and `process_campaign`, and the task it popped |
| `thread`, `review` | the checkpointed thread; whether a review of the last batch is pending |
| `run` | where each decision that resumes its campaign is in `resume_campaign` |

`Pop` to `Bury` are the loop: `Start` is the first UPDATE, which is outside the `try`,
`GraphPauses` and `GraphRaises` the run, `Settle` the transaction that persists the pause or
the failure, `Catch` the `except` clause that writes the row and raises again, `Bury` the
`except` of `main`. The `...Raises` actions and `Die` are the faults; those nobody handles
are remembered in `hit`. `Approve`, `Rerun` and the resumes are the other writers of the row
and drivers of the thread. A resume starts with the decision that finds its batch decided, which
may be a second one of the same review; its run loads the thread (`ResumeGraph`), is inside, and
pauses or ends; `ResumeSettles` writes what its own run came to. It may raise, or its process
end, at every point (`ResumeRaises`), and any number of resumes of a campaign may be under way:
`overlapped` remembers that two were.

### ChatBrief and ChatTurn

`ChatBrief` has the pure functions of a turn: `Merge`, `MissingSlots`, what is made of a
message (`Understandings`: the LLM's answer completed by the regular expressions, an
answer that is no JSON, no answer, or none asked for), `Gate`, and which kind of
reply is given (`Replies`, with the planner or without it, and with an LLM that may
fail). A value is a text up to whether it is there, is blank, or is another one.

`ChatTurn` is the handler: `Receive` reads the session (the copy in Redis, or the row, which
`Fill` then caches), `Acquire` takes the lock, `Understand` writes the merged brief, and then
the gate starts and attaches a campaign, plays the brief back, goes back to collecting or
passes, until `Compose` and `Release`. Each change of a session is `Write` (the row), `GetAgain`
and `Patch` (the copy), as in `session_manager.py`. `Raise`, `Disconnect`, `Crash`,
`CacheSetFails`, `CacheExpires` and the two `Expire...` actions of the lock are faults and timers.

### AirtableMirror

Two tables of the same reviews, `db` and `grid`. `Mirror` is the loop of
`persist_review_batch` after its commit, `EditGrid` a reviewer, `Fetch`, `Send` and `TimesOut`
the poller, which asks for one page of at most `PageSize` rows (an Airtable page has 100). A call
goes through `Validate` (`airtable_decide` 167-231), `Check` and `Update`
(`apply_decision`), `Sync`, `Resume` and `Mark`. A row is `known` if its reviewer's email is empty or
some user's and its review is there and within the key's brands; the two last, which
`apply_decision` looks at, do not change and are looked at in `Validate`. What is not `Taken` is
marked as an error at every tick. `Update` does not look at the status that `Check`
read. `SyncFails`, `MarkFails`, `MirrorFails`, `CallFails` and `ApiDies` are what may go wrong. The
history `doubt` has the reviews whose row may rightly differ from the decision.

### Knowledge

The uploads of one brand and locale, step by step: `JudgeGuide` and `JudgeSegments` are the
guardrails, `DeleteOld` and `Upsert` write the store, `Begin` is what the first statement of the
transaction sees, `CommitGuide` and `CommitSegments` its end, `OpenDraft` the set of examples
opened for the guide; `Fail` may come between any two. `ListedGuides` and `ListedSegments` are
what the API lists, with its fallbacks. A call of `_get_bm25` that finds no index in memory is
three steps, as it waits for the store in between: `AskStore`, `ReadStore` and `UseIndex`, which
takes the index on disk for current when it has as many documents as were read, builds one
otherwise, and replaces whatever is in memory by now; `Restart` ends the calls of a process. The
sets of examples are at the grain of the two statements of `activate_set` (`change`) and
`delete_set` (`deleting`), which may be under way for one set at once, and of the unique index they
meet; two activations, or two deletions, of one set at once are left out, as the second changes
nothing. `clients` is a bound: retrievers and editors of sets share no state, and the run has one
of the two beside the uploads in each behaviour.

### LlmCalls and CampaignView

A call of `LlmCalls` is opened, answers (`got`: with a cost, with tokens, with both or neither),
fails, is cut by its consumer or cannot be read, and then goes through `Finalize`, `Insert` and
`Publish` of `_finalize_llm_call`; a stream gets there in its course or from its `finally`, once, and
may have heard its cost or its tokens also when it breaks off. A call without a cost
estimates it by the prices in the cache, or asks the gateway for them and, in a step of its own
(`Priced`), replaces what the cache has by then; `together` says that two have asked at once. `CampaignView`
adds the browser: `Announce` puts the event on the stream of who listens, `Render` takes one
or several at once, `ReadTotal` and `TotalArrives` are the total in a turn's answer, which replaces
the banner; `Window` is `_window_replay_events`, and `LoadLatest`, `AskOlder`, `OlderArrives` and
`OlderFails` page through it while `Checkpoint` adds events. `parts` is a bound: the calls with the
banner and the run with its replay share no state, and each behaviour has one of the two.

## Runs

| Run | Bounds | Shows |
|---|---|---|
| `ReviewTwoTasks` | 2 tasks, 3 calls, 1 round, 1 crash | `OneResumePerBatch`, `NoRunOverOpenReviews`, `DeliveredOnce`, `RoundsAreCapped` |
| `ReviewLiveness` | 1 task, 2 requests a generation, 2 calls, 1 approval call, 1 crash, fairness | `TypeOK`, `OpenReviewsAreAwaited`, `VariantsReflectReviews`, `DecideCallsEnd` |
| `PipelineTwoTasks` | 2 tasks, 1 judge, 1 format retry, 1 round, 2 generations | `TypeOK`, `ImplementsGraphRun`, `SingleRetryLoop`, `EveryVariantIsRouted`, `ShownIsComplete`, `NoEmptyMail` |
| `CampaignQueueRuns` | 2 campaigns, 2 workers, 2 decisions, 1 fault, 1 rerun, fairness | `TypeOK`, `ImplementsTaskQueue`, `OrphanedOnlyByFault`, `WaitingIsAtTheGate`, `EveryCampaignSettles` |
| `ChatTurns` | 2 sockets, 3 messages of 4 kinds, 3 fields, 1 fault, fairness | `TypeOK`, `SerialUnlessExpired`, `OneCampaign`, `CampaignsAreKnown`, `CacheAgrees`, `NoEditIsLost`, `ConfirmedAsShown`, `LockIsFreed` |
| `AirtableGrid` | 2 reviews, 2 calls at once, 2 edits of the grid, pages of 2, 1 failure, fairness | `TypeOK`, `SyncedIsDecided`, `GridShowsDecision`, `GridDecisionsArrive` |
| `KnowledgeUploads` | 2 uploads, 2 versions, 1 failure, beside 2 calls in 2 processes or 2 sets | `TypeOK`, `OneActiveGuide`, `SegmentsMatch`, `OneActiveSet`, `IndexIsCurrent` |
| `CampaignViews` | 2 calls, 1 failure; or a history of 5 events, pages of 1, then 2 | `TypeOK`, `AccountedOnce`, `BannerIsRight`, `ReplayIsContiguous` |

Why these bounds are enough for what they are to show:

* Review: two last deciders need two open reviews, and a third call is needed for one
  of them to be decided twice or for the next batch to be decided, also after a crash; a
  batch with two reviews of one variant needs `Flags` of two. `MaxBatches` is `MaxReviewRounds + 2`, one more than `RoundsAreCapped`
  allows, so the cap is the code's and not the bound's.
* Pipeline: two generations of two tasks, one of which is translated, are the least
  in which a decision, a score or an aggregate of one text can be taken for
  another's. `MaxLoops` stands for LangGraph's recursion limit and is above the one loop
  `SingleRetryLoop` allows.
* Queue: two campaigns are needed for one to overtake another, two workers for one
  task to be handed out twice, two decisions on one of them for a resume that overlaps another or
  comes after one that raised. One fault suffices: that a handler fails at what the graph raised
  needs one. One rerun, of either campaign.
* Chat: two messages at once and a third that finds what they left; four kinds of
  message fill the brief, empty a field, run it and say yes with a question.
* Airtable: two reviews make the last decision of a batch, whose call resumes, differ
  from the others; two calls are the poller's and the app's, or a call given up and the
  one that repeats it; a failure and a decision taken back each need an edit.
* Knowledge: the second upload meets the first or its remains. One chunk per upload
  is the worst case of an index that is known by its number of documents. Of two calls
  the second finds the index of the first on disk, in its own process or another, or
  overtakes it; of two sets one is active while the other becomes so or is deleted.
* View: two calls let an event of one come after a total that has it; a history of
  five events read one and then two at a time has a first, a middle and a last page, and grows
  under a request. Two calls are also those that ask for the prices at once.

Several properties say *unless*: a review that was decided twice (`DoubleDecision`), a session
that was outdated when its turn began (`stale`), a fault nobody handles (`hit`), a campaign
resumed twice at once (`overlapped`), prices that two calls asked for at once (`together`). Each of these is
something the code does or suffers, and the property says exactly how far the damage goes;
`ChatTwoCampaigns` shows what an outdated session leads to.

Deadlock is not checked: reviewers may decide everything, workers may be down, and the
messages, edits and faults of a behaviour are bounded.

### Violations: where code and documents differ

| Run | The document | The code |
|---|---|---|
| `ReviewStuck` | `review_service.py:5-7`, once every review is decided the run is resumed | both of two last deciders count the other's row as pending; nobody resumes |
| `RejectedIsSkipped` | `docs/publish_agent.md:34`, rejected variants are skipped | approving the regenerated text approves and mails the rejected one too |
| `ChatUnshownBrief` | `conversations.py:491-492`, the assistant first plays the brief back and waits | a question about the campaign that also changes the brief is let through by the gate, and the yes that follows runs what nobody was shown |
| `ChatTwoCampaigns` | `conversations.py:1788-1790`, the lock prevents double campaign enqueues | the session is read before the lock is taken; the message that waits out the other's turn starts a second campaign |

### What the models show beside the runs

The models contain more of the kind, which is noted here for whoever changes the code.

*Review and pipeline.*
* The UPDATE of a decision (`review_service.py:331`) has no condition on the status checked
  at 291: of two decisions of one review the later commit stays, where line 188 of the
  Airtable design has the first one stick.
* A run in which nothing is flagged stops at the gate, too, and no decision can resume it
  (`worker/main.py:155`).
* The text mailed for an approved variant is the draft of the checkpoint, not the personalized
  and translated text the reviewer saw (`translation.py:506`). What was translated or
  rewritten before the pause is so again after it. `edited` is not an eligible
  status, so an edited variant is never published, which
  `docs/review-gate-testing-guide.md:210` expects.
* A panel silent on a rewritten text is asked again until the recursion limit (`reflexion.py:158`
  promises a single loop), a text nobody scored is not flagged and is mailed as generated,
  and the text generated for a rejected one, having its task and round, is not judged.
* An empty rewrite is stored unchecked (`reflexion.py:138`) and no judge takes an empty text
  (`judges.py:141`), so the run goes back to the judges until the recursion limit, with no error
  entry. In a later generation the aggregate another variant of the task left for that round
  takes the empty text past the router and to the reviewers (`Emptied`).

*Queue.* Two reruns of a campaign at once compute the same next revision number. A rerun of a
campaign that waits for its reviewers takes it past the gate, and its reviews stay open. So does
the second of two overlapping resumes after the first settled its pause. A resume that raises
leaves a row that awaits reviews of which none is left to decide, and nothing resumes it again.

*Chat.*
* A request for a recap is answered with a playback also when the brief is incomplete or
  a campaign is attached; only a playback the gate decided on is followed by a yes.
* A wish to run, or a yes, with a change in the same message runs a brief that was never
  played back; `ConfirmedAsShown` speaks of a bare yes, and of a brief that no question about
  the campaign has changed since (`slipped`).
* A budget changed to 0 counts as missing and the brief goes back to collecting.
* `list_reviews` is asked for in the gate, but the intents offered to the LLM do not have it.

*Airtable.* The docstring of `sync_review`, that the grid always reflects the current outcome, is
not so when the first row of a review is written after its decision, when two decisions of
one review are synced in the other order, and when a write fails: these are the exceptions of
`GridShowsDecision`. A row the route does not take is sent and marked as an error every 15 seconds
until somebody corrects it, and as the poller does not ask for a second page, a page full of
such rows keeps all the others waiting; `GridDecisionsArrive` is about rows that fit on one.

*Knowledge.*
* The vectors of a guide that was superseded are still retrieved beside those of the active one;
  `list` goes by Postgres, retrieval by the store.
* Two guides uploaded at once both stay active (`met`).
* An index on disk with as many documents as the store is taken for current: an upload of
  segments that replaces as many chunks leaves one of deleted documents. `IndexIsCurrent`
  therefore speaks of guides. An index in memory stays until the process restarts.
* `_get_bm25` looks into memory before it waits for the store and not after (`retriever.py:141`,
  `:153`): what is uploaded while it waits is not in the index it puts to use, and the slower
  of two calls replaces an index that has more. `IndexIsCurrent` therefore holds an index to what
  its call has read, not to what the store has by then.
* `DELETE` removes `segment_profile` chunks; those of the seed data have another type and stay.
* A set that becomes active between the two statements of `delete_set` is deleted although it
  says that an active one cannot be.

*Costs and replay.* A stream that is cut is accounted at what its tokens come to, or nothing: the
cost in its header has been read (`base.py:556`), and the `finally` writes 0.0 (`:627`). Prices that
could not be fetched are not asked for again, and of two calls that ask at once (`base.py:210-234`)
one that fails erases what the other was told. An answer that cannot be read leaves no row; a total that
has the row of an event still on its way makes the banner count it twice; a page asked for
before the latest one was read again (`crossed`) is put before the wrong events, and stays there
until the replay is read anew (`mixed`), also when the next request fails.

## Fairness

* Review: weak fairness of each call's steps inside `apply_decision` and inside
  `resume_campaign`: the event loop runs a coroutine whose await has returned, Postgres
  grants a free row lock, every LLM and SMTP call has a timeout. Nothing makes a reviewer
  call, an approval come or a worker start, and a crash is never fair.
* Queue: weak fairness of the push of a request and of each worker's steps. A worker that died
  is restarted only if somebody does so (`docker-compose.yml` has no restart policy for
  it), so `EveryCampaignSettles` assumes that in the end a worker is up. Nothing is fair
  about which campaign is popped: the list is taken from its newest end, and that an old campaign
  is reached rests on there being finitely many.
* Chat: weak fairness of the steps of a turn and of the expiry of a lock that no turn holds.
* Airtable: weak fairness of the poller and of the steps of each call, which have timeouts.

The other specifications are safety only.

## Proofs

`ReviewServiceProofs` proves of `ReviewService`, for all values of the constants that
satisfy `ConstantsAssumption`:

* `TypeCorrect`: `Spec => []TypeOK`, by one lemma per group of actions.
* `OneResume`: `Spec => []OneResumePerBatch`. The property is not inductive: it speaks
  of calls that have committed, and what makes it true is what a `COUNT` of zero
  meant when it was taken. Of each call with that count `ZeroMeansDecided` says that
  every other review of its batch, and of the batches before, is decided for good.
  `TwoZeroesAreRivalled` says that two such calls of one batch, not for the same
  review, exist only if a third call had already decided one of the two reviews:
  each one's count saw the other's row decided, and not by it. That needs
  `DecidedRowsHaveDeciders`, `RequestsHaveRows` and `RowsHaveBatches`, which say who
  decided a row, that a call past its check carries a row that exists, and that no
  row comes before its batch.
* `TablesAgree`: `Spec => []VariantsReflectReviews`. `Commit` is the only action that writes
  a decision and it writes both tables; the proof needs that `PersistBatch` only
  touches rows of a batch that does not exist yet.

* `RunsOverDecidedReviews`, `OpenReviewsShow`, `ReviewRoundsEnd` and `MailedByOneRun`:
  `NoRunOverOpenReviews`, `OpenReviewsAreAwaited`, `RoundsAreCapped` and `DeliveredOnce`. They hold
  as long as no review is decided twice, and so does `RunInv`, on top of the invariant of
  `OneResume`: at most one call is inside `resume_campaign`, and then no review is open and only
  the latest batch can have open ones (`OneAtWork`); what that call has loaded is the
  checkpoint, which nobody else moves, so that each batch has a counted round of its own and a
  thread that mailed is at its end (`OwnsCheckpoint`). `StartsClean` is its base. One lemma
  says what the steps that neither decide, persist nor move the checkpoint keep (`RunKept`);
  six steps are left.

`PipelineProofs` proves of `Pipeline`, for any tasks, judges, retries and rounds:

* `TypeCorrect`: `Spec => []TypeOK`. Types alone are not inductive: what a pause shows
  are the variants of the latest generation, and that they exist needs
  `PlannedIsMade`: until something goes wrong, each generation has a variant of every
  task, and a resume loses none (`SavedIsMade`), as the checkpoint lacks what was done
  to a variant but never the variant.
* `Implements`: `Spec => ImplementsGraphRun`. `InitMaps` and `StepMaps` map the first
  state and each step. The two steps that need an argument are `review_gate` and
  `publishing_agent`. `review_router` looks at statuses and the contract at decisions; the
  two agree as every decided task has a variant (`AggregatesAreMade`) and a status
  `rejected` from an earlier generation belongs to a task that is requested, so decided
  again (`RejectedIsRequested`, `VerdictsAnswer`). What is mailed then has a status
  that says what was last decided (`VerdictsApplied`).

* `ReviewersSeeWholeTexts` and `MailsHaveAText`: `ShownIsComplete` and `NoEmptyMail`. `TextInv` says
  what a run without errors has: before `translation_agent` only failed generations are
  without a text, in memory and in the checkpoint, and after it nothing is (`BlankIsFailed`),
  as it reports each text it found missing, until reflexion empties one; of the last
  generation it skips nothing, as
  nothing of it has a terminal status yet, so what it leaves is translated until reflexion
  rewrites it (`LastIsTranslated`); what is at the gate has no error (`GateIsClean`). That an
  emptied text is not shown in the first generation needs `FirstRounds`: while a task has one
  variant, what is scored or aggregated of it is a round in which it had a text.
* `OneRetryLoop` and `GateIsRouted`: `SingleRetryLoop` and `EveryVariantIsRouted`. `LoopInv` follows the
  pass through the panel: whatever can be scored has an answer, or the panel was silent
  (`PanelAnswered`), whatever has one has an aggregate (`AllRouted`), and after the first loop no
  variant of round 0 is left to be rewritten or aggregated (`SettledOnce`). So a second pass
  rewrites nothing, and everything rewritten by the first, unless it is empty, can be scored, is
  scored and routed.
  Rewritten variants exist on the way to the gate only, with round 1 (`ReflexedInLoop`): a
  resume loads a checkpoint that has none.

`CampaignQueueProofs` proves of `CampaignQueue`, for any campaigns, workers, decisions (each on
one of the campaigns) and faults:

* `Types`: `Spec => []TypeOK`.
* `QueueImplements`: `Spec => ImplementsTaskQueue`. The refinement maps a task to the place it is
  in, and a step to one move of one task, or none. That needs `OnePlace` (a task is not
  pushed, listed, held or buried at the same time), `NoTwins` (it is on the list once) and
  `OneTask` (it has one worker, a worker has one, and one that polls or is down has none). One lemma
  per kind of step: what is pushed, popped, dropped, or leaves the tasks alone.
* `OrphansAreFaults` and `ReviewersFindTheGate`: `OrphanedOnlyByFault` and `WaitingIsAtTheGate`. The row has
  five writers, so `RowInv` says per campaign what a row means: a campaign with a batch of
  reviews is nowhere in the queue any more, and only such a one is resumed (`Reviewed`), which
  separates the worker's writes from the reviewers'; what is shown as queued or running is on its
  way, and a task about to be buried is failed already (`Shown`), but for a campaign hit by a
  fault; the thread is at the gate from a pause to the last decision, and while a resume is under
  way it is the only one and the batch is decided (`AtTheGate`), but for a campaign rerun or
  resumed twice at once.

`ChatTurnProofs` proves of `ChatTurn`, for any fields, sockets, messages and faults, all of its
invariants, from one inductive invariant whose parts have the hypotheses of what they are for:

* `TypeCorrect` (`TypeOK`) and `TurnsAreSerial` (`SerialUnlessExpired`): the lock is there while a turn is at
  work, and there is one such turn (`Serial`). `Sound` says what the locals of a handler have to
  do with one another, which types do not.
* `EditsAreKept` (`NoEditIsLost`): the session a turn has in hand is the stored one but for the brief
  it wrote (`InHand`).
* `CampaignsAreAttached` (`CampaignsAreKnown`) and `OneCampaignIsStarted` (`OneCampaign`): a campaign is known to the
  session or a turn is about to attach it (`Attached`), and while there is one the gate is
  shut (`GateIsShut`).
* `CopiesAgree` (`CacheAgrees`): applying a change to a copy that has it changes nothing (`Changed` is
  idempotent), so every copy is the row, or becomes it by the change under way (`CopiesFollow`).
* `YesIsToThePlayback` (`ConfirmedAsShown`): a complete brief that awaits its yes was played back, or a
  turn is at work that will play it back, run it or leave it as it was (`PlayedBack`).

`AirtableMirrorProofs` proves of `AirtableMirror`, for any reviews, calls, edits and failures:

* `TypeCorrect` (`TypeOK`), with which of a call's decisions are named as in the grid and that the
  poller waits for one call.
* `MarksAreEarned` (`SyncedIsDecided`) and `GridCatchesUp` (`GridShowsDecision`): whoever is about to write the grid
  or mark a row works for a decided review, with its decision unless it is in doubt, and a
  row without doubt shows the decision or such a call is on its way (`ShownOrComing`).

`KnowledgeProofs` proves of `Knowledge`, for any uploads, versions, sets and processes:

* `TypeCorrect` (`TypeOK`), `OneGuideIsActive` (`OneActiveGuide`) and `SegmentsAreTheLast` (`SegmentsMatch`), by what an upload has
  done when it is at a step: its chunks are all in the store before its row is (`Upserted`), what it
  is about to deactivate was active when its transaction began (`Replacing`), uploads of guides
  that did not meet saw the one guide that is active (`OneGuide`), and tidy uploads of segments leave
  the store and Postgres with the chunks of the last one (`SegmentsFollow`).
* `OneSetIsActive` (`OneActiveSet`): the two statements of an activation archive what they saw, and the
  unique index refuses the rest; so no two sets are active, and one is from the first
  activation on unless a deletion raced it.
* `IndexesAreCurrent` (`IndexIsCurrent`, an action property): the guides' store only grows, so that
  what calls have read of it and the index on disk are stages of one growing set
  (`Nested` in `IndexInv`), of which two with as many documents are the same. The argument needs
  that the store is finite; for segments, which are deleted, it fails, and so does the property.

`CampaignViewProofs` proves of `CampaignView`, for any finite set of calls, failures and pages:

* `CallsAreAccountedOnce`: `Spec => []AccountedOnce`. Of each call `RowWhenDue` says by how far
  it is whether it has its row or its `finally` will make one, and `PricedRight` that the cost that
  goes into a row is right and stays so: an estimate rests on the answer about the prices,
  which is kept because one call at most asks for them (`OneAsks`); `OneRow` says that no two
  rows are of one call. The steps of the browser leave all of it alone.
* `TypeCorrect` (`TypeOK`) and `BannerCountsOnce` (`BannerIsRight`): the events on their way are of calls that
  have a row, one each (`LineInv`), and the banner has counted a call when none is (`Counted`).
* `ReplayHasNoGap` (`ReplayIsContiguous`): a request that the latest page has not crossed is for what is
  before the first event shown, and the page it brings ends right there (`ReplayInv`). The proof
  is what showed that a failed request does not put a mixed page right, which a history of
  five events, as the run has, is long enough for.

Each of these rests on the assumptions about the constants that the modules name, and on
nothing else: the bounds are numbers (`ConstantsAssumption`, `BoundsAreNumbers`, `PagesAreNumbers`
and others like them), an upload has a chunk at least (an upload without text is refused,
`ingest.py:177`), the seed data are of no upload (`SeedIsNoUpload`), and there are finitely many
calls (`CallsAreFinite`). TLC has checked every inductive invariant on the runs' instances first.

Every invariant, refinement and action property that a passing run checks is so proved for
all values of the constants. Only model-checked are the liveness properties `DecideCallsEnd`,
`EveryCampaignSettles`, `LockIsFreed` and `GridDecisionsArrive`, as fairness and `ENABLED` are beyond TLAPS.
No property is about a recursive definition.

## Plan

What is left, in order of what matters most:

1. Proofs: that a resume of `ReviewService` keeps the contract of `GraphRun`, which so far is
   the same abstraction on both sides by inspection; when an index of segments is current; what
   `Window` gives for every history.
2. The rerun as an action of `Pipeline` and of `GraphRun`, with the patch it makes of the brief.
3. Revision numbers and the export of events, beside the replay.
4. Rank fusion and chunking as functions, against a reference definition.

## Not modelled

The wording of prompts, mails and cards; embeddings, rerankers and rank fusion, whose
results are floats of external models; the views of the dashboard other than the banner and the
replay; metrics, traces and logs; migrations; notebooks and data sets; authentication,
users and organisations, whose requests are single statements beside a token or a counter in
Redis; brand memory, audit rows and the mail to the author of a rejected text, which are
best-effort effects after a commit; prompts, evaluation and the examples inside a set, each a
statement on rows of its own; `agents/stubs.py`, whose stubs `graph.py` imports and adds no node of.

Exceptions inside `judge_gate`, `confidence_aggregator` and `review_gate` are left out, as they
compute on the state and call nothing; two processes that run one thread at a time are out
of `Pipeline` (they are the subject of `ReviewService` and `CampaignQueue`, which show when that
happens). Of a conversation the HTTP routes that list and read it are left out, of a campaign those
that list, read and export.
