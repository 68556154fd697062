---------------------------- MODULE CampaignQueue ----------------------------
(***************************************************************************)
(* How a campaign gets from the API to a worker and back into its row:      *)
(* POST /campaigns and the chat's _enqueue_campaign, the Redis list, the    *)
(* loop of worker/main.py with process_campaign and the dead letters, and   *)
(* beside them what else writes the row or drives the campaign's LangGraph  *)
(* thread: the approval route, the resume after the reviews, the rerun.     *)
(* A fault is a crash of a process or an error of Redis or Postgres.        *)
(***************************************************************************)
EXTENDS Naturals, Sequences, Functions, FiniteSets

CONSTANTS
  Campaigns,
  Workers,
  Decisions,   \* the decisions on reviews that resume a campaign
  CampaignOf,  \* the campaign of each
  MaxFaults,   \* bound on the faults of a behaviour
  MaxReruns    \* bound on the reruns of a behaviour, one a campaign

ASSUME FaultsAreCounted == MaxFaults \in Nat
ASSUME DecisionsAreOnCampaigns == CampaignOf \in [Decisions -> Campaigns]

VARIABLES
  row,        \* campaigns.status
  request,    \* the request that creates each campaign
  list,       \* the Redis list omnibrand:tasks, its left end first
  dead,       \* the campaigns on the dead letter list
  at,         \* where each worker is
  task,       \* the campaigns the worker took off the list and works on, at most one
  thread,     \* how far the campaign's checkpointed thread came
  review,     \* the campaign's batch of review requests: pending in part, or decided
  run,        \* where the resume is that each decision starts
  reran,      \* history: campaigns somebody reran
  overlapped, \* history: campaigns resumed twice at the same time
  faults,
  hit         \* history: campaigns whose task met a fault nobody handles

vars == <<row, request, list, dead, at, task, thread, review, run, reran, overlapped, faults, hit>>
resuming == <<run, overlapped>>

Statuses == {"none", "queued", "running", "awaiting_review", "published", "failed", "cancelled"}
Threads == {"none", "inside", "gate", "end"}
RunStates == {"idle", "called", "driving", "paused", "ended", "over"}
WorkerStates == {"polling", "popped", "driving", "paused", "erroneous", "caught", "raised", "down"}

Init ==
  /\ row = [c \in Campaigns |-> "none"]
  /\ request = [c \in Campaigns |-> "none"]
  /\ list = <<>>
  /\ dead = {}
  /\ at = [w \in Workers |-> "polling"]
  /\ task = [w \in Workers |-> {}]
  /\ thread = [c \in Campaigns |-> "none"]
  /\ review = [c \in Campaigns |-> "none"]
  /\ run = [d \in Decisions |-> "idle"]
  /\ reran = {}
  /\ overlapped = {}
  /\ faults = 0
  /\ hit = {}

Fault(S) ==
  /\ faults < MaxFaults
  /\ faults' = faults + 1
  /\ hit' = hit \union S

-----------------------------------------------------------------------------
(* The request: the row is committed, then the task is pushed.               *)

Create(c) ==
  /\ request[c] = "none"
  /\ request' = [request EXCEPT ![c] = "committed"]
  /\ row' = [row EXCEPT ![c] = "queued"]
  /\ UNCHANGED <<list, dead, at, task, thread, review, resuming, reran, faults, hit>>

\* That it is pushed and the reply is lost makes no difference to what follows.
Enqueue(c) ==
  /\ request[c] = "committed"
  /\ request' = [request EXCEPT ![c] = "pushed"]
  /\ list' = <<c>> \o list
  /\ UNCHANGED <<row, dead, at, task, thread, review, resuming, reran, faults, hit>>

EnqueueFails(c) ==
  /\ request[c] = "committed"
  /\ request' = [request EXCEPT ![c] = "broken"]
  /\ Fault({c})
  /\ UNCHANGED <<row, list, dead, at, task, thread, review, resuming, reran>>

-----------------------------------------------------------------------------
(* The worker loop.                                                          *)

\* BLPOP takes from the end LPUSH writes to: the newest task first.
Pop(w) ==
  /\ at[w] = "polling"
  /\ list # <<>>
  /\ task' = [task EXCEPT ![w] = {Head(list)}]
  /\ list' = Tail(list)
  /\ at' = [at EXCEPT ![w] = "popped"]
  /\ UNCHANGED <<row, request, dead, thread, review, resuming, reran, faults, hit>>

\* The first UPDATE is outside the try of process_campaign. Then the graph is
\* started with a fresh state, unless the checkpointer cannot be reached.
Start(w, c) ==
  /\ at[w] = "popped"
  /\ row' = [row EXCEPT ![c] = "running"]
  /\ \/ thread' = [thread EXCEPT ![c] = "inside"]
     \/ UNCHANGED thread
  /\ at' = [at EXCEPT ![w] = "driving"]
  /\ UNCHANGED <<request, list, dead, task, review, resuming, reran, faults, hit>>

StartRaises(w, c) ==
  /\ at[w] = "popped"
  /\ at' = [at EXCEPT ![w] = "raised"]
  /\ Fault({c})
  /\ UNCHANGED <<row, request, list, dead, task, thread, review, resuming, reran>>

\* Every run of a fresh thread ends before the review gate, with errors or
\* without.
GraphPauses(w, c) ==
  /\ at[w] = "driving"
  /\ thread[c] # "none"
  /\ \E result \in {"paused", "erroneous"} : at' = [at EXCEPT ![w] = result]
  /\ thread' = [thread EXCEPT ![c] = "gate"]
  /\ UNCHANGED <<row, request, list, dead, task, review, resuming, reran, faults, hit>>

\* Mutant: the exception is logged and swallowed.
GraphRaisesQuietly(w, c) ==
  /\ at[w] = "driving"
  /\ at' = [at EXCEPT ![w] = "polling"]
  /\ task' = [task EXCEPT ![w] = {}]
  /\ UNCHANGED <<row, request, list, dead, thread, review, resuming, reran, faults, hit>>

\* Mutant: the campaign is tried again until it works.
GraphRaisesRetried(w, c) ==
  /\ at[w] = "driving"
  /\ at' = [at EXCEPT ![w] = "popped"]
  /\ UNCHANGED <<row, request, list, dead, task, thread, review, resuming, reran, faults, hit>>

GraphRaises(w, c) ==
  /\ at[w] = "driving"
  /\ at' = [at EXCEPT ![w] = "caught"]
  /\ UNCHANGED <<row, request, list, dead, task, thread, review, resuming, reran, faults, hit>>

Released(w) == task' = [task EXCEPT ![w] = {}]

\* persist_review_batch or the final UPDATE, each one transaction.
Settle(w, c) ==
  /\ at[w] \in {"paused", "erroneous"}
  /\ row' = [row EXCEPT ![c] = IF at[w] = "paused" THEN "awaiting_review" ELSE "failed"]
  /\ review' = [review EXCEPT ![c] = IF at[w] = "paused" THEN "open" ELSE @]
  /\ at' = [at EXCEPT ![w] = "polling"]
  /\ Released(w)
  /\ UNCHANGED <<request, list, dead, thread, resuming, reran, faults, hit>>

SettleRaises(w, c) ==
  /\ at[w] \in {"paused", "erroneous"}
  /\ at' = [at EXCEPT ![w] = "caught"]
  /\ Fault({})
  /\ UNCHANGED <<row, request, list, dead, task, thread, review, resuming, reran>>

\* The except clause of process_campaign writes the row and raises again.
Catch(w, c) ==
  /\ at[w] = "caught"
  /\ row' = [row EXCEPT ![c] = "failed"]
  /\ at' = [at EXCEPT ![w] = "raised"]
  /\ UNCHANGED <<request, list, dead, task, thread, review, resuming, reran, faults, hit>>

CatchRaises(w, c) ==
  /\ at[w] = "caught"
  /\ at' = [at EXCEPT ![w] = "raised"]
  /\ Fault({c})
  /\ UNCHANGED <<row, request, list, dead, task, thread, review, resuming, reran>>

\* Mutant: a failed task is also pushed back to be tried again.
BuryAndRetry(w, c) ==
  /\ at[w] = "raised"
  /\ dead' = dead \union {c}
  /\ list' = Append(list, c)
  /\ at' = [at EXCEPT ![w] = "polling"]
  /\ Released(w)
  /\ UNCHANGED <<row, request, thread, review, resuming, reran, faults, hit>>

Bury(w, c) ==
  /\ at[w] = "raised"
  /\ dead' = dead \union {c}
  /\ at' = [at EXCEPT ![w] = "polling"]
  /\ Released(w)
  /\ UNCHANGED <<row, request, list, thread, review, resuming, reran, faults, hit>>

\* A crash at any point; a Redis error in BLPOP or in the push of a dead
\* letter ends the process as well. The task it holds goes with it.
Die(w) ==
  /\ at[w] # "down"
  /\ at' = [at EXCEPT ![w] = "down"]
  /\ Released(w)
  /\ Fault(task[w])
  /\ UNCHANGED <<row, request, list, dead, thread, review, resuming, reran>>

\* Nothing in docker-compose.yml restarts it; a platform or an operator may.
Restart(w) ==
  /\ at[w] = "down"
  /\ at' = [at EXCEPT ![w] = "polling"]
  /\ UNCHANGED <<row, request, list, dead, task, thread, review, resuming, reran, faults, hit>>

-----------------------------------------------------------------------------
(* The other writers of the row and drivers of the thread.                   *)

\* Mutant: the decision is stored where its status belongs.
ApproveRaw(c) ==
  /\ row[c] \in {"awaiting_review", "running"}
  /\ \E decision \in {"approved", "rejected", "edited"} : row' = [row EXCEPT ![c] = decision]
  /\ UNCHANGED <<request, list, dead, at, task, thread, review, resuming, reran, faults, hit>>

\* ReviewService has the two statements of the approval and the steps of a
\* decision one by one; here each is one step.
Approve(c) ==
  /\ row[c] \in {"awaiting_review", "running"}
  /\ \E status \in {"published", "cancelled"} : row' = [row EXCEPT ![c] = status]
  /\ UNCHANGED <<request, list, dead, at, task, thread, review, resuming, reran, faults, hit>>

\* The last decision of the batch starts a resume. So does one that read its
\* review while it was pending and overwrites a decision of the batch.
Resuming(d) == run[d] \in {"called", "driving", "paused", "ended"}

ResumeStarts(d, c) ==
  /\ run[d] = "idle"
  /\ review[c] \in {"open", "decided"}
  /\ review' = [review EXCEPT ![c] = "decided"]
  /\ run' = [run EXCEPT ![d] = "called"]
  /\ overlapped' = IF \E e \in Decisions : CampaignOf[e] = c /\ Resuming(e) THEN overlapped \union {c} ELSE overlapped
  /\ UNCHANGED <<row, request, list, dead, at, task, thread, reran, faults, hit>>

\* A run loads the thread, is inside for a while, and stops where it publishes
\* or pauses again after a regeneration; a thread that has ended stays ended.
\* What another run writes meanwhile makes no difference to it.
ResumeGraph(d, c) ==
  /\ \/ /\ run[d] = "called"
        /\ IF thread[c] = "end"
           THEN run' = [run EXCEPT ![d] = "ended"] /\ UNCHANGED thread
           ELSE run' = [run EXCEPT ![d] = "driving"] /\ thread' = [thread EXCEPT ![c] = "inside"]
     \/ /\ run[d] = "driving"
        /\ \/ thread' = [thread EXCEPT ![c] = "gate"] /\ run' = [run EXCEPT ![d] = "paused"]
           \/ thread' = [thread EXCEPT ![c] = "end"] /\ run' = [run EXCEPT ![d] = "ended"]
  /\ UNCHANGED <<row, request, list, dead, at, task, review, reran, overlapped, faults, hit>>

ResumeOver(d) == run' = [run EXCEPT ![d] = "over"]

\* Mutant: the phase is compared with a name it never has.
ResumeSettlesUnpublished(d, c) ==
  /\ run[d] \in {"paused", "ended", "over"}
  /\ \E result \in {"awaiting_review", "failed"} :
       /\ row' = [row EXCEPT ![c] = result]
       /\ review' = [review EXCEPT ![c] = IF result = "awaiting_review" THEN "open" ELSE @]
  /\ ResumeOver(d)
  /\ UNCHANGED <<request, list, dead, at, task, thread, reran, overlapped, faults, hit>>

\* It writes what its own run came to, with errors or without; a run that
\* paused again persists the next batch.
ResumeSettles(d, c) ==
  /\ \/ /\ run[d] = "ended"
        /\ row' = [row EXCEPT ![c] = "published"]
        /\ UNCHANGED review
     \/ /\ run[d] = "paused"
        /\ row' = [row EXCEPT ![c] = "failed"]
        /\ UNCHANGED review
     \/ /\ run[d] = "paused"
        /\ row' = [row EXCEPT ![c] = "awaiting_review"]
        /\ review' = [review EXCEPT ![c] = "open"]
  /\ ResumeOver(d)
  /\ UNCHANGED <<request, list, dead, at, task, thread, reran, overlapped, faults, hit>>

\* An exception on the way, or the end of the API process: nothing catches it,
\* so the row, the reviews and the thread stay as they are.
ResumeRaises(d) ==
  /\ Resuming(d)
  /\ ResumeOver(d)
  /\ UNCHANGED <<row, request, list, dead, at, task, thread, review, reran, overlapped, faults, hit>>

\* A rerun takes the thread on from wherever it is: from the gate without any
\* decision; with a note, from the node it is told to pass for done. It may raise
\* on the way. It writes neither the row nor the reviews.
Rerun(c) ==
  /\ row[c] # "none"
  /\ c \notin reran /\ Cardinality(reran) < MaxReruns
  /\ \E reached \in {"inside", "gate", "end"} : thread' = [thread EXCEPT ![c] = reached]
  /\ reran' = reran \union {c}
  /\ UNCHANGED <<row, request, list, dead, at, task, review, resuming, faults, hit>>

-----------------------------------------------------------------------------

WorkerStep(w) ==
  \/ Pop(w)
  \/ \E c \in task[w] :
       \/ Start(w, c)
       \/ GraphPauses(w, c)
       \/ GraphRaises(w, c)
       \/ Settle(w, c)
       \/ Catch(w, c)
       \/ Bury(w, c)

WorkerFault(w) ==
  \/ \E c \in task[w] : StartRaises(w, c) \/ SettleRaises(w, c) \/ CatchRaises(w, c)
  \/ Die(w)

Next ==
  \/ \E c \in Campaigns :
    \/ Create(c) \/ Enqueue(c) \/ EnqueueFails(c)
    \/ Approve(c) \/ Rerun(c)
  \/ \E d \in Decisions :
       \/ ResumeStarts(d, CampaignOf[d]) \/ ResumeGraph(d, CampaignOf[d])
       \/ ResumeSettles(d, CampaignOf[d]) \/ ResumeRaises(d)
  \/ \E w \in Workers : WorkerStep(w) \/ WorkerFault(w) \/ Restart(w)

Spec == Init /\ [][Next]_vars

\* A request goes on to its push, and a worker that is up goes on: each LLM
\* call has a timeout and the graph a recursion limit, so its runs end.
FairSpec ==
  /\ Spec
  /\ \A c \in Campaigns : WF_vars(Enqueue(c))
  /\ \A w \in Workers : WF_vars(WorkerStep(w))

-----------------------------------------------------------------------------

TypeOK ==
  /\ row \in [Campaigns -> Statuses]
  /\ request \in [Campaigns -> {"none", "committed", "pushed", "broken"}]
  /\ list \in Seq(Campaigns)
  /\ dead \subseteq Campaigns
  /\ at \in [Workers -> WorkerStates]
  /\ task \in [Workers -> SUBSET Campaigns]
  /\ thread \in [Campaigns -> Threads]
  /\ review \in [Campaigns -> {"none", "open", "decided"}]
  /\ run \in [Decisions -> RunStates]
  /\ reran \subseteq Campaigns
  /\ overlapped \subseteq Campaigns
  /\ faults \in 0 .. MaxFaults
  /\ hit \subseteq Campaigns

Listed(c) == c \in Range(list)
Held(c) == \E w \in Workers : c \in task[w]

\* The task of a campaign is in one place at a time and is handed out once,
\* whatever crashes: no worker can meet the checkpoints of another.
Queue == INSTANCE TaskQueue WITH
  place <- [c \in Campaigns |->
              CASE Listed(c) -> "listed"
                [] Held(c) -> "held"
                [] c \in dead -> "buried"
                [] request[c] # "pushed" -> "outside"
                [] OTHER -> "gone"]
ImplementsTaskQueue == Queue!Spec

\* What the API shows of a campaign is true unless a fault hit it: one that is
\* queued or running is in a request, on the list or with a worker, and one on the
\* dead letter list is failed.
OrphanedOnlyByFault ==
  \A c \in Campaigns \ hit :
    /\ row[c] \in {"queued", "running"} => request[c] = "committed" \/ Listed(c) \/ Held(c)
    /\ c \in dead => row[c] = "failed"

\* A campaign that still has a review to decide can be resumed by its reviewers:
\* its thread stands at the gate, whoever else wrote its row and whatever resumes
\* failed before, unless a rerun or two resumes at once took it on.
WaitingIsAtTheGate ==
  \A c \in Campaigns : review[c] = "open" => thread[c] = "gate" \/ c \in reran \union overlapped

\* While there is a worker, a campaign whose task was pushed does not stay
\* queued or running, except through a fault.
EveryCampaignSettles ==
  <>[](\E w \in Workers : at[w] # "down") =>
    \A c \in Campaigns :
      request[c] = "pushed" ~> (row[c] \notin {"queued", "running"} \/ c \in hit)
=============================================================================
