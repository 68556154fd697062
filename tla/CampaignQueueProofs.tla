------------------------ MODULE CampaignQueueProofs ------------------------
(***************************************************************************)
(* Theorems about CampaignQueue, for any campaigns, workers and faults: its   *)
(* types, that it implements TaskQueue, and what its row and thread say.      *)
(***************************************************************************)
EXTENDS CampaignQueue, SequenceTheorems, TLAPS

\* A task is pushed once, and from then on it is in one place at most.
OnePlace(c) ==
  /\ request[c] # "pushed" => ~Listed(c) /\ ~Held(c) /\ c \notin dead
  /\ Listed(c) => ~Held(c) /\ c \notin dead
  /\ Held(c) => c \notin dead

NoTwins == \A i, j \in 1 .. Len(list) : list[i] = list[j] => i = j

\* A task has one worker, and a worker has one task, except when it waits for one.
OneTask ==
  /\ \A w, x \in Workers, c \in Campaigns : c \in task[w] /\ c \in task[x] => w = x
  /\ \A w \in Workers : \A c, d \in task[w] : c = d
  /\ \A w \in Workers : at[w] \in {"polling", "down"} => task[w] = {}

QueueInv == TypeOK /\ OneTask /\ NoTwins /\ \A c \in Campaigns : OnePlace(c)

-----------------------------------------------------------------------------
LEMMA PushedList ==
  ASSUME NEW c \in Campaigns, list \in Seq(Campaigns), list' = <<c>> \o list, NoTwins, ~Listed(c)
  PROVE /\ list' \in Seq(Campaigns)
        /\ NoTwins'
        /\ \A d \in Campaigns : Listed(d)' <=> d = c \/ Listed(d)
<1>1. <<c>> \in Seq(Campaigns) /\ Len(<<c>>) = 1 /\ <<c>>[1] = c
  OBVIOUS
<1>2. /\ list' \in Seq(Campaigns) /\ Len(list') = Len(list) + 1
      /\ \A i \in 1 .. Len(list') : list'[i] = IF i = 1 THEN c ELSE list[i - 1]
  BY <1>1, ConcatProperties
<1>3. Range(list) = {list[i] : i \in 1 .. Len(list)}
  BY RangeEquality
<1>4. NoTwins'
  BY <1>2, <1>3 DEF NoTwins, Listed
<1>5. Range(list') = Range(<<c>>) \union Range(list)
  BY <1>1, RangeConcatenation
<1>6. Range(<<c>>) = {c}
  BY DEF Range
<1> QED BY <1>2, <1>4, <1>5, <1>6 DEF Listed

LEMMA PoppedList ==
  ASSUME list \in Seq(Campaigns), list # <<>>, list' = Tail(list), NoTwins
  PROVE /\ list' \in Seq(Campaigns)
        /\ NoTwins'
        /\ Head(list) \in Campaigns
        /\ \A d \in Campaigns : Listed(d) <=> d = Head(list) \/ Listed(d)'
        /\ Head(list) \notin Range(list')
<1>1. /\ list' \in Seq(Campaigns) /\ Len(list') = Len(list) - 1 /\ Head(list) \in Campaigns
      /\ \A i \in 1 .. Len(list') : list'[i] = list[i + 1]
  BY HeadTailProperties
<1>2. Len(list) \in Nat \ {0} /\ Head(list) = list[1]
  OBVIOUS
<1>3. Range(list) = {list[i] : i \in 1 .. Len(list)} /\ Range(list') = {list'[i] : i \in 1 .. Len(list')}
  <2>1. DOMAIN list = 1 .. Len(list) /\ DOMAIN list' = 1 .. Len(list')
    BY <1>1
  <2> QED BY <2>1 DEF Range
<1>4. NoTwins'
  BY <1>1, <1>2 DEF NoTwins
<1>5. Head(list) \notin Range(list')
  BY <1>1, <1>2, <1>3 DEF NoTwins
<1>6. ASSUME NEW d \in Campaigns PROVE Listed(d) <=> d = Head(list) \/ Listed(d)'
  <2>1. ASSUME Listed(d)' PROVE Listed(d)
    BY <2>1, <1>1, <1>2, <1>3 DEF Listed
  <2>2. ASSUME Listed(d), d # Head(list) PROVE Listed(d)'
    <3>1. PICK i \in 1 .. Len(list) : d = list[i]
      BY <2>2, <1>3 DEF Listed
    <3>2. i - 1 \in 1 .. Len(list') /\ list'[i - 1] = d
      BY <3>1, <2>2, <1>1, <1>2
    <3> QED BY <3>2, <1>3 DEF Listed
  <2>3. Listed(Head(list))
    BY <1>2, <1>3 DEF Listed
  <2> QED BY <2>1, <2>2, <2>3
<1> QED BY <1>1, <1>4, <1>5, <1>6

-----------------------------------------------------------------------------
LEMMA InitQueue == ASSUME Init PROVE QueueInv
<1>1. TypeOK
  BY FaultsAreCounted DEF resuming, RunStates, Init, TypeOK, Statuses, Threads, WorkerStates
<1>2. Range(list) = {}
  BY DEF Init, Range
<1> QED BY <1>1, <1>2 DEF Init, QueueInv, OneTask, NoTwins, OnePlace, Listed, Held

Place(c) ==
  CASE Listed(c) -> "listed"
    [] Held(c) -> "held"
    [] c \in dead -> "buried"
    [] request[c] # "pushed" -> "outside"
    [] OTHER -> "gone"
PlaceMap == [c \in Campaigns |-> Place(c)]

Moves(c, from, to) == PlaceMap[c] = from /\ PlaceMap' = [PlaceMap EXCEPT ![c] = to]

LEMMA MovesIsMove ==
  ASSUME NEW c \in Campaigns
  PROVE Moves(c, "outside", "listed") \/ Moves(c, "listed", "held") \/ Moves(c, "held", "gone")
          \/ Moves(c, "held", "buried") => Queue!Next
BY DEF Moves, PlaceMap, Place, Queue!Next, Queue!Push, Queue!Take, Queue!Leave, Queue!Bury, Queue!Move

LEMMA MoveOfOne ==
  ASSUME NEW c \in Campaigns, NEW from, NEW to, Place(c) = from, Place(c)' = to,
         \A d \in Campaigns \ {c} : Place(d)' = Place(d)
  PROVE Moves(c, from, to)
BY DEF Moves, PlaceMap

Implements == Queue!Next \/ PlaceMap' = PlaceMap

-----------------------------------------------------------------------------
(* The actions by what they do to the tasks.                                  *)

LEMMA Unmoved ==
  ASSUME QueueInv, TypeOK', UNCHANGED <<list, dead, task>>,
         \A c \in Campaigns : request'[c] = "pushed" <=> request[c] = "pushed",
         \A w \in Workers : at'[w] \in {"polling", "down"} => at[w] \in {"polling", "down"}
  PROVE QueueInv' /\ Implements
<1>1. \A c \in Campaigns : (Listed(c)' <=> Listed(c)) /\ (Held(c)' <=> Held(c))
  BY DEF Listed, Held
<1>2. OneTask' /\ NoTwins'
  BY DEF QueueInv, OneTask, NoTwins
<1>3. \A c \in Campaigns : OnePlace(c)' /\ Place(c)' = Place(c)
  BY <1>1 DEF QueueInv, OnePlace, Place
<1> QED BY <1>2, <1>3 DEF QueueInv, Implements, PlaceMap

LEMMA Pushed ==
  ASSUME QueueInv, NEW c \in Campaigns, Enqueue(c) PROVE QueueInv' /\ Implements
<1>1. ~Listed(c) /\ ~Held(c) /\ c \notin dead
  BY DEF QueueInv, OnePlace, Enqueue
<1>2. /\ list' \in Seq(Campaigns)
      /\ NoTwins'
      /\ \A d \in Campaigns : Listed(d)' <=> d = c \/ Listed(d)
  BY <1>1, PushedList DEF QueueInv, TypeOK, Enqueue
<1>3. \A d \in Campaigns : Held(d)' <=> Held(d)
  BY DEF Held, Enqueue
<1>4. TypeOK' /\ OneTask'
  BY <1>2 DEF resuming, RunStates, QueueInv, TypeOK, OneTask, Enqueue
<1>5. \A d \in Campaigns : OnePlace(d)'
  BY <1>1, <1>2, <1>3 DEF QueueInv, TypeOK, OnePlace, Enqueue
<1>6. Place(c) = "outside" /\ Place(c)' = "listed"
  <2>1. request[c] = "committed" /\ request'[c] = "pushed" /\ dead' = dead
    BY DEF QueueInv, TypeOK, Enqueue
  <2> QED BY <2>1, <1>1, <1>2, <1>3 DEF Place
<1>7. \A d \in Campaigns \ {c} : Place(d)' = Place(d)
  BY <1>2, <1>3 DEF QueueInv, TypeOK, Place, Enqueue
<1>8. Queue!Next
  BY <1>6, <1>7, MoveOfOne, MovesIsMove
<1> QED BY <1>2, <1>4, <1>5, <1>8 DEF QueueInv, Implements

LEMMA Popped ==
  ASSUME QueueInv, NEW w \in Workers, Pop(w) PROVE QueueInv' /\ Implements
<1> DEFINE c == Head(list)
<1>1. /\ list' \in Seq(Campaigns)
      /\ NoTwins'
      /\ c \in Campaigns
      /\ \A d \in Campaigns : Listed(d) <=> d = c \/ Listed(d)'
      /\ c \notin Range(list')
  BY PoppedList DEF QueueInv, TypeOK, Pop
<1>2. PICK k \in Campaigns : k = c
  BY <1>1
<1>3. Listed(k) /\ ~Listed(k)' /\ ~Held(k) /\ k \notin dead
  BY <1>1, <1>2 DEF QueueInv, OnePlace, Listed
<1>4. task[w] = {} /\ task' = [task EXCEPT ![w] = {k}] /\ at' = [at EXCEPT ![w] = "popped"]
  BY <1>2 DEF QueueInv, OneTask, Pop
<1>5. \A d \in Campaigns : Held(d)' <=> d = k \/ Held(d)
  BY <1>4 DEF QueueInv, TypeOK, Held
<1>6. TypeOK'
  BY <1>1, <1>4 DEF resuming, RunStates, QueueInv, TypeOK, Pop, WorkerStates
<1>7. OneTask'
  BY <1>3, <1>4 DEF QueueInv, TypeOK, OneTask, Held
<1>8. \A d \in Campaigns : OnePlace(d)'
  BY <1>1, <1>2, <1>3, <1>5 DEF QueueInv, OnePlace, Pop
<1>9. Place(k) = "listed" /\ Place(k)' = "held"
  <2>1. request[k] = "pushed" /\ request' = request /\ dead' = dead
    BY <1>3 DEF QueueInv, OnePlace, Pop
  <2> QED BY <2>1, <1>3, <1>5 DEF Place
<1>10. \A d \in Campaigns \ {k} : Place(d)' = Place(d)
  BY <1>1, <1>2, <1>5 DEF Place, Pop
<1>11. Queue!Next
  BY <1>9, <1>10, MoveOfOne, MovesIsMove
<1> QED BY <1>1, <1>6, <1>7, <1>8, <1>11 DEF QueueInv, Implements

\* The worker is through with its task, which may go to the dead letters.
LEMMA Dropped ==
  ASSUME QueueInv, TypeOK', NEW w \in Workers, Released(w), UNCHANGED <<request, list>>,
         NEW S \in SUBSET task[w], dead' = dead \union S,
         \A x \in Workers \ {w} : at'[x] = at[x]
  PROVE QueueInv' /\ Implements
<1>1. task' = [task EXCEPT ![w] = {}] /\ task \in [Workers -> SUBSET Campaigns]
  BY DEF Released, QueueInv, TypeOK
<1>2. OneTask' /\ NoTwins'
  BY <1>1 DEF QueueInv, OneTask, NoTwins
<1>3. \A d \in Campaigns : (Listed(d)' <=> Listed(d)) /\ (Held(d)' <=> Held(d) /\ d \notin task[w])
  BY <1>1 DEF QueueInv, OneTask, Listed, Held
<1>4. \A d \in Campaigns : d \in task[w] => Held(d) /\ ~Listed(d) /\ d \notin dead /\ request[d] = "pushed"
  BY DEF QueueInv, OnePlace, Held
<1>5. \A d \in Campaigns : OnePlace(d)'
  BY <1>3, <1>4 DEF QueueInv, OnePlace
<1>6. \A d \in Campaigns \ task[w] : Place(d)' = Place(d)
  BY <1>3 DEF Place
<1>7. ASSUME task[w] = {} PROVE Implements
  BY <1>6, <1>7 DEF Implements, PlaceMap
<1>8. ASSUME task[w] # {} PROVE Implements
  <2>1. PICK c \in task[w] : TRUE
    BY <1>8
  <2>2. c \in Campaigns /\ task[w] = {c}
    BY <2>1, <1>1 DEF QueueInv, OneTask
  <2>3. Place(c) = "held" /\ Place(c)' \in {"gone", "buried"}
    BY <2>1, <2>2, <1>3, <1>4 DEF Place
  <2>4. \A d \in Campaigns \ {c} : Place(d)' = Place(d)
    BY <2>2, <1>6
  <2> QED BY <2>2, <2>3, <2>4, MoveOfOne, MovesIsMove DEF Implements
<1> QED BY <1>2, <1>5, <1>7, <1>8 DEF QueueInv

-----------------------------------------------------------------------------
LEMMA WorkerGoesOn ==
  ASSUME QueueInv, NEW w \in Workers, WorkerStep(w) \/ WorkerFault(w) \/ Restart(w)
  PROVE QueueInv' /\ Implements
<1>1. CASE Pop(w)
  BY <1>1, Popped
<1>2. ASSUME NEW c \in task[w], Settle(w, c) \/ Bury(w, c) PROVE QueueInv' /\ Implements
  <2>1. TypeOK'
    <3>1. UNCHANGED <<request, list, thread, run, reran, overlapped, faults, hit>>
      BY <1>2 DEF Settle, Bury, resuming
    <3>2. /\ row' \in [Campaigns -> Statuses] /\ dead' \subseteq Campaigns
          /\ at' \in [Workers -> WorkerStates] /\ task' \in [Workers -> SUBSET Campaigns]
      BY <1>2 DEF QueueInv, TypeOK, Settle, Bury, Released, Statuses, WorkerStates
    <3>3. review' \in [Campaigns -> {"none", "open", "decided"}]
      BY <1>2 DEF QueueInv, TypeOK, Settle, Bury
    <3> QED BY <3>1, <3>2, <3>3 DEF QueueInv, TypeOK
  <2>2. Released(w) /\ UNCHANGED <<request, list>> /\ \A x \in Workers \ {w} : at'[x] = at[x]
    BY <1>2 DEF QueueInv, TypeOK, Settle, Bury
  <2>3. dead' = dead \union {} \/ dead' = dead \union {c}
    BY <1>2 DEF Settle, Bury
  <2> QED BY <1>2, <2>1, <2>2, <2>3, Dropped
<1>3. CASE Die(w)
  <2>1. TypeOK'
    BY <1>3, FaultsAreCounted DEF resuming, RunStates, QueueInv, TypeOK, Die, Released, Fault, WorkerStates
  <2>2. Released(w) /\ UNCHANGED <<request, list>> /\ \A x \in Workers \ {w} : at'[x] = at[x]
    BY <1>3 DEF QueueInv, TypeOK, Die
  <2>3. dead' = dead \union {}
    BY <1>3 DEF Die
  <2> QED BY <2>1, <2>2, <2>3, Dropped
<1>4. ASSUME NEW c \in task[w],
             \/ Start(w, c) \/ GraphPauses(w, c) \/ GraphRaises(w, c) \/ Catch(w, c)
             \/ StartRaises(w, c) \/ SettleRaises(w, c) \/ CatchRaises(w, c)
      PROVE QueueInv' /\ Implements
  <2>1. TypeOK'
    BY <1>4, FaultsAreCounted DEF resuming, RunStates, QueueInv, TypeOK, Start, GraphPauses, GraphRaises, Catch, StartRaises,
       SettleRaises, CatchRaises, Fault, Statuses, Threads, WorkerStates
  <2>2. UNCHANGED <<request, list, dead, task>>
    BY <1>4 DEF Start, GraphPauses, GraphRaises, Catch, StartRaises, SettleRaises, CatchRaises
  <2>3. \A x \in Workers : at'[x] \in {"polling", "down"} => at[x] \in {"polling", "down"}
    BY <1>4 DEF QueueInv, TypeOK, Start, GraphPauses, GraphRaises, Catch, StartRaises, SettleRaises, CatchRaises
  <2> QED BY <2>1, <2>2, <2>3, Unmoved
<1>5. CASE Restart(w)
  <2>1. TypeOK'
    BY <1>5 DEF resuming, RunStates, QueueInv, TypeOK, Restart, WorkerStates
  <2>2. \A x \in Workers : at'[x] \in {"polling", "down"} => at[x] \in {"polling", "down"}
    BY <1>5 DEF QueueInv, TypeOK, Restart
  <2> QED BY <1>5, <2>1, <2>2, Unmoved DEF Restart
<1> QED BY <1>1, <1>2, <1>3, <1>4, <1>5 DEF WorkerStep, WorkerFault

LEMMA RequestGoesOn ==
  ASSUME QueueInv, NEW c \in Campaigns, Create(c) \/ Enqueue(c) \/ EnqueueFails(c)
  PROVE QueueInv' /\ Implements
<1>1. CASE Enqueue(c)
  BY <1>1, Pushed
<1>2. CASE Create(c) \/ EnqueueFails(c)
  <2>1. TypeOK'
    BY <1>2, FaultsAreCounted DEF resuming, RunStates, QueueInv, TypeOK, Create, EnqueueFails, Fault, Statuses
  <2>2. \A d \in Campaigns : request'[d] = "pushed" <=> request[d] = "pushed"
    BY <1>2 DEF QueueInv, TypeOK, Create, EnqueueFails
  <2> QED BY <1>2, <2>1, <2>2, Unmoved DEF Create, EnqueueFails
<1> QED BY <1>1, <1>2

Resume(d) ==
  \/ ResumeStarts(d, CampaignOf[d]) \/ ResumeGraph(d, CampaignOf[d])
  \/ ResumeSettles(d, CampaignOf[d]) \/ ResumeRaises(d)

LEMMA OthersLeaveTasks ==
  ASSUME QueueInv, (\E c \in Campaigns : Approve(c) \/ Rerun(c)) \/ \E d \in Decisions : Resume(d)
  PROVE QueueInv' /\ Implements
<1>1. ASSUME NEW c \in Campaigns, Approve(c) PROVE QueueInv' /\ Implements
  BY <1>1, Unmoved DEF QueueInv, TypeOK, Approve, Statuses, resuming
<1>2. ASSUME NEW c \in Campaigns, Rerun(c) PROVE QueueInv' /\ Implements
  BY <1>2, Unmoved DEF QueueInv, TypeOK, Rerun, Threads, resuming
<1>3. ASSUME NEW d \in Decisions, Resume(d) PROVE QueueInv' /\ Implements
  <2>1. UNCHANGED <<request, list, dead, at, task, reran, faults, hit>>
    BY <1>3 DEF Resume, ResumeStarts, ResumeGraph, ResumeSettles, ResumeRaises
  <2>2. CampaignOf[d] \in Campaigns
    BY DecisionsAreOnCampaigns
  <2>3. TypeOK'
    BY <1>3, <2>1, <2>2 DEF QueueInv, TypeOK, Resume, ResumeStarts, ResumeGraph, ResumeSettles, ResumeRaises,
       ResumeOver, Statuses, Threads, RunStates
  <2> QED BY <2>1, <2>3, Unmoved
<1> QED BY <1>1, <1>2, <1>3

LEMMA StepKeeps == ASSUME QueueInv, [Next]_vars PROVE QueueInv' /\ Implements
<1>1. CASE UNCHANGED vars
  BY <1>1, Unmoved DEF QueueInv, TypeOK, vars
<1>2. CASE Next
  BY <1>2, WorkerGoesOn, RequestGoesOn, OthersLeaveTasks DEF Next, Resume
<1> QED BY <1>1, <1>2

-----------------------------------------------------------------------------
\* The types of worker/main.py's world, whoever crashes.
THEOREM Types == Spec => []TypeOK
<1>1. Init => QueueInv
  BY InitQueue
<1>2. QueueInv /\ [Next]_vars => QueueInv'
  BY StepKeeps
<1>3. QueueInv => TypeOK
  BY DEF QueueInv
<1> QED BY <1>1, <1>2, <1>3, PTL DEF Spec

\* A task is handed to at most one worker, at most once, and ends worked off, lost
\* with its worker or on the dead letter list: LPUSH, BLPOP and the loop of main.
THEOREM QueueImplements == Spec => ImplementsTaskQueue
<1>1. Init => Queue!Init
  <2> SUFFICES ASSUME Init PROVE Queue!Init
    OBVIOUS
  <2>1. Range(list) = {}
    BY DEF Init, Range
  <2>2. \A c \in Campaigns : ~Listed(c) /\ ~Held(c) /\ c \notin dead /\ request[c] # "pushed"
    BY <2>1 DEF Init, Listed, Held
  <2> QED BY <2>2 DEF Queue!Init
<1>2. Init => QueueInv
  BY InitQueue
<1>3. QueueInv /\ [Next]_vars => QueueInv'
  BY StepKeeps
<1>4. QueueInv /\ [Next]_vars => [Queue!Next]_PlaceMap
  BY StepKeeps DEF Implements
<1> QED BY <1>1, <1>2, <1>3, <1>4, PTL DEF Spec, ImplementsTaskQueue, Queue!Spec, PlaceMap, Place

-----------------------------------------------------------------------------
(* What the row says of the task and of the thread.                           *)

\* A campaign with a batch of reviews is no longer anywhere in the queue, and only
\* such a campaign is resumed.
Reviewed(c) ==
  /\ review[c] # "none" => request[c] = "pushed" /\ ~Listed(c) /\ ~Held(c) /\ c \notin dead
  /\ \A d \in Decisions : CampaignOf[d] = c /\ Resuming(d) => review[c] # "none"

\* A task that is about to be a dead letter is failed, as one that is.
Shown(c) ==
  c \notin hit =>
    /\ row[c] \in {"queued", "running"} => request[c] = "committed" \/ Listed(c) \/ Held(c)
    /\ c \in dead => row[c] = "failed"
    /\ \A w \in Workers : c \in task[w] /\ at[w] = "raised" => row[c] = "failed"

\* The thread is at the gate from the pause to the last decision, and again from the
\* pause of the one resume to its end, unless it is rerun or resumed twice at once.
AtTheGate(c) ==
  c \notin reran \union overlapped =>
    /\ review[c] = "open" => thread[c] = "gate"
    /\ \A w \in Workers : c \in task[w] /\ at[w] = "paused" => thread[c] = "gate"
    /\ \A d \in Decisions :
         CampaignOf[d] = c /\ Resuming(d) =>
           /\ review[c] = "decided"
           /\ run[d] = "paused" => thread[c] = "gate"
           /\ \A e \in Decisions : CampaignOf[e] = c /\ Resuming(e) => e = d

RowInv == \A c \in Campaigns : Reviewed(c) /\ Shown(c) /\ AtTheGate(c)

LEMMA HeldByOne ==
  ASSUME QueueInv, RowInv, NEW w \in Workers, NEW c \in task[w]
  PROVE  /\ c \in Campaigns /\ Held(c) /\ review[c] = "none" /\ c \notin dead /\ ~Listed(c)
         /\ at[w] \in WorkerStates \ {"polling", "down"}
         /\ \A d \in Campaigns, x \in Workers : d \in task[x] => (x = w <=> d = c)
<1>1. c \in Campaigns /\ Held(c) /\ task \in [Workers -> SUBSET Campaigns] /\ at \in [Workers -> WorkerStates]
  BY DEF QueueInv, TypeOK, Held
<1>2. review[c] = "none" /\ c \notin dead /\ ~Listed(c)
  BY <1>1 DEF RowInv, Reviewed, Resuming, QueueInv, OnePlace
<1> QED BY <1>1, <1>2 DEF QueueInv, OneTask

\* A worker goes on with its task.
LEMMA RunKeepsRow ==
  ASSUME QueueInv, RowInv, NEW w \in Workers, NEW c \in task[w],
         \/ Start(w, c) \/ GraphPauses(w, c) \/ GraphRaises(w, c) \/ Catch(w, c)
         \/ StartRaises(w, c) \/ SettleRaises(w, c) \/ CatchRaises(w, c)
  PROVE RowInv'
<1>1. /\ c \in Campaigns /\ Held(c) /\ review[c] = "none" /\ c \notin dead
      /\ \A d \in Campaigns, x \in Workers : d \in task[x] => (x = w <=> d = c)
  BY HeldByOne
<1>2. UNCHANGED <<request, list, dead, task, review, run, overlapped, reran>>
  BY DEF Start, GraphPauses, GraphRaises, Catch, StartRaises, SettleRaises, CatchRaises, resuming
<1>3. \A d \in Campaigns : (Listed(d)' <=> Listed(d)) /\ (Held(d)' <=> Held(d))
  BY <1>2 DEF Listed, Held
<1>4. /\ \A d \in Campaigns \ {c} : row'[d] = row[d] /\ thread'[d] = thread[d]
      /\ \A x \in Workers \ {w} : at'[x] = at[x]
      /\ hit \subseteq hit'
  BY DEF QueueInv, TypeOK, Start, GraphPauses, GraphRaises, Catch, StartRaises, SettleRaises, CatchRaises, Fault
<1>5. \A d \in Campaigns : Reviewed(d)'
  BY <1>2, <1>3 DEF RowInv, Reviewed, Resuming
<1>6. ASSUME NEW d \in Campaigns \ {c} PROVE Shown(d)' /\ AtTheGate(d)'
  <2>1. \A x \in Workers : d \in task[x] => at'[x] = at[x]
    BY <1>1, <1>4
  <2> QED BY <1>2, <1>3, <1>4, <2>1 DEF RowInv, Shown, AtTheGate, Resuming
<1>7. Shown(c)'
  <2>1. c \notin hit' /\ at'[w] = "raised" => row'[c] = "failed"
    BY <1>1 DEF QueueInv, TypeOK, Start, GraphPauses, GraphRaises, Catch, StartRaises, SettleRaises, CatchRaises, Fault
  <2>2. \A x \in Workers : c \in task'[x] => x = w
    BY <1>1, <1>2
  <2> QED BY <1>1, <1>2, <1>3, <2>1, <2>2 DEF Shown
<1>8. AtTheGate(c)'
  <2>1. at'[w] = "paused" => thread'[c] = "gate"
    BY <1>1 DEF QueueInv, TypeOK, Start, GraphPauses, GraphRaises, Catch, StartRaises, SettleRaises, CatchRaises
  <2>2. \A x \in Workers : c \in task'[x] => x = w
    BY <1>1, <1>2
  <2> QED BY <1>1, <1>2, <2>1, <2>2 DEF RowInv, AtTheGate, Resuming
<1> QED BY <1>5, <1>6, <1>7, <1>8 DEF RowInv

\* A worker is through with its task, or dies with it.
LEMMA DropKeepsRow ==
  ASSUME QueueInv, RowInv, NEW w \in Workers,
         Die(w) \/ \E c \in task[w] : Settle(w, c) \/ Bury(w, c)
  PROVE RowInv'
<1>1. /\ task' = [task EXCEPT ![w] = {}] /\ UNCHANGED <<request, list, thread, reran, run, overlapped>>
      /\ \A x \in Workers \ {w} : at'[x] = at[x]
  BY DEF QueueInv, TypeOK, Die, Settle, Bury, Released, resuming
<1>2. task \in [Workers -> SUBSET Campaigns]
  BY DEF QueueInv, TypeOK
<1>3. \A d \in Campaigns : (Listed(d)' <=> Listed(d)) /\ (Held(d)' => Held(d))
                           /\ (d \notin task[w] => (Held(d)' <=> Held(d)))
  BY <1>1, <1>2 DEF Listed, Held
<1>4. \A d \in Campaigns : d \in task[w] => ~Held(d)'
  BY <1>1, <1>2 DEF QueueInv, OneTask, Held
<1>5. \A d \in Campaigns, x \in Workers : d \in task'[x] => d \in task[x] /\ at'[x] = at[x]
  BY <1>1, <1>2
<1>6. CASE Die(w)
  <2>1. UNCHANGED <<row, dead, review>> /\ hit' = hit \union task[w]
    BY <1>6 DEF Die, Fault
  <2>2. \A d \in Campaigns : Reviewed(d)'
    BY <1>1, <1>3, <2>1 DEF RowInv, Reviewed, Resuming
  <2>3. \A d \in Campaigns : Shown(d)'
    BY <1>1, <1>3, <1>5, <2>1 DEF RowInv, Shown
  <2>4. \A d \in Campaigns : AtTheGate(d)'
    BY <1>1, <1>5, <2>1 DEF RowInv, AtTheGate, Resuming
  <2> QED BY <2>2, <2>3, <2>4 DEF RowInv
<1>7. ASSUME NEW c \in task[w], Settle(w, c) \/ Bury(w, c) PROVE RowInv'
  <2>1. /\ c \in Campaigns /\ review[c] = "none" /\ c \notin dead /\ ~Listed(c) /\ Held(c)
    BY HeldByOne
  <2>2. request[c] = "pushed" /\ ~Held(c)' /\ \A x \in Workers : c \notin task'[x]
    BY <1>4, <2>1 DEF QueueInv, OnePlace, Held
  <2>3. /\ \A d \in Campaigns \ {c} : row'[d] = row[d] /\ review'[d] = review[d] /\ (d \in dead' <=> d \in dead)
        /\ hit' = hit /\ task[w] \subseteq {c}
    BY <1>7, <2>1, HeldByOne DEF QueueInv, TypeOK, Settle, Bury
  <2>4. ASSUME NEW d \in Campaigns \ {c} PROVE Reviewed(d)' /\ Shown(d)' /\ AtTheGate(d)'
    <3>1. Held(d)' <=> Held(d)
      BY <1>3, <2>3
    <3>2. Reviewed(d)'
      BY <1>1, <1>3, <2>3, <3>1 DEF RowInv, Reviewed, Resuming
    <3>3. Shown(d)'
      BY <1>1, <1>3, <1>5, <2>3, <3>1 DEF RowInv, Shown
    <3>4. AtTheGate(d)'
      BY <1>1, <1>5, <2>3 DEF RowInv, AtTheGate, Resuming
    <3> QED BY <3>2, <3>3, <3>4
  <2>5. CASE Settle(w, c)
    <3>1. /\ row'[c] = IF at[w] = "paused" THEN "awaiting_review" ELSE "failed"
          /\ review'[c] = IF at[w] = "paused" THEN "open" ELSE "none"
          /\ dead' = dead
      BY <2>1, <2>5 DEF QueueInv, TypeOK, Settle
    <3>2. Reviewed(c)' /\ Shown(c)'
      BY <1>1, <1>3, <2>1, <2>2, <3>1 DEF RowInv, Reviewed, Resuming, Shown
    <3>3. AtTheGate(c)'
      BY <1>1, <2>1, <2>2, <3>1 DEF RowInv, AtTheGate, Resuming
    <3> QED BY <2>4, <3>2, <3>3 DEF RowInv
  <2>6. CASE Bury(w, c)
    <3>1. UNCHANGED <<row, review, hit>> /\ at[w] = "raised"
      BY <2>6 DEF Bury
    <3>2. Reviewed(c)'
      BY <1>1, <2>1, <3>1 DEF RowInv, Reviewed, Resuming
    <3>3. Shown(c)'
      BY <2>1, <2>2, <3>1 DEF RowInv, Shown
    <3>4. AtTheGate(c)'
      BY <1>1, <2>1, <2>2, <3>1 DEF RowInv, AtTheGate, Resuming
    <3> QED BY <2>4, <3>2, <3>3, <3>4 DEF RowInv
  <2> QED BY <1>7, <2>5, <2>6
<1> QED BY <1>6, <1>7

LEMMA PopKeepsRow ==
  ASSUME QueueInv, RowInv, NEW w \in Workers, Pop(w) PROVE RowInv'
<1> DEFINE c == Head(list)
<1>1. c \in Campaigns /\ \A d \in Campaigns : Listed(d) <=> d = c \/ Listed(d)'
  BY PoppedList DEF QueueInv, TypeOK, Pop
<1>2. PICK k \in Campaigns : k = c
  BY <1>1
<1>3. /\ task[w] = {} /\ task' = [task EXCEPT ![w] = {k}] /\ at'[w] = "popped"
      /\ \A x \in Workers \ {w} : at'[x] = at[x]
      /\ UNCHANGED <<row, request, dead, thread, review, reran, run, overlapped, hit>>
  BY <1>2 DEF QueueInv, TypeOK, OneTask, Pop, resuming
<1>4. \A d \in Campaigns : Held(d)' <=> d = k \/ Held(d)
  BY <1>3 DEF QueueInv, TypeOK, Held
<1>5. \A d \in Campaigns, x \in Workers : d \in task'[x] => at'[x] = "popped" \/ (d \in task[x] /\ at'[x] = at[x])
  BY <1>3 DEF QueueInv, TypeOK
<1> HIDE DEF c
<1>6. \A d \in Campaigns : Reviewed(d)'
  BY <1>1, <1>2, <1>3, <1>4 DEF RowInv, Reviewed, Resuming
<1>7. \A d \in Campaigns : Shown(d)'
  BY <1>1, <1>2, <1>3, <1>4, <1>5 DEF RowInv, Shown
<1>8. \A d \in Campaigns : AtTheGate(d)'
  BY <1>3, <1>5 DEF RowInv, AtTheGate, Resuming
<1> QED BY <1>6, <1>7, <1>8 DEF RowInv

LEMMA RequestKeepsRow ==
  ASSUME QueueInv, RowInv, NEW c \in Campaigns, Create(c) \/ Enqueue(c) \/ EnqueueFails(c)
  PROVE RowInv'
<1>1. UNCHANGED <<dead, at, task, thread, review, reran, run, overlapped>> /\ request[c] # "pushed" /\ hit \subseteq hit'
  BY DEF QueueInv, TypeOK, Create, Enqueue, EnqueueFails, Fault, resuming
<1>2. ~Listed(c) /\ ~Held(c) /\ c \notin dead /\ review[c] = "none"
  BY <1>1 DEF QueueInv, TypeOK, OnePlace, RowInv, Reviewed, Resuming
<1>3. \A d \in Campaigns : Held(d)' <=> Held(d)
  BY <1>1 DEF Held
<1>4. \A d \in Campaigns \ {c} : row'[d] = row[d] /\ request'[d] = request[d] /\ (Listed(d)' <=> Listed(d))
  <2>1. CASE Enqueue(c)
    <3>1. \A d \in Campaigns : Listed(d)' <=> d = c \/ Listed(d)
      BY <1>2, <2>1, PushedList DEF QueueInv, TypeOK, Enqueue
    <3> QED BY <2>1, <3>1 DEF QueueInv, TypeOK, Enqueue
  <2>2. CASE Create(c) \/ EnqueueFails(c)
    BY <2>2 DEF QueueInv, TypeOK, Create, EnqueueFails, Listed
  <2> QED BY <2>1, <2>2
<1>5. c \notin hit' => request'[c] = "committed" \/ Listed(c)'
  <2>1. CASE Enqueue(c)
    BY <1>2, <2>1, PushedList DEF QueueInv, TypeOK, Enqueue
  <2>2. CASE Create(c)
    BY <2>2 DEF QueueInv, TypeOK, Create
  <2>3. CASE EnqueueFails(c)
    BY <2>3 DEF EnqueueFails, Fault
  <2> QED BY <2>1, <2>2, <2>3
<1>7. \A x \in Workers : c \notin task'[x]
  BY <1>1, <1>2 DEF Held
<1>8. ASSUME NEW d \in Campaigns \ {c} PROVE Reviewed(d)' /\ Shown(d)' /\ AtTheGate(d)'
  BY <1>1, <1>3, <1>4 DEF RowInv, Reviewed, Shown, AtTheGate, Resuming
<1>9. Reviewed(c)' /\ Shown(c)'
  BY <1>1, <1>2, <1>5, <1>7 DEF RowInv, Reviewed, Resuming, Shown
<1>10. AtTheGate(c)'
  BY <1>1, <1>2, <1>7 DEF RowInv, AtTheGate, Resuming
<1> QED BY <1>8, <1>9, <1>10 DEF RowInv

LEMMA OthersKeepRow ==
  ASSUME QueueInv, RowInv, NEW c \in Campaigns, Approve(c) \/ Rerun(c)
  PROVE RowInv'
<1>1. UNCHANGED <<request, list, dead, at, task, review, run, overlapped, hit>> /\ reran \subseteq reran'
  BY DEF Approve, Rerun, resuming
<1>2. \A d \in Campaigns : (Listed(d)' <=> Listed(d)) /\ (Held(d)' <=> Held(d))
  BY <1>1 DEF Listed, Held
<1>3. \A d \in Campaigns \ {c} : row'[d] = row[d] /\ thread'[d] = thread[d] /\ (d \in reran' <=> d \in reran)
  BY DEF QueueInv, TypeOK, Approve, Rerun
<1>4. ASSUME NEW d \in Campaigns \ {c} PROVE Reviewed(d)' /\ Shown(d)' /\ AtTheGate(d)'
  BY <1>1, <1>2, <1>3 DEF RowInv, Reviewed, Shown, AtTheGate, Resuming
<1>5. Reviewed(c) /\ Shown(c) /\ AtTheGate(c)
  BY DEF RowInv
<1>6. CASE Approve(c)
  <2>1. row[c] \in {"awaiting_review", "running"} /\ row'[c] \in {"published", "cancelled"}
        /\ UNCHANGED <<thread, reran>>
    BY <1>6 DEF QueueInv, TypeOK, Approve
  <2> QED BY <1>1, <1>2, <1>4, <1>5, <2>1 DEF RowInv, Reviewed, Shown, AtTheGate, Resuming
<1>7. CASE Rerun(c)
  <2>1. row' = row /\ c \in reran'
    BY <1>7 DEF Rerun
  <2> QED BY <1>1, <1>2, <1>4, <1>5, <2>1 DEF RowInv, Reviewed, Resuming, Shown, AtTheGate
<1> QED BY <1>6, <1>7

\* A resume: with one at a time, who starts it finds the last batch decided, and only
\* its own pause opens the next one.
LEMMA ResumeKeepsRow ==
  ASSUME QueueInv, RowInv, NEW d \in Decisions, Resume(d) PROVE RowInv'
<1> DEFINE k == CampaignOf[d]
<1>1. PICK c \in Campaigns : c = k
  BY DecisionsAreOnCampaigns
<1>2. UNCHANGED <<request, list, dead, at, task, reran, hit>> /\ overlapped \subseteq overlapped'
  BY DEF Resume, ResumeStarts, ResumeGraph, ResumeSettles, ResumeRaises
<1>3. \A b \in Campaigns : (Listed(b)' <=> Listed(b)) /\ (Held(b)' <=> Held(b))
  BY <1>2 DEF Listed, Held
<1>4. \A b \in Campaigns \ {c} :
        row'[b] = row[b] /\ thread'[b] = thread[b] /\ review'[b] = review[b]
  BY <1>1 DEF QueueInv, TypeOK, Resume, ResumeStarts, ResumeGraph, ResumeSettles, ResumeRaises
<1>5. \A b \in Campaigns \ {c} : b \in overlapped' <=> b \in overlapped
  BY <1>1 DEF Resume, ResumeStarts, ResumeGraph, ResumeSettles, ResumeRaises
<1>6. \A e \in Decisions \ {d} : run'[e] = run[e]
  BY DEF QueueInv, TypeOK, Resume, ResumeStarts, ResumeGraph, ResumeSettles, ResumeRaises, ResumeOver
<1>7. Reviewed(c) /\ Shown(c) /\ AtTheGate(c)
  BY DEF RowInv
<1>8. ASSUME NEW b \in Campaigns \ {c} PROVE Reviewed(b)' /\ Shown(b)' /\ AtTheGate(b)'
  <2>1. Reviewed(b)' /\ Shown(b)'
    BY <1>1, <1>2, <1>3, <1>4, <1>6 DEF RowInv, Reviewed, Resuming, Shown
  <2>2. AtTheGate(b)'
    BY <1>1, <1>2, <1>4, <1>5, <1>6 DEF RowInv, AtTheGate, Resuming
  <2> QED BY <2>1, <2>2
<1>9. Reviewed(c)' /\ Shown(c)' /\ AtTheGate(c)'
  <2>1. CASE ResumeStarts(d, k)
    <3>1. /\ review[c] \in {"open", "decided"} /\ review'[c] = "decided" /\ UNCHANGED <<row, thread>>
          /\ run'[d] = "called"
      BY <1>1, <2>1 DEF QueueInv, TypeOK, ResumeStarts
    <3>2. c \notin overlapped' => \A e \in Decisions : CampaignOf[e] = c => ~Resuming(e)
      BY <1>1, <2>1 DEF ResumeStarts
    <3>3. Reviewed(c)' /\ Shown(c)'
      BY <1>2, <1>3, <1>7, <3>1 DEF Reviewed, Resuming, Shown
    <3>4. \A w \in Workers : c \notin task'[w]
      BY <1>2, <1>7, <3>1 DEF Reviewed, Resuming, Held
    <3>5. AtTheGate(c)'
      BY <1>2, <1>6, <3>1, <3>2, <3>4 DEF AtTheGate, Resuming
    <3> QED BY <3>3, <3>5
  <2>2. CASE ResumeGraph(d, k)
    <3>1. /\ Resuming(d) /\ UNCHANGED <<row, review, overlapped>>
          /\ run'[d] = "paused" => thread'[c] = "gate"
      BY <1>1, <2>2 DEF QueueInv, TypeOK, ResumeGraph, Resuming
    <3>2. c \notin reran' \union overlapped' => review[c] = "decided"
      BY <1>1, <1>2, <1>7, <3>1 DEF AtTheGate
    <3>3. Reviewed(c)' /\ Shown(c)'
      BY <1>1, <1>2, <1>3, <1>6, <1>7, <3>1 DEF Reviewed, Resuming, Shown
    <3>4. \A w \in Workers : c \notin task'[w]
      BY <1>1, <1>2, <1>7, <3>1 DEF Reviewed, Resuming, Held
    <3>5. AtTheGate(c)'
      BY <1>1, <1>2, <1>6, <1>7, <3>1, <3>2, <3>4 DEF AtTheGate, Resuming
    <3> QED BY <3>3, <3>5
  <2>3. CASE ResumeSettles(d, k)
    <3>1. /\ Resuming(d) /\ UNCHANGED <<thread, overlapped>> /\ run'[d] = "over"
          /\ row'[c] \in {"published", "failed", "awaiting_review"}
          /\ review'[c] = review[c] \/ (review'[c] = "open" /\ run[d] = "paused")
      BY <1>1, <2>3 DEF QueueInv, TypeOK, ResumeSettles, ResumeOver, Resuming
    <3>2. /\ review'[c] # "none" /\ c \notin dead
          /\ \A w \in Workers : c \notin task'[w]
      BY <1>1, <1>2, <1>7, <3>1 DEF Reviewed, Resuming, Held
    <3>3. Reviewed(c)'
      BY <1>1, <1>2, <1>3, <1>7, <3>1, <3>2 DEF Reviewed, Resuming
    <3>4. Shown(c)'
      BY <1>2, <3>1, <3>2 DEF Shown
    <3>5. AtTheGate(c)'
      BY <1>1, <1>2, <1>6, <1>7, <3>1, <3>2 DEF AtTheGate, Resuming
    <3> QED BY <3>3, <3>4, <3>5
  <2>4. CASE ResumeRaises(d)
    <3>1. UNCHANGED <<row, thread, review, overlapped>> /\ run'[d] = "over"
      BY <2>4 DEF QueueInv, TypeOK, ResumeRaises, ResumeOver
    <3> QED BY <1>2, <1>3, <1>6, <1>7, <3>1 DEF Reviewed, Shown, AtTheGate, Resuming
  <2> QED BY <2>1, <2>2, <2>3, <2>4 DEF Resume
<1> QED BY <1>8, <1>9 DEF RowInv

LEMMA StepKeepsRow == ASSUME QueueInv, RowInv, [Next]_vars PROVE RowInv'
<1>1. CASE UNCHANGED vars
  BY <1>1 DEF vars, resuming, RowInv, Reviewed, Shown, AtTheGate, Resuming, Listed, Held
<1>2. ASSUME NEW w \in Workers, WorkerStep(w) \/ WorkerFault(w) \/ Restart(w) PROVE RowInv'
  <2>1. CASE Restart(w)
    <3>1. UNCHANGED <<row, request, list, dead, task, thread, review, run, overlapped, reran, hit>>
      BY <2>1 DEF Restart, resuming
    <3>2. \A x \in Workers : at'[x] = at[x] \/ at'[x] = "polling"
      BY <2>1 DEF QueueInv, TypeOK, Restart
    <3> QED BY <3>1, <3>2 DEF RowInv, Reviewed, Shown, AtTheGate, Resuming, Listed, Held
  <2> QED BY <1>2, <2>1, RunKeepsRow, DropKeepsRow, PopKeepsRow DEF WorkerStep, WorkerFault
<1>3. CASE Next
  BY <1>2, <1>3, RequestKeepsRow, OthersKeepRow, ResumeKeepsRow DEF Next, Resume
<1> QED BY <1>1, <1>3

LEMMA RowInvariant == Spec => [](QueueInv /\ RowInv)
<1>1. Init => QueueInv /\ RowInv
  <2> SUFFICES ASSUME Init PROVE RowInv
    BY InitQueue
  <2> QED BY DEF Init, RowInv, Reviewed, Resuming, Shown, AtTheGate
<1>2. QueueInv /\ RowInv /\ [Next]_vars => QueueInv' /\ RowInv'
  BY StepKeeps, StepKeepsRow
<1> QED BY <1>1, <1>2, PTL DEF Spec

\* A campaign the API shows as queued or running is on its way unless a fault that
\* nobody handles hit its task, and what is on the dead letter list is failed.
THEOREM OrphansAreFaults == Spec => []OrphanedOnlyByFault
<1>1. RowInv => OrphanedOnlyByFault
  BY DEF RowInv, Shown, OrphanedOnlyByFault
<1> QED BY <1>1, RowInvariant, PTL

\* A review that is still to decide finds the thread of its campaign at the gate, however
\* many rounds were resumed and wherever one of them raised (resume_campaign), unless the
\* campaign was rerun or resumed twice at once.
THEOREM ReviewersFindTheGate == Spec => []WaitingIsAtTheGate
<1>1. RowInv => WaitingIsAtTheGate
  BY DEF RowInv, AtTheGate, WaitingIsAtTheGate
<1> QED BY <1>1, RowInvariant, PTL
=============================================================================
