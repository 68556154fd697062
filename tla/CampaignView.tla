--------------------------- MODULE CampaignView ---------------------------
(***************************************************************************)
(* A browser's view of a campaign: the cost banner, fed by the live events    *)
(* of LlmCalls' calls over Redis and SSE and by the totals in the answers of   *)
(* the chat, and the replay of the run's history, read page by page while the  *)
(* history grows. What an event says of a variant is left out.                 *)
(***************************************************************************)
EXTENDS LlmCalls, Integers, SequencesExt

CONSTANTS
  Parts,                     \* bound: which of the calls and the run go on in one behaviour
  MaxSteps,                  \* bound on the events of the history
  FirstPage, OlderPage       \* the sizes of the pages

ASSUME PagesAreNumbers == MaxSteps \in Nat /\ FirstPage \in Nat \ {0} /\ OlderPage \in Nat \ {0}

VARIABLES
  parts,      \* those of Parts that go on
  online,     \* the stream of the browser is open
  line,       \* the events that are on their way to the browser
  banner,     \* how many times the banner counts each call
  turn,       \* the total in the answer of a turn that is on its way
  missed,     \* history: calls whose event did not reach the banner
  overtaken,  \* history: calls whose event came after a total that has them
  steps,      \* the number of events that the history of the run has
  shown,      \* the events of the history that the browser shows
  cursor,     \* replayCursor, 0 for null
  older,      \* the cursor of the request for older events, 0 for none
  crossed,    \* history: the latest page was read again while that was under way
  mixed       \* history: an answer to a request so crossed is among the events shown

bannerVars == <<online, line, banner, turn, missed, overtaken>>
replayVars == <<steps, shown, cursor, older, crossed, mixed>>
vars == <<parts, callVars, bannerVars, replayVars>>

NoTurn == [asked |-> FALSE, total |-> {}]

Init ==
  /\ InitCalls
  /\ parts \in Parts
  /\ online = FALSE
  /\ line = <<>>
  /\ banner = [c \in Calls |-> 0]
  /\ turn = NoTurn
  /\ missed = {}
  /\ overtaken = {}
  /\ steps = 0
  /\ shown = <<>>
  /\ cursor = 0
  /\ older = 0
  /\ crossed = FALSE
  /\ mixed = FALSE

-----------------------------------------------------------------------------
(* The banner.                                                                *)

\* Redis keeps nothing for a browser that is not there, and an event it does not
\* take is dropped.
Announce(c) ==
  /\ Publish(c)
  /\ \/ online /\ line' = Append(line, c) /\ UNCHANGED missed
     \/ missed' = missed \union {c} /\ UNCHANGED line
  /\ UNCHANGED <<parts, online, banner, turn, overtaken, replayVars>>

ProcessDies(c) ==
  /\ Dies(c)
  /\ missed' = missed \union {c}
  /\ UNCHANGED <<parts, online, line, banner, turn, overtaken, replayVars>>

\* React may render several events at once, and the effect looks at the newest
\* one only, which may also be an event of another phase.
Render(n, newest) ==
  /\ n <= Len(line)
  /\ line' = SubSeq(line, n + 1, Len(line))
  /\ banner' = IF newest THEN [banner EXCEPT ![line[n]] = @ + 1] ELSE banner
  /\ missed' = missed \union {line[i] : i \in 1 .. IF newest THEN n - 1 ELSE n}
  /\ UNCHANGED <<parts, online, turn, overtaken, callVars, replayVars>>

Connect ==
  /\ ~online
  /\ online' = TRUE
  /\ UNCHANGED <<parts, line, banner, turn, missed, overtaken, callVars, replayVars>>

Disconnect ==
  /\ online
  /\ online' = FALSE
  /\ line' = <<>>
  /\ missed' = missed \union ToSet(line)
  /\ UNCHANGED <<parts, banner, turn, overtaken, callVars, replayVars>>

Paid == {r.call : r \in rows}

\* _fetch_campaign_token_usage; zeros when it fails.
ReadTotal ==
  /\ ~turn.asked
  /\ \E total \in {Paid, {}} : turn' = [asked |-> TRUE, total |-> total]
  /\ UNCHANGED <<parts, online, line, banner, missed, overtaken, callVars, replayVars>>

OnTheWay == ToSet(line) \union {c \in Calls : call[c].at = "publish"}

\* The total replaces what the banner has.
TotalArrives ==
  /\ turn.asked
  /\ turn' = NoTurn
  /\ banner' = [c \in Calls |-> IF c \in turn.total THEN 1 ELSE 0]
  /\ missed' = (Paid \ turn.total) \ OnTheWay
  /\ overtaken' = turn.total \intersect OnTheWay
  /\ UNCHANGED <<parts, online, line, callVars, replayVars>>

-----------------------------------------------------------------------------
(* The replay. An event of the history is its place in it; the checkpoints,    *)
(* and so the events with their ids, are only ever added to.                   *)

Checkpoint(agents) ==
  /\ "run" \in parts
  /\ steps + agents <= MaxSteps
  /\ steps' = steps + agents
  /\ UNCHANGED <<parts, shown, cursor, older, crossed, mixed, callVars, bannerVars>>

Larger(a, b) == IF a > b THEN a ELSE b
NoPage(found) == [first |-> 1, last |-> 0, more |-> FALSE, found |-> found]

\* Mutant: the page ends with the event the cursor names.
WindowWithCursor(n, limit, before) ==
  IF n = 0 \/ before > n THEN NoPage(before = 0)
  ELSE LET last == IF before = 0 THEN n ELSE before
       IN [first |-> Larger(1, last - limit + 1), last |-> last, more |-> last > limit, found |-> TRUE]

\* _window_replay_events of n events.
Window(n, limit, before) ==
  IF n = 0 \/ before > n THEN NoPage(before = 0)
  ELSE LET last == IF before = 0 THEN n ELSE before - 1
       IN [first |-> Larger(1, last - limit + 1), last |-> last, more |-> last > limit, found |-> TRUE]

Page(w) == [i \in 1 .. w.last + 1 - w.first |-> w.first + i - 1]
CursorOf(w) == IF w.more THEN w.first ELSE 0

\* The history as far as it can be read: all of it, or nothing.
Readable == {steps, 0}

\* On opening the campaign and after a rerun.
LoadLatest ==
  /\ \E n \in Readable :
       LET w == Window(n, FirstPage, 0) IN shown' = Page(w) /\ cursor' = CursorOf(w)
  /\ crossed' = (older # 0)
  /\ mixed' = FALSE
  /\ UNCHANGED <<parts, steps, older, callVars, bannerVars>>

AskOlder ==
  /\ cursor # 0
  /\ older = 0
  /\ older' = cursor
  /\ UNCHANGED <<parts, steps, shown, cursor, crossed, mixed, callVars, bannerVars>>

\* A cursor that is not found starts again with the latest page.
OlderArrives ==
  /\ older # 0
  /\ older' = 0
  /\ crossed' = FALSE
  /\ \E n \in Readable :
       LET w == Window(n, OlderPage, older) IN
         IF w.found
           THEN shown' = Page(w) \o shown /\ cursor' = CursorOf(w) /\ mixed' = (mixed \/ crossed)
           ELSE \E m \in Readable :
                  LET latest == Window(m, FirstPage, 0) IN
                    shown' = Page(latest) /\ cursor' = CursorOf(latest) /\ mixed' = FALSE
  /\ UNCHANGED <<parts, steps, callVars, bannerVars>>

OlderFails ==
  /\ older # 0
  /\ older' = 0
  /\ crossed' = FALSE
  /\ UNCHANGED <<parts, steps, shown, cursor, mixed, callVars, bannerVars>>

\* The page is loaded anew.
Reload ==
  /\ online' = FALSE
  /\ line' = <<>>
  /\ banner' = [c \in Calls |-> 0]
  /\ turn' = NoTurn
  /\ missed' = Paid \ {c \in Calls : call[c].at = "publish"}
  /\ overtaken' = {}
  /\ shown' = <<>>
  /\ cursor' = 0
  /\ older' = 0
  /\ crossed' = FALSE
  /\ mixed' = FALSE
  /\ UNCHANGED <<parts, steps, callVars>>

-----------------------------------------------------------------------------

Next ==
  \/ \E c \in Calls : CallSteps(c) /\ "calls" \in parts /\ UNCHANGED <<parts, bannerVars, replayVars>>
  \/ \E c \in Calls : Announce(c) \/ ProcessDies(c)
  \/ \E n \in 1 .. Cardinality(Calls), newest \in BOOLEAN : Render(n, newest)
  \/ Connect \/ Disconnect \/ ReadTotal \/ TotalArrives
  \/ \E agents \in 1 .. 2 : Checkpoint(agents)
  \/ LoadLatest \/ AskOlder \/ OlderArrives \/ OlderFails
  \/ Reload

Spec == Init /\ [][Next]_vars

-----------------------------------------------------------------------------

TypeOK ==
  /\ CallsTypeOK /\ parts \in Parts
  /\ online \in BOOLEAN
  /\ Len(line) <= Cardinality(Calls) /\ ToSet(line) \subseteq Calls
  /\ banner \in [Calls -> 0 .. 2]
  /\ turn \in [asked : BOOLEAN, total : SUBSET Calls]
  /\ missed \subseteq Calls /\ overtaken \subseteq Calls
  /\ steps \in 0 .. MaxSteps
  /\ ToSet(shown) \subseteq 1 .. steps
  /\ cursor \in 0 .. steps /\ older \in 0 .. steps
  /\ crossed \in BOOLEAN /\ mixed \in BOOLEAN

\* The banner counts every call that is paid for once, except one whose event is
\* on its way, was lost since the last total, or was overtaken by it.
BannerIsRight ==
  \A c \in Calls \ (OnTheWay \union missed \union overtaken) : banner[c] = Cardinality(RowsOf(c))

\* What the browser shows of the history has no gap and no event twice while the
\* history grows, and it goes back to the first event when there is no older page
\* to ask for; only a page asked for before the latest one was read again may
\* break that, until the latest is read once more.
ReplayIsContiguous ==
  ~mixed =>
    /\ \A i \in 1 .. Len(shown) - 1 : shown[i + 1] = shown[i] + 1
    /\ shown # <<>> => shown[1] = Larger(cursor, 1)
=============================================================================
