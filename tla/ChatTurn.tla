------------------------------ MODULE ChatTurn ------------------------------
(***************************************************************************)
(* The turns of one conversation: the WebSocket handler of conversations.py *)
(* with its Redis lock, the session in Postgres and its copy in Redis       *)
(* (session_manager), and the gate that starts a campaign. Each socket has  *)
(* one turn at a time; a client that comes back while its old handler is    *)
(* still at work is another socket.                                         *)
(***************************************************************************)
EXTENDS ChatBrief, FiniteSets

CONSTANTS
  Sockets,
  Messages,     \* what a client may send, and what an LLM may make of it
  MaxMessages,  \* bound on the messages of a behaviour
  MaxFaults     \* bound on the kinds of fault of a behaviour

VARIABLES
  db,         \* the row of conversations
  cache,      \* the copies of it in Redis: none or one
  lock,       \* is lock:conversation:<id> there? Its value does not say whose it is
  turn,       \* the handler of each socket
  campaigns,  \* the campaigns this conversation started, in order
  messages,   \* number of messages received
  faults,     \* the kinds of fault and of timeout that have happened
  stale,      \* history: a session was outdated when it was cached or its turn began
  edited,     \* history: the brief with every patch that was written
  shown,      \* history: the briefs played back to the user
  slipped     \* history: a question changed the brief that awaits the confirmation

vars == <<db, cache, lock, turn, campaigns, messages, faults, stale, edited, shown, slipped>>

ASSUME BoundsAreNumbers == MaxMessages \in Nat /\ MaxFaults \in Nat
ASSUME MessagesAreMessages == \A m \in Messages : m \in MessageTypes

NewSession == [brief |-> Nothing, status |-> "collecting", active |-> 0, campaigns |-> {}]

Silence == [run |-> FALSE, yes |-> FALSE, recap |-> FALSE, greets |-> FALSE, bare |-> FALSE, review |-> FALSE,
            intent |-> "other", found |-> Nothing, patch |-> Nothing, confidence |-> Nothing]

Idle == [at |-> "idle", said |-> Silence, seen |-> NewSession,
         heard |-> Misunderstood, brief |-> Nothing, gate |-> "pass", job |-> "brief", mine |-> 0,
         copy |-> NewSession, reply |-> Says("none")]

BeforeLock == {"idle", "fill", "ready"}
UnderLock == {"acked", "written", "patch", "gate", "attach", "compose", "release"}
InTurn(s) == turn[s].at \in UnderLock

\* create writes the row and caches it; that it fails to is CacheExpires.
Init ==
  /\ db = NewSession
  /\ cache = {NewSession}
  /\ lock = FALSE
  /\ turn = [s \in Sockets |-> Idle]
  /\ campaigns = <<>>
  /\ messages = 0
  /\ faults = {}
  /\ stale = FALSE
  /\ edited = Nothing
  /\ shown = {}
  /\ slipped = FALSE

Fault(kind) ==
  /\ kind \notin faults
  /\ Cardinality(faults) < MaxFaults
  /\ faults' = faults \union {kind}

\* The turn is over but for the finally of its handler.
Finish(s, reply) ==
  turn' = [turn EXCEPT ![s] = [Idle EXCEPT !.at = "release", !.gate = turn[s].gate, !.reply = reply]]

-----------------------------------------------------------------------------
(* Before the lock. A message that is empty, or whose user or conversation    *)
(* is not found, changes nothing.                                             *)

\* The session is the copy, or the row where there is no copy.
Receive(s, m) ==
  /\ turn[s].at = "idle"
  /\ messages < MaxMessages
  /\ messages' = messages + 1
  /\ \/ \E copy \in cache : turn' = [turn EXCEPT ![s].at = "ready", ![s].said = m, ![s].seen = copy]
     \/ cache = {} /\ turn' = [turn EXCEPT ![s].at = "fill", ![s].said = m, ![s].seen = db]
  /\ UNCHANGED <<db, cache, lock, campaigns, faults, stale, edited, shown, slipped>>

Fill(s) ==
  /\ turn[s].at = "fill"
  /\ cache' = {turn[s].seen}
  /\ stale' = (stale \/ turn[s].seen # db)
  /\ turn' = [turn EXCEPT ![s].at = "ready"]
  /\ UNCHANGED <<db, lock, campaigns, messages, faults, edited, shown, slipped>>

Acquire(s) ==
  /\ turn[s].at = "ready"
  /\ ~lock
  /\ lock' = TRUE
  /\ stale' = (stale \/ turn[s].seen # db)
  /\ turn' = [turn EXCEPT ![s].at = "acked"]
  /\ UNCHANGED <<db, cache, campaigns, messages, faults, edited, shown, slipped>>

\* Mutant: the busy path goes through the finally of the turn.
BusyReleases(s) ==
  /\ turn[s].at = "ready"
  /\ lock
  /\ lock' = FALSE
  /\ turn' = [turn EXCEPT ![s] = Idle]
  /\ UNCHANGED <<db, cache, campaigns, messages, faults, stale, edited, shown, slipped>>

Busy(s) ==
  /\ turn[s].at = "ready"
  /\ lock
  /\ turn' = [turn EXCEPT ![s] = Idle]
  /\ UNCHANGED <<db, cache, lock, campaigns, messages, faults, stale, edited, shown, slipped>>

-----------------------------------------------------------------------------
(* The turn.                                                                 *)

\* A message the guardrail flags, and an action on a review card: the decision
\* is ReviewService's, and nothing of the session is used or changed.
AnswerOutright(s) ==
  /\ turn[s].at = "acked"
  /\ Finish(s, Says(IF turn[s].said.review THEN "decided" ELSE "error"))
  /\ UNCHANGED <<db, cache, lock, campaigns, messages, faults, stale, edited, shown, slipped>>

\* Each change of the session writes the row, gets the session again, changes
\* it and caches the result.
Changed(session, t) ==
  CASE t.job = "brief" -> [session EXCEPT !.brief = t.brief]
    [] t.job = "attach" -> [session EXCEPT !.active = t.mine, !.campaigns = @ \union {t.mine},
                                           !.status = "processing"]
    [] OTHER -> [session EXCEPT !.status = t.job]

\* Mutant: the row is written from the session of the turn.
WriteSession(s, t) ==
  /\ db' = Changed(t.seen, t)
  /\ turn' = [turn EXCEPT ![s] = [t EXCEPT !.at = "written"]]

Write(s, t) ==
  /\ db' = Changed(db, t)
  /\ turn' = [turn EXCEPT ![s] = [t EXCEPT !.at = "written"]]

\* The user's message is stored; the brief that is patched is the session's.
Understand(s) ==
  /\ turn[s].at = "acked"
  /\ ~turn[s].said.review
  /\ \E heard \in Understandings(turn[s].said) :
       /\ Write(s, [turn[s] EXCEPT !.heard = heard, !.job = "brief",
                                   !.brief = Merge(turn[s].seen.brief, heard.patch)])
       /\ edited' = Merge(edited, heard.patch)
  /\ UNCHANGED <<cache, lock, campaigns, messages, faults, stale, shown, slipped>>

\* Without a copy the row is read, and cached before it is changed and cached.
GetAgain(s) ==
  /\ turn[s].at = "written"
  /\ \E copy \in (IF cache = {} THEN {db} ELSE cache) :
       turn' = [turn EXCEPT ![s].at = "patch", ![s].copy = copy]
  /\ UNCHANGED <<db, cache, lock, campaigns, messages, faults, stale, edited, shown, slipped>>

AfterPatch(s) == [turn EXCEPT ![s].at = IF turn[s].job = "brief" THEN "gate" ELSE "compose",
                              ![s].copy = NewSession]

\* Mutant: what was got again is cached as it is.
PatchNothing(s) ==
  /\ turn[s].at = "patch"
  /\ cache' = {turn[s].copy}
  /\ turn' = AfterPatch(s)
  /\ UNCHANGED <<db, lock, campaigns, messages, faults, stale, edited, shown, slipped>>

Patch(s) ==
  /\ turn[s].at = "patch"
  /\ cache' = {Changed(turn[s].copy, turn[s])}
  /\ turn' = AfterPatch(s)
  /\ UNCHANGED <<db, lock, campaigns, messages, faults, stale, edited, shown, slipped>>

\* _cache_set swallows the errors of Redis: the copy that is there stays.
CacheSetFails(s) ==
  /\ turn[s].at \in {"fill", "patch"}
  /\ turn' = IF turn[s].at = "patch" THEN AfterPatch(s) ELSE [turn EXCEPT ![s].at = "ready"]
  /\ Fault("cache")
  /\ UNCHANGED <<db, cache, lock, campaigns, messages, stale, edited, shown, slipped>>

GateOf(s) == Gate(turn[s].seen, turn[s].said, turn[s].heard, turn[s].brief)

\* The row of the campaign and its task (CampaignQueue), before the session
\* knows of it.
StartCampaign(s) ==
  /\ turn[s].at = "gate"
  /\ GateOf(s) = "run"
  /\ LET heard == turn[s].heard
         asked == ExplicitRun(turn[s].said, heard) \/ heard.patch # Nothing
     IN campaigns' = Append(campaigns, [brief |-> turn[s].brief, asked |-> asked])
  /\ turn' = [turn EXCEPT ![s].at = "attach", ![s].gate = "run", ![s].mine = Len(campaigns) + 1]
  /\ UNCHANGED <<db, cache, lock, messages, faults, stale, edited, shown, slipped>>

\* Mutant: the campaign is not attached, the session only marked.
AttachStatus(s) ==
  /\ turn[s].at = "attach"
  /\ Write(s, [turn[s] EXCEPT !.job = "processing"])
  /\ UNCHANGED <<cache, lock, campaigns, messages, faults, stale, edited, shown, slipped>>

Attach(s) ==
  /\ turn[s].at = "attach"
  /\ Write(s, [turn[s] EXCEPT !.job = "attach"])
  /\ UNCHANGED <<cache, lock, campaigns, messages, faults, stale, edited, shown, slipped>>

\* Mutant: the status is written under a name of its own.
PlayBackRenamed(s) ==
  /\ turn[s].at = "gate"
  /\ GateOf(s) = "playback"
  /\ Write(s, [turn[s] EXCEPT !.gate = "playback", !.job = "confirming"])
  /\ UNCHANGED <<cache, lock, campaigns, messages, faults, stale, edited, shown, slipped>>

\* The status is written when the session does not have it.
PlayBack(s) ==
  /\ turn[s].at = "gate"
  /\ GateOf(s) = "playback"
  /\ IF turn[s].seen.status = "awaiting_confirmation"
       THEN turn' = [turn EXCEPT ![s].at = "compose", ![s].gate = "playback"] /\ UNCHANGED db
       ELSE Write(s, [turn[s] EXCEPT !.gate = "playback", !.job = "awaiting_confirmation"])
  /\ UNCHANGED <<cache, lock, campaigns, messages, faults, stale, edited, shown, slipped>>

\* An edit made the brief incomplete again.
CollectAgain(s) ==
  /\ turn[s].at = "gate"
  /\ GateOf(s) = "collect"
  /\ Write(s, [turn[s] EXCEPT !.job = "collecting"])
  /\ UNCHANGED <<cache, lock, campaigns, messages, faults, stale, edited, shown, slipped>>

\* The brief as the turn has left it waits for the yes to the one played back.
PassGate(s) ==
  /\ turn[s].at = "gate"
  /\ GateOf(s) = "pass"
  /\ turn' = [turn EXCEPT ![s].at = "compose"]
  /\ slipped' = (slipped \/ (turn[s].seen.status = "awaiting_confirmation"
                              /\ turn[s].brief # turn[s].seen.brief))
  /\ UNCHANGED <<db, cache, lock, campaigns, messages, faults, stale, edited, shown>>

Compose(s) ==
  /\ turn[s].at = "compose"
  /\ \E reply \in Replies(turn[s].gate, turn[s].seen, turn[s].said, turn[s].heard, turn[s].brief) :
       /\ Finish(s, reply)
       /\ shown' = IF reply.kind = "playback" THEN shown \union {turn[s].brief} ELSE shown
  /\ UNCHANGED <<db, cache, lock, campaigns, messages, faults, stale, edited, slipped>>

\* Mutant: the lock is left to its expiry when the turn came to an error.
ReleaseSometimes(s) ==
  /\ turn[s].at = "release"
  /\ lock' = (turn[s].reply.kind = "error")
  /\ turn' = [turn EXCEPT ![s] = IF lock' THEN turn[s] ELSE Idle]
  /\ UNCHANGED <<db, cache, campaigns, messages, faults, stale, edited, shown, slipped>>

\* The finally: whoever holds the lock by now, it is deleted.
Release(s) ==
  /\ turn[s].at = "release"
  /\ lock' = FALSE
  /\ turn' = [turn EXCEPT ![s] = Idle]
  /\ UNCHANGED <<db, cache, campaigns, messages, faults, stale, edited, shown, slipped>>

-----------------------------------------------------------------------------
(* Faults and timers.                                                        *)

\* An exception of Postgres or Redis: an error frame when it comes while the
\* turn is prepared and streaming is on, else the socket is closed.
Raise(s) ==
  /\ InTurn(s) /\ turn[s].at # "release"
  /\ Finish(s, Says("error"))
  /\ Fault("error")
  /\ UNCHANGED <<db, cache, lock, campaigns, messages, stale, edited, shown, slipped>>

\* A frame cannot be sent: the turn ends there.
Disconnect(s) ==
  /\ turn[s].at \in {"acked", "compose"}
  /\ Finish(s, Says("none"))
  /\ Fault("gone")
  /\ UNCHANGED <<db, cache, lock, campaigns, messages, stale, edited, shown, slipped>>

Crash(s) ==
  /\ InTurn(s)
  /\ turn' = [turn EXCEPT ![s] = Idle]
  /\ Fault("crash")
  /\ UNCHANGED <<db, cache, lock, campaigns, messages, stale, edited, shown, slipped>>

\* The 120 s are over.
ExpireAbandoned ==
  /\ lock
  /\ \A s \in Sockets : ~InTurn(s)
  /\ lock' = FALSE
  /\ UNCHANGED <<db, cache, turn, campaigns, messages, faults, stale, edited, shown, slipped>>

ExpireInTurn ==
  /\ lock
  /\ \E s \in Sockets : InTurn(s)
  /\ lock' = FALSE
  /\ Fault("expired")
  /\ UNCHANGED <<db, cache, turn, campaigns, messages, stale, edited, shown, slipped>>

\* The 600 s of the copy are over.
CacheExpires ==
  /\ cache # {}
  /\ cache' = {}
  /\ Fault("ttl")
  /\ UNCHANGED <<db, lock, turn, campaigns, messages, stale, edited, shown, slipped>>

-----------------------------------------------------------------------------

TurnStep(s) ==
  \/ AnswerOutright(s) \/ Understand(s)
  \/ GetAgain(s) \/ Patch(s)
  \/ StartCampaign(s) \/ Attach(s) \/ PlayBack(s) \/ CollectAgain(s) \/ PassGate(s)
  \/ Compose(s) \/ Release(s)

Next ==
  \/ \E s \in Sockets :
       \/ \E m \in Messages : Receive(s, m)
       \/ Fill(s) \/ Acquire(s) \/ Busy(s)
       \/ TurnStep(s)
       \/ CacheSetFails(s) \/ Raise(s) \/ Disconnect(s) \/ Crash(s)
  \/ ExpireAbandoned \/ ExpireInTurn \/ CacheExpires

Spec == Init /\ [][Next]_vars

\* A turn goes on: the LLM calls have timeouts, and an exception ends it. Redis
\* removes the keys whose time is over.
FairSpec ==
  /\ Spec
  /\ \A s \in Sockets : WF_vars(TurnStep(s))
  /\ WF_vars(ExpireAbandoned)

-----------------------------------------------------------------------------

Statuses == {"collecting", "awaiting_confirmation", "processing"}
Sessions(n) == [brief : Briefs, status : Statuses, active : 0 .. n, campaigns : SUBSET (1 .. n)]

\* The session and its copies are sessions of campaigns that were started.
TypeOK ==
  LET IsSession(x) == x \in Sessions(Len(campaigns))
  IN /\ IsSession(db)
     /\ \A copy \in cache : IsSession(copy)
     /\ lock \in BOOLEAN
     /\ \A s \in Sockets : turn[s].at \in BeforeLock \union UnderLock /\ IsSession(turn[s].seen)
     /\ messages \in 0 .. MaxMessages
     /\ faults \subseteq {"cache", "error", "gone", "crash", "expired", "ttl"}
     /\ stale \in BOOLEAN
     /\ edited \in Briefs
     /\ shown \subseteq Briefs
     /\ slipped \in BOOLEAN

Quiet == \A s \in Sockets : turn[s] = Idle

\* Two turns of the conversation never run at once, whoever comes, fails or
\* crashes, as long as no lock expires on a turn that is at work.
SerialUnlessExpired ==
  "expired" \notin faults => \A s, t \in Sockets : InTurn(s) /\ InTurn(t) => s = t

\* A conversation starts one campaign, unless a turn works on an outdated
\* session or comes to a fault between the start and the attachment.
OneCampaign ==
  ~stale /\ faults \subseteq {"cache", "gone", "ttl"} => Len(campaigns) <= 1

\* What the comment on the lock says it prevents: two messages that start a
\* campaign each. The session is read before the lock is taken.
OneCampaignPerConversation == faults = {} => Len(campaigns) <= 1

\* Every campaign a conversation started is among its campaigns once its turns
\* are over, also where two turns overlapped.
CampaignsAreKnown ==
  Quiet /\ faults \intersect {"error", "crash"} = {} => db.campaigns = 1 .. Len(campaigns)

\* Between turns the cached session is the stored one, unless a socket read it
\* while a turn changed it.
CacheAgrees ==
  Quiet /\ ~stale /\ faults \subseteq {"gone", "ttl"} => cache \subseteq {db}

\* The stored brief has every detail the user gave, in the order of the turns,
\* also those of turns that failed later.
NoEditIsLost ==
  ~stale /\ "expired" \notin faults => db.brief = edited

\* Is every campaign that a bare yes started one of a brief the user was shown?
StartsAreShown == \A i \in DOMAIN campaigns : campaigns[i].asked \/ campaigns[i].brief \in shown

\* What a bare yes starts is a brief the user was shown, but for one that a
\* question has changed; and where a turn asks for a confirmation the next turn
\* will understand the yes.
ConfirmedAsShown ==
  ~stale /\ faults \subseteq {"cache", "ttl"} =>
    /\ slipped \/ StartsAreShown
    /\ \A s \in Sockets :
         turn[s].at = "release" /\ turn[s].gate = "playback" =>
           db.status = "awaiting_confirmation" /\ IsComplete(db.brief) /\ db.active = 0

\* What the comment on the gate says: the assistant first plays the brief back and
\* waits. A question about the campaign that changes the brief is let through.
PlaysBackFirst == ~stale /\ faults = {} => StartsAreShown

\* A conversation that is locked can be taken up again: its turn ends, or the
\* lock of a turn that crashed expires.
LockIsFreed == lock ~> ~lock
=============================================================================
