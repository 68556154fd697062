--------------------------- MODULE ChatTurnProofs ---------------------------
(***************************************************************************)
(* Theorems about ChatTurn, for any fields, sockets, messages and numbers   *)
(* of messages and faults.                                                  *)
(***************************************************************************)
EXTENDS ChatTurn, TLAPS

-----------------------------------------------------------------------------
(* The inductive invariant. Its parts hold for as long as the faults of their *)
(* hypotheses have not happened.                                              *)

Kinds == {"cache", "error", "gone", "crash", "expired", "ttl"}
Jobs == {"brief", "attach", "collecting", "awaiting_confirmation"}
Heard == [intent : UserIntents, patch : Briefs, confidence : [Fields -> Confidences]]

\* The handlers' locals while n campaigns are started, of which r is the reply.
Turns(n, r) ==
  [at : BeforeLock \union UnderLock, said : MessageTypes, seen : Sessions(n), heard : Heard,
   brief : Briefs, gate : {"pass", "run", "playback"}, job : Jobs, mine : 0 .. n,
   copy : Sessions(n), reply : {r}]
IsTurn(t, n) == t \in Turns(n, t.reply)

StoresTyped ==
  /\ campaigns \in Seq([brief : Briefs, asked : BOOLEAN])
  /\ db \in Sessions(Len(campaigns)) /\ cache \subseteq Sessions(Len(campaigns))
  /\ lock \in BOOLEAN /\ stale \in BOOLEAN /\ slipped \in BOOLEAN
  /\ messages \in 0 .. MaxMessages /\ faults \subseteq Kinds
  /\ edited \in Briefs /\ shown \subseteq Briefs

\* What the locals of a handler have to do with one another.
Sound(t) ==
  /\ t.at = "attach" \/ t.job = "attach" => t.mine # 0 /\ t.gate = "run"
  /\ t.at \in {"idle", "fill", "ready", "acked", "gate"} => t.job = "brief" /\ t.gate = "pass"
  /\ t.job = "brief" /\ t.at \in {"written", "patch"} => t.gate = "pass"
  /\ t.gate = "playback" /\ t.at \in {"written", "patch", "compose"} =>
       ~IsCopilotTurn(t.seen.active, t.said, t.heard)

TurnsTyped ==
  /\ DOMAIN turn = Sockets
  /\ \A s \in Sockets : IsTurn(turn[s], Len(campaigns)) /\ Sound(turn[s])

\* The lock is there while a turn is at work, and there is one such turn.
Serial ==
  "expired" \notin faults =>
    /\ \A s, t \in Sockets : InTurn(s) /\ InTurn(t) => s = t
    /\ (\E s \in Sockets : InTurn(s)) => lock

\* The session a turn has in hand is the stored one but for the brief it wrote.
InBrief(s) == turn[s].at \in {"written", "patch", "gate"} /\ turn[s].job = "brief"
InHand ==
  ~stale /\ "expired" \notin faults =>
    /\ db.brief = edited
    /\ \A s \in Sockets :
         /\ turn[s].at = "acked" => turn[s].seen = db
         /\ InBrief(s) => /\ turn[s].brief = Merge(turn[s].seen.brief, turn[s].heard.patch)
                          /\ db = [turn[s].seen EXCEPT !.brief = turn[s].brief]

\* A campaign is known to the session, or a turn is about to attach it ...
Attached ==
  faults \intersect {"error", "crash"} = {} =>
    \A i \in 1 .. Len(campaigns) :
      i \in db.campaigns \/ \E s \in Sockets : turn[s].at = "attach" /\ turn[s].mine = i

\* ... and while there is one the gate is shut.
GateIsShut ==
  ~stale /\ faults \subseteq {"cache", "gone", "ttl"} =>
    /\ Len(campaigns) <= 1
    /\ campaigns # <<>> => db.active # 0 \/ \E s \in Sockets : turn[s].at = "attach"

\* A copy is the stored session, but for the change the turn at work is to make.
CopiesFollow ==
  ~stale /\ faults \subseteq {"gone", "ttl"} =>
    /\ (\A s \in Sockets : turn[s].at \notin {"written", "patch"}) => cache \subseteq {db}
    /\ \A s \in Sockets :
         /\ turn[s].at = "written" => /\ Changed(db, turn[s]) = db
                                      /\ \A copy \in cache : Changed(copy, turn[s]) = db
         /\ turn[s].at = "patch" => Changed(turn[s].copy, turn[s]) = db

\* A complete brief that awaits the user's yes was played back, or a turn is at
\* work that will play it back, run it or leave it as it was.
Awaits(session) == session.status = "awaiting_confirmation" /\ IsComplete(session.brief)
Settles(s) ==
  \/ InBrief(s)
  \/ turn[s].at = "attach"
  \/ turn[s].gate = "playback" /\ turn[s].at \in {"written", "patch", "compose"}
PlayedBack ==
  ~stale /\ faults \subseteq {"cache", "ttl"} =>
    /\ slipped \/ StartsAreShown
    /\ db.status = "awaiting_confirmation" => db.active = 0
    /\ slipped \/ (Awaits(db) => db.brief \in shown \/ \E s \in Sockets : Settles(s))
    /\ \A s \in Sockets :
         /\ InBrief(s) /\ Awaits(turn[s].seen) => slipped \/ turn[s].seen.brief \in shown
         /\ turn[s].gate = "playback" /\ InTurn(s) =>
              Awaits(db) /\ (turn[s].at # "release" => db.brief = turn[s].brief)

IInv == StoresTyped /\ TurnsTyped /\ Serial /\ InHand /\ Attached /\ GateIsShut /\ CopiesFollow
          /\ PlayedBack

-----------------------------------------------------------------------------
(* Briefs, understandings and sessions.                                       *)

LEMMA NothingIsABrief == Nothing \in Briefs
BY DEF Nothing, Briefs, Values

LEMMA MergeTypes ==
  ASSUME NEW b \in Briefs, NEW patch \in Briefs
  PROVE  Merge(b, patch) \in Briefs /\ Merge(b, Nothing) = b
<1>1. Merge(b, patch) \in Briefs
  BY DEF Merge, Briefs
<1>2. Merge(b, Nothing) = [f \in Fields |-> b[f]]
  BY DEF Merge, Nothing
<1> QED
  BY <1>1, <1>2 DEF Briefs

LEMMA MisunderstoodTypes == Misunderstood \in Heard
<1>1. [f \in Fields |-> "none"] \in [Fields -> Confidences]
  BY DEF Confidences
<1> QED
  BY <1>1, NothingIsABrief DEF Misunderstood, Heard, UserIntents

LEMMA UnderstandingTypes ==
  ASSUME NEW m \in MessageTypes
  PROVE  Understandings(m) \subseteq Heard
<1>1. m.found \in Briefs /\ m.patch \in Briefs /\ m.confidence \in [Fields -> Confidences] /\ m.intent \in UserIntents
  BY DEF MessageTypes
<1>2. FairWhereFound(m) \in [Fields -> Confidences]
  BY DEF FairWhereFound, Confidences
<1>3. Garbled(m) \in Heard
  BY <1>1, <1>2 DEF Garbled, Heard, UserIntents
<1>4. Misunderstood \in Heard
  BY MisunderstoodTypes
<1>5. Shortcut(m) \in Heard
  BY <1>4 DEF Shortcut, Heard, UserIntents
<1>6. Completed(m) \in Heard
  <2>1. Merge(m.found, m.patch) \in Briefs
    BY <1>1, MergeTypes
  <2>2. [f \in Fields |-> IF m.confidence[f] = "none" THEN FairWhereFound(m)[f]
                          ELSE m.confidence[f]] \in [Fields -> Confidences]
    BY <1>1, <1>2
  <2> QED
    BY <1>1, <1>2, <2>1, <2>2 DEF Completed, Heard
<1> QED
  BY <1>3, <1>4, <1>5, <1>6 DEF Understandings

LEMMA SessionTypes ==
  ASSUME NEW n \in Nat
  PROVE  /\ NewSession \in Sessions(n)
         /\ Sessions(n) \subseteq Sessions(n + 1)
<1>1. NewSession \in Sessions(n)
  BY NothingIsABrief DEF NewSession, Sessions, Statuses
<1>2. 0 .. n \subseteq 0 .. (n + 1) /\ 1 .. n \subseteq 1 .. (n + 1)
  OBVIOUS
<1> QED
  BY <1>1, <1>2 DEF Sessions

\* A change of a session is one, and making it again changes nothing.
LEMMA ChangedTypes ==
  ASSUME NEW n \in Nat, NEW x \in Sessions(n), NEW t, t.job \in Jobs, t.brief \in Briefs,
         t.mine \in 0 .. n, t.job = "attach" => t.mine # 0
  PROVE  /\ Changed(x, t) \in Sessions(n)
         /\ Changed(Changed(x, t), t) = Changed(x, t)
         /\ t.job = "brief" => Changed(x, t) = [x EXCEPT !.brief = t.brief]
         /\ t.job # "brief" => Changed(x, t).brief = x.brief
         /\ t.job = "attach" => /\ Changed(x, t).campaigns = x.campaigns \union {t.mine}
                                /\ Changed(x, t).active = t.mine
                                /\ Changed(x, t).status = "processing"
         /\ t.job # "attach" => /\ Changed(x, t).campaigns = x.campaigns
                                /\ Changed(x, t).active = x.active
         /\ t.job \in {"collecting", "awaiting_confirmation"} => Changed(x, t).status = t.job
<1>1. CASE t.job = "brief"
  BY <1>1 DEF Changed, Sessions
<1>2. CASE t.job = "attach"
  <2>1. t.mine \in 1 .. n
    BY <1>2
  <2>2. Changed(x, t) = [brief |-> x.brief, status |-> "processing", active |-> t.mine,
                         campaigns |-> x.campaigns \union {t.mine}]
    BY <1>2 DEF Changed, Sessions
  <2>3. Changed(x, t) \in Sessions(n)
    BY <2>1, <2>2 DEF Sessions, Statuses
  <2>4. (x.campaigns \union {t.mine}) \union {t.mine} = x.campaigns \union {t.mine}
    OBVIOUS
  <2>5. Changed(Changed(x, t), t) = Changed(x, t)
    BY <1>2, <2>2, <2>4 DEF Changed
  <2> QED
    BY <1>2, <2>2, <2>3, <2>5
<1>3. CASE t.job \in {"collecting", "awaiting_confirmation"}
  BY <1>3 DEF Changed, Sessions, Statuses
<1> QED
  BY <1>1, <1>2, <1>3 DEF Jobs

LEMMA IdleTypes ==
  /\ \A n \in Nat : IsTurn(Idle, n)
  /\ Sound(Idle) /\ Idle.at = "idle" /\ Idle.job = "brief" /\ Idle.gate = "pass"
<1>1. Nothing \in [Fields -> Confidences]
  BY DEF Nothing, Confidences
<1>2. Silence \in MessageTypes
  BY <1>1, NothingIsABrief DEF Silence, MessageTypes, UserIntents
<1>3. \A n \in Nat : IsTurn(Idle, n)
  BY <1>2, MisunderstoodTypes, SessionTypes, NothingIsABrief DEF Idle, IsTurn, Turns, BeforeLock, Jobs
<1> QED
  BY <1>3 DEF Idle, Sound

\* A turn that has ended but for the finally of its handler.
Ended(gate, reply) == [Idle EXCEPT !.at = "release", !.gate = gate, !.reply = reply]

LEMMA EndTypes ==
  ASSUME NEW n \in Nat, NEW reply, NEW gate \in {"pass", "run", "playback"}
  PROVE  /\ IsTurn(Ended(gate, reply), n) /\ Sound(Ended(gate, reply))
         /\ Ended(gate, reply).at = "release" /\ Ended(gate, reply).job = "brief"
         /\ Ended(gate, reply).gate = gate
<1> DEFINE x == Ended(gate, reply)
<1>1. Idle \in Turns(n, Idle.reply) /\ Idle.job = "brief"
  BY IdleTypes DEF IsTurn
<1>2. x \in Turns(n, reply) /\ x.reply = reply /\ x.at = "release" /\ x.job = "brief" /\ x.gate = gate
  BY <1>1 DEF Turns, UnderLock, Ended
<1> QED
  BY <1>2 DEF IsTurn, Sound

-----------------------------------------------------------------------------
(* What the parts of the invariant say of a step.                             *)

\* The locals of one socket change, and at most one campaign is new.
LEMMA TurnMoves ==
  ASSUME StoresTyped, TurnsTyped, NEW s \in Sockets, NEW x, turn' = [turn EXCEPT ![s] = x],
         Len(campaigns') \in {Len(campaigns), Len(campaigns) + 1},
         IsTurn(x, Len(campaigns')), Sound(x)
  PROVE  /\ TurnsTyped'
         /\ turn'[s] = x
         /\ \A r \in Sockets : r # s => turn'[r] = turn[r]
<1>1. Len(campaigns) \in Nat
  BY DEF StoresTyped
<1>2. turn'[s] = x /\ DOMAIN turn' = Sockets /\ \A r \in Sockets : r # s => turn'[r] = turn[r]
  BY DEF TurnsTyped
<1>3. \A r \in Sockets : r # s => IsTurn(turn[r], Len(campaigns'))
  <2>1. Sessions(Len(campaigns)) \subseteq Sessions(Len(campaigns'))
    BY <1>1, SessionTypes
  <2>2. 0 .. Len(campaigns) \subseteq 0 .. Len(campaigns')
    BY <1>1
  <2>3. \A r \in Sockets : turn[r] \in Turns(Len(campaigns), turn[r].reply)
    BY DEF TurnsTyped, IsTurn
  <2> QED
    BY <2>1, <2>2, <2>3 DEF IsTurn, Turns
<1> QED
  BY <1>2, <1>3 DEF TurnsTyped

\* Where no lock has expired on a turn at work, no other turn is at work.
LEMMA AloneInTurn ==
  ASSUME Serial, "expired" \notin faults, NEW s \in Sockets, InTurn(s), NEW r \in Sockets, r # s
  PROVE  ~InTurn(r)
BY DEF Serial

\* Steps that leave the session, its campaigns and what was shown alone.
Unmoved == UNCHANGED <<db, campaigns, edited, slipped>>

\* A turn that waits for the lock goes on waiting, or is sent away.
LEMMA WaitsKeep ==
  ASSUME IInv, StoresTyped', NEW s \in Sockets, NEW x, turn' = [turn EXCEPT ![s] = x],
         turn[s].at \in BeforeLock, x.at \in BeforeLock, IsTurn(x, Len(campaigns)), Sound(x),
         Unmoved, lock' = lock, shown' = shown, faults \subseteq faults',
         stale => stale', ~stale' /\ faults' \subseteq {"gone", "ttl"} => cache' \subseteq cache \union {db}
  PROVE  IInv'
<1>1. TurnsTyped' /\ turn'[s] = x /\ \A r \in Sockets : r # s => turn'[r] = turn[r]
  BY TurnMoves DEF IInv, Unmoved
<1>2. ~InTurn(s) /\ ~InTurn(s)'
  BY <1>1 DEF InTurn, BeforeLock, UnderLock
<1>3. \A r \in Sockets : turn'[r] = turn[r] \/ (~InTurn(r) /\ ~InTurn(r)')
  BY <1>1, <1>2
<1>4. Serial'
  BY <1>3 DEF IInv, Serial, InTurn
<1>5. InHand'
  BY <1>3 DEF IInv, InHand, InBrief, InTurn, UnderLock, Unmoved
<1>6. Attached'
  BY <1>3 DEF IInv, Attached, InTurn, UnderLock, Unmoved
<1>7. GateIsShut'
  BY <1>3 DEF IInv, GateIsShut, InTurn, UnderLock, Unmoved
<1>8. CopiesFollow'
  BY <1>3 DEF IInv, CopiesFollow, InTurn, UnderLock, Unmoved
<1>9. PlayedBack'
  <2>1. \A r \in Sockets : (Settles(r) => Settles(r)') /\ (InBrief(r)' => InBrief(r) /\ turn'[r] = turn[r])
    BY <1>3 DEF Settles, InBrief, InTurn, UnderLock
  <2> QED
    BY <1>3, <2>1 DEF IInv, PlayedBack, StartsAreShown, Awaits, InTurn, Unmoved
<1> QED
  BY <1>1, <1>4, <1>5, <1>6, <1>7, <1>8, <1>9 DEF IInv

\* A turn comes to its end, by a fault where it had work to do.
LEMMA EndsKeep ==
  ASSUME IInv, StoresTyped', NEW s \in Sockets, NEW x, turn' = [turn EXCEPT ![s] = x], InTurn(s),
         x.at \in {"idle", "release"}, x.job = "brief", x.gate \in {"pass", turn[s].gate},
         IsTurn(x, Len(campaigns)), Sound(x),
         Unmoved, UNCHANGED <<cache, stale>>, faults \subseteq faults', shown \subseteq shown',
         lock' = lock \/ x.at = "idle",
         turn[s].at \in {"written", "patch", "attach"} => faults' \intersect {"error", "crash"} # {},
         Settles(s) => faults' \intersect {"error", "gone", "crash"} # {} \/ turn[s].brief \in shown'
  PROVE  IInv'
<1>1. TurnsTyped' /\ turn'[s] = x /\ \A r \in Sockets : r # s => turn'[r] = turn[r]
  BY TurnMoves DEF IInv, Unmoved
<1>2. Serial'
  <2>1. CASE x.at = "idle"
    BY <1>1, <2>1, AloneInTurn DEF IInv, Serial, InTurn, UnderLock
  <2>2. CASE lock' = lock
    BY <1>1, <2>2 DEF IInv, Serial, InTurn
  <2> QED
    BY <2>1, <2>2
<1>3. InHand'
  BY <1>1 DEF IInv, InHand, InBrief, Unmoved
<1>4. Attached'
  BY <1>1 DEF IInv, Attached, Unmoved
<1>5. GateIsShut'
  BY <1>1 DEF IInv, GateIsShut, Unmoved
<1>6. CopiesFollow'
  BY <1>1 DEF IInv, CopiesFollow, Unmoved
<1>7. PlayedBack'
  <2>1. \A r \in Sockets : r # s => (Settles(r) => Settles(r)') /\ (InBrief(r)' <=> InBrief(r))
    BY <1>1 DEF Settles, InBrief
  <2>2. ~InBrief(s)'
    BY <1>1 DEF InBrief
  <2>3. ASSUME ~stale', faults' \subseteq {"cache", "ttl"}, Settles(s)
        PROVE  db.brief \in shown'
    <3>1. turn[s].at # "attach" /\ turn[s].brief \in shown'
      BY <2>3
    <3>2. db.brief = turn[s].brief
      BY <2>3, <3>1 DEF IInv, StoresTyped, Settles, InHand, InBrief, PlayedBack, Unmoved, Sessions
    <3> QED
      BY <3>1, <3>2
  <2> QED
    BY <1>1, <2>1, <2>2, <2>3 DEF IInv, PlayedBack, StartsAreShown, Awaits, InTurn, UnderLock, Unmoved
<1> QED
  BY <1>1, <1>2, <1>3, <1>4, <1>5, <1>6, <1>7 DEF IInv

-----------------------------------------------------------------------------
(* Before the lock, and at the end of a turn.                                 *)

LEMMA FaultTypes ==
  ASSUME StoresTyped, NEW kind \in Kinds, Fault(kind)
  PROVE  faults' \subseteq Kinds /\ faults \subseteq faults' /\ kind \in faults'
BY DEF StoresTyped, Fault

LEMMA ReceiveKeeps ==
  ASSUME IInv, NEW s \in Sockets, NEW m \in Messages, Receive(s, m)
  PROVE  IInv'
<1>1. turn[s] \in Turns(Len(campaigns), turn[s].reply) /\ Sound(turn[s]) /\ m \in MessageTypes
  BY MessagesAreMessages DEF IInv, TurnsTyped, IsTurn
<1>2. StoresTyped'
  BY BoundsAreNumbers DEF IInv, StoresTyped, Receive
<1>3. ASSUME NEW session \in Sessions(Len(campaigns)), NEW at \in {"ready", "fill"},
             turn' = [turn EXCEPT ![s].at = at, ![s].said = m, ![s].seen = session]
      PROVE  IInv'
  <2> DEFINE x == [turn[s] EXCEPT !.at = at, !.said = m, !.seen = session]
  <2>1. x \in Turns(Len(campaigns), turn[s].reply) /\ x.reply = turn[s].reply /\ x.at = at
        /\ x.job = turn[s].job /\ x.gate = turn[s].gate
    BY <1>1 DEF Turns, BeforeLock
  <2>2. IsTurn(x, Len(campaigns)) /\ Sound(x)
    BY <1>1, <2>1 DEF IsTurn, Sound, Receive
  <2>3. turn' = [turn EXCEPT ![s] = x]
    BY <1>3
  <2> HIDE DEF x
  <2> QED
    BY <1>2, <2>1, <2>2, <2>3, WaitsKeep DEF Receive, Unmoved, BeforeLock
<1>4. db \in Sessions(Len(campaigns)) /\ cache \subseteq Sessions(Len(campaigns))
  BY DEF IInv, StoresTyped
<1> QED
  BY <1>3, <1>4 DEF Receive

LEMMA FillKeeps ==
  ASSUME IInv, NEW s \in Sockets, Fill(s)
  PROVE  IInv'
<1> DEFINE x == [turn[s] EXCEPT !.at = "ready"]
<1>1. turn[s] \in Turns(Len(campaigns), turn[s].reply) /\ Sound(turn[s])
  BY DEF IInv, TurnsTyped, IsTurn
<1>2. x \in Turns(Len(campaigns), turn[s].reply) /\ x.reply = turn[s].reply /\ x.at = "ready"
      /\ x.job = turn[s].job /\ x.gate = turn[s].gate
  BY <1>1 DEF Turns, BeforeLock
<1>3. IsTurn(x, Len(campaigns)) /\ Sound(x) /\ turn' = [turn EXCEPT ![s] = x]
  BY <1>1, <1>2 DEF IsTurn, Sound, Fill
<1>4. StoresTyped'
  BY <1>1 DEF IInv, StoresTyped, Fill, Turns
<1> HIDE DEF x
<1> QED
  BY <1>2, <1>3, <1>4, WaitsKeep DEF Fill, Unmoved, BeforeLock

LEMMA BusyKeeps ==
  ASSUME IInv, NEW s \in Sockets, Busy(s)
  PROVE  IInv'
<1>1. StoresTyped' /\ Len(campaigns) \in Nat
  BY DEF IInv, StoresTyped, Busy
<1> QED
  BY <1>1, IdleTypes, WaitsKeep DEF Busy, Unmoved, BeforeLock

LEMMA AnswerOutrightKeeps ==
  ASSUME IInv, NEW s \in Sockets, AnswerOutright(s)
  PROVE  IInv'
<1> DEFINE reply == Says(IF turn[s].said.review THEN "decided" ELSE "error")
           x == Ended(turn[s].gate, reply)
<1>1. StoresTyped' /\ Len(campaigns) \in Nat
  BY DEF IInv, StoresTyped, AnswerOutright
<1>2. turn[s].gate \in {"pass", "run", "playback"}
  BY DEF IInv, TurnsTyped, IsTurn, Turns
<1>3. IsTurn(x, Len(campaigns)) /\ Sound(x) /\ x.at = "release" /\ x.job = "brief" /\ x.gate = turn[s].gate
  BY <1>1, <1>2, EndTypes
<1>4. turn' = [turn EXCEPT ![s] = x]
  BY DEF AnswerOutright, Finish, Ended
<1>5. InTurn(s) /\ ~Settles(s) /\ turn[s].at = "acked"
  BY DEF AnswerOutright, InTurn, UnderLock, Settles, InBrief
<1>6. UNCHANGED <<db, cache, lock, campaigns, messages, faults, stale, edited, shown, slipped>>
  BY DEF AnswerOutright
<1> HIDE DEF x, reply
<1> QED
  BY <1>1, <1>3, <1>4, <1>5, <1>6, EndsKeep DEF Unmoved, IInv, StoresTyped

LEMMA FailureKeeps ==
  ASSUME IInv, NEW s \in Sockets, Raise(s) \/ Disconnect(s) \/ Crash(s)
  PROVE  IInv'
<1>1. Len(campaigns) \in Nat /\ turn[s].gate \in {"pass", "run", "playback"}
  BY DEF IInv, StoresTyped, TurnsTyped, IsTurn, Turns
<1>2. PICK kind \in {"error", "gone", "crash"} :
        /\ Fault(kind)
        /\ kind = "gone" => turn[s].at \in {"acked", "compose"}
  BY DEF Raise, Disconnect, Crash
<1>3. faults' \subseteq Kinds /\ faults \subseteq faults' /\ kind \in faults'
  BY <1>2, FaultTypes DEF IInv, Kinds
<1>4. UNCHANGED <<db, cache, lock, campaigns, messages, stale, edited, shown, slipped>> /\ InTurn(s)
  BY DEF Raise, Disconnect, Crash, InTurn, UnderLock
<1>5. StoresTyped'
  BY <1>3, <1>4 DEF IInv, StoresTyped
<1>6. \E x : /\ turn' = [turn EXCEPT ![s] = x] /\ IsTurn(x, Len(campaigns)) /\ Sound(x)
             /\ x.at \in {"idle", "release"} /\ x.job = "brief" /\ x.gate \in {"pass", turn[s].gate}
  <2>1. CASE Crash(s)
    BY <1>1, <2>1, IdleTypes DEF Crash
  <2>2. CASE Raise(s) \/ Disconnect(s)
    <3>1. PICK reply : turn' = [turn EXCEPT ![s] = Ended(turn[s].gate, reply)]
      BY <2>2 DEF Raise, Disconnect, Finish, Ended
    <3> QED
      BY <1>1, <3>1, EndTypes
  <2> QED
    BY <2>1, <2>2
<1> QED
  BY <1>2, <1>3, <1>4, <1>5, <1>6, EndsKeep DEF Unmoved

LEMMA ReleaseKeeps ==
  ASSUME IInv, NEW s \in Sockets, Release(s)
  PROVE  IInv'
<1>1. StoresTyped' /\ Len(campaigns) \in Nat
  <2>1. lock' \in BOOLEAN /\ UNCHANGED <<db, cache, campaigns, messages, faults, stale, edited, shown, slipped>>
    BY DEF Release
  <2> QED
    BY <2>1 DEF IInv, StoresTyped
<1>2. InTurn(s) /\ ~Settles(s) /\ turn[s].at = "release"
  BY DEF Release, InTurn, UnderLock, Settles, InBrief
<1>3. turn' = [turn EXCEPT ![s] = Idle]
      /\ UNCHANGED <<db, cache, campaigns, messages, faults, stale, edited, shown, slipped>>
  BY DEF Release
<1> QED
  BY <1>1, <1>2, <1>3, IdleTypes, EndsKeep DEF Unmoved

\* A brief that is to be played back is played back, whoever words the reply.
LEMMA PlaybackReplies ==
  ASSUME NEW seen, NEW m, NEW heard, NEW brief, ~IsCopilotTurn(seen.active, m, heard),
         NEW reply \in Replies("playback", seen, m, heard, brief)
  PROVE  reply.kind = "playback"
BY DEF Replies, Unplanned, Planned, Worded, Says, Question

LEMMA ComposeKeeps ==
  ASSUME IInv, NEW s \in Sockets, Compose(s)
  PROVE  IInv'
<1>1. PICK reply \in Replies(turn[s].gate, turn[s].seen, turn[s].said, turn[s].heard, turn[s].brief) :
        /\ Finish(s, reply)
        /\ shown' = IF reply.kind = "playback" THEN shown \union {turn[s].brief} ELSE shown
  BY DEF Compose
<1>2. Len(campaigns) \in Nat /\ turn[s].gate \in {"pass", "run", "playback"} /\ turn[s].brief \in Briefs
      /\ Sound(turn[s])
  BY DEF IInv, StoresTyped, TurnsTyped, IsTurn, Turns
<1>3. shown' \subseteq Briefs /\ shown \subseteq shown'
  BY <1>1, <1>2 DEF IInv, StoresTyped
<1>4. UNCHANGED <<db, cache, lock, campaigns, messages, faults, stale, edited, slipped>> /\ turn[s].at = "compose"
      /\ InTurn(s)
  BY DEF Compose, InTurn, UnderLock
<1>5. StoresTyped'
  BY <1>3, <1>4 DEF IInv, StoresTyped
<1>6. ASSUME Settles(s)
      PROVE  turn[s].brief \in shown'
  <2>1. turn[s].gate = "playback"
    BY <1>4, <1>6 DEF Settles, InBrief
  <2>2. ~IsCopilotTurn(turn[s].seen.active, turn[s].said, turn[s].heard)
    BY <1>2, <1>4, <2>1 DEF Sound
  <2>3. reply.kind = "playback"
    BY <1>1, <2>1, <2>2, PlaybackReplies
  <2> QED
    BY <1>1, <2>3
<1>7. turn' = [turn EXCEPT ![s] = Ended(turn[s].gate, reply)]
  BY <1>1 DEF Finish, Ended
<1> QED
  BY <1>2, <1>3, <1>4, <1>5, <1>6, <1>7, EndTypes, EndsKeep DEF Unmoved

LEMMA TimersKeep ==
  ASSUME IInv, ExpireAbandoned \/ ExpireInTurn \/ CacheExpires
  PROVE  IInv'
<1>1. UNCHANGED <<db, turn, campaigns, messages, stale, edited, shown, slipped>> /\ faults \subseteq faults'
  BY DEF ExpireAbandoned, ExpireInTurn, CacheExpires, Fault
<1>2. TurnsTyped' /\ InHand' /\ Attached' /\ GateIsShut' /\ PlayedBack'
  <2>1. TurnsTyped'
    BY <1>1 DEF IInv, TurnsTyped
  <2>2. InHand' /\ Attached'
    BY <1>1 DEF IInv, InHand, InBrief, Attached
  <2>3. GateIsShut'
    BY <1>1 DEF IInv, GateIsShut
  <2>4. PlayedBack'
    BY <1>1 DEF IInv, PlayedBack, InBrief, InTurn, Awaits, Settles, StartsAreShown
  <2> QED
    BY <2>1, <2>2, <2>3, <2>4
<1>3. StoresTyped' /\ Serial' /\ CopiesFollow'
  <2>1. CASE ExpireAbandoned
    <3>1. lock' \in BOOLEAN /\ UNCHANGED <<cache, faults>>
      BY <2>1 DEF ExpireAbandoned
    <3>2. \A s \in Sockets : ~InTurn(s)
      BY <2>1 DEF ExpireAbandoned
    <3>3. Serial'
      BY <1>1, <3>2 DEF Serial, InTurn
    <3> QED
      BY <1>1, <3>1, <3>3 DEF IInv, StoresTyped, CopiesFollow
  <2>2. CASE ExpireInTurn
    <3>1. faults' \subseteq Kinds /\ "expired" \in faults'
      BY <2>2, FaultTypes DEF IInv, Kinds, ExpireInTurn
    <3> QED
      BY <1>1, <2>2, <3>1 DEF IInv, StoresTyped, Serial, CopiesFollow, ExpireInTurn
  <2>3. CASE CacheExpires
    <3>1. faults' \subseteq Kinds
      BY <2>3, FaultTypes DEF IInv, Kinds, CacheExpires
    <3> QED
      BY <1>1, <2>3, <3>1 DEF IInv, StoresTyped, Serial, CopiesFollow, InTurn, CacheExpires
  <2> QED
    BY <2>1, <2>2, <2>3
<1> QED
  BY <1>2, <1>3 DEF IInv

LEMMA AcquireKeeps ==
  ASSUME IInv, NEW s \in Sockets, Acquire(s)
  PROVE  IInv'
<1> DEFINE x == [turn[s] EXCEPT !.at = "acked"]
<1>1. turn[s] \in Turns(Len(campaigns), turn[s].reply) /\ Sound(turn[s]) /\ turn[s].at = "ready"
  BY DEF IInv, TurnsTyped, IsTurn, Acquire
<1>2. /\ x \in Turns(Len(campaigns), turn[s].reply) /\ x.reply = turn[s].reply /\ x.at = "acked"
      /\ x.job = "brief" /\ x.gate = "pass" /\ x.seen = turn[s].seen
  BY <1>1 DEF Turns, UnderLock, Sound
<1>3. IsTurn(x, Len(campaigns)) /\ Sound(x) /\ turn' = [turn EXCEPT ![s] = x]
  BY <1>1, <1>2 DEF IsTurn, Sound, Acquire
<1> HIDE DEF x
<1>4. /\ UNCHANGED <<db, cache, campaigns, messages, faults, edited, shown, slipped>>
      /\ lock' \in BOOLEAN /\ stale' \in BOOLEAN /\ lock' /\ (~stale' => ~stale /\ turn[s].seen = db)
  BY DEF IInv, StoresTyped, Acquire
<1>5. StoresTyped'
  BY <1>4 DEF IInv, StoresTyped
<1>6. TurnsTyped' /\ turn'[s] = x /\ \A r \in Sockets : r # s => turn'[r] = turn[r]
  BY <1>3, <1>4, TurnMoves DEF IInv
<1>7. "expired" \notin faults => \A r \in Sockets : ~InTurn(r)
  BY DEF IInv, Serial, Acquire
<1>8. Serial'
  BY <1>4, <1>6, <1>7 DEF Serial, InTurn
<1>9. InHand'
  BY <1>2, <1>4, <1>6, <1>7 DEF IInv, InHand, InBrief, InTurn, UnderLock
<1>10. Attached' /\ GateIsShut'
  <2>1. \A r \in Sockets : turn[r].at = "attach" => turn'[r] = turn[r]
    BY <1>1, <1>6
  <2> QED
    BY <1>4, <2>1 DEF IInv, Attached, GateIsShut
<1>11. CopiesFollow'
  BY <1>1, <1>2, <1>4, <1>6 DEF IInv, CopiesFollow
<1>12. PlayedBack'
  <2>1. \A r \in Sockets : (Settles(r) => Settles(r)') /\ (InBrief(r)' => InBrief(r) /\ turn'[r] = turn[r])
    BY <1>1, <1>2, <1>6 DEF Settles, InBrief, Sound
  <2> QED
    BY <1>2, <1>4, <1>6, <2>1 DEF IInv, PlayedBack, StartsAreShown, Awaits, InTurn
<1> QED
  BY <1>5, <1>6, <1>8, <1>9, <1>10, <1>11, <1>12 DEF IInv

-----------------------------------------------------------------------------
(* The session is got again and cached.                                       *)

\* Where a turn goes from the change of the row and from that of the copy.
Onward(t) == IF t.at = "written" THEN "patch" ELSE IF t.job = "brief" THEN "gate" ELSE "compose"

Carried(t, copy) == [t EXCEPT !.at = Onward(t), !.copy = copy]

LEMMA OnwardTypes ==
  ASSUME IInv, NEW s \in Sockets, turn[s].at \in {"written", "patch"}, NEW copy \in Sessions(Len(campaigns))
  PROVE  LET t == turn[s]
             x == Carried(turn[s], copy)
         IN /\ IsTurn(x, Len(campaigns)) /\ Sound(x)
            /\ x.at = Onward(t) /\ x.said = t.said /\ x.seen = t.seen /\ x.heard = t.heard /\ x.brief = t.brief
            /\ x.gate = t.gate /\ x.job = t.job /\ x.mine = t.mine /\ x.copy = copy
<1> DEFINE t == turn[s]
           x == Carried(turn[s], copy)
<1>1. turn[s] \in Turns(Len(campaigns), turn[s].reply) /\ Sound(turn[s])
  BY DEF IInv, TurnsTyped, IsTurn
<1>2. /\ x \in Turns(Len(campaigns), turn[s].reply) /\ x.reply = t.reply /\ x.at = Onward(t)
      /\ x.said = t.said /\ x.seen = t.seen /\ x.heard = t.heard /\ x.brief = t.brief
      /\ x.gate = t.gate /\ x.job = t.job /\ x.mine = t.mine /\ x.copy = copy
  BY <1>1 DEF Turns, UnderLock, Onward, Carried
<1> HIDE DEF x
<1>3. Sound(x)
  <2>1. CASE t.at = "written"
    BY <1>1, <1>2, <2>1 DEF Sound, Onward
  <2>2. CASE t.at = "patch"
    BY <1>1, <1>2, <2>2 DEF Sound, Onward
  <2> QED
    BY <2>1, <2>2
<1>4. IsTurn(x, Len(campaigns))
  BY <1>2 DEF IsTurn
<1> QED
  BY <1>2, <1>3, <1>4 DEF x

LEMMA CarriesKeep ==
  ASSUME IInv, StoresTyped', CopiesFollow', NEW s \in Sockets, turn[s].at \in {"written", "patch"},
         NEW x, turn' = [turn EXCEPT ![s] = x], IsTurn(x, Len(campaigns)), Sound(x),
         x.at = Onward(turn[s]), x.seen = turn[s].seen, x.heard = turn[s].heard, x.brief = turn[s].brief,
         x.gate = turn[s].gate, x.job = turn[s].job,
         Unmoved, UNCHANGED <<lock, stale, shown>>, faults \subseteq faults'
  PROVE  IInv'
<1>1. turn[s] \in Turns(Len(campaigns), turn[s].reply) /\ Sound(turn[s])
  BY DEF IInv, TurnsTyped, IsTurn
<1>4. TurnsTyped' /\ turn'[s] = x /\ \A r \in Sockets : r # s => turn'[r] = turn[r]
  BY TurnMoves DEF IInv, Unmoved
<1>5. \A r \in Sockets : (InTurn(r)' <=> InTurn(r)) /\ (InBrief(r)' <=> InBrief(r))
  BY <1>4 DEF InTurn, InBrief, UnderLock, Onward
<1>6. Serial'
  BY <1>5 DEF IInv, Serial
<1>7. InHand'
  <2>1. \A r \in Sockets : /\ turn'[r].at = "acked" => turn'[r] = turn[r]
                           /\ turn'[r].seen = turn[r].seen /\ turn'[r].heard = turn[r].heard
                           /\ turn'[r].brief = turn[r].brief
    BY <1>4 DEF Onward
  <2> QED
    BY <1>5, <2>1 DEF IInv, InHand, Unmoved
<1>8. \A r \in Sockets : turn[r].at = "attach" => turn'[r] = turn[r]
  BY <1>4
<1>9. Attached'
  BY <1>8 DEF IInv, Attached, Unmoved
<1>10. GateIsShut'
  BY <1>8 DEF IInv, GateIsShut, Unmoved
<1>11. PlayedBack'
  <2>1. \A r \in Sockets : Settles(r) => Settles(r)'
    BY <1>1, <1>4, <1>5 DEF Settles, Sound, Onward
  <2>2. \A r \in Sockets : turn'[r].seen = turn[r].seen /\ turn'[r].gate = turn[r].gate
                           /\ turn'[r].brief = turn[r].brief /\ (turn[r].at = "release" => turn'[r].at = "release")
    BY <1>4
  <2>3. UNCHANGED <<db, campaigns, slipped, stale, shown>> /\ faults \subseteq faults'
    BY DEF Unmoved
  <2> QED
    BY <1>5, <2>1, <2>2, <2>3 DEF IInv, PlayedBack, StartsAreShown, Awaits
<1> QED
  BY <1>4, <1>6, <1>7, <1>9, <1>10, <1>11 DEF IInv

LEMMA GetAgainKeeps ==
  ASSUME IInv, NEW s \in Sockets, GetAgain(s)
  PROVE  IInv'
<1>1. PICK copy \in (IF cache = {} THEN {db} ELSE cache) :
        turn' = [turn EXCEPT ![s].at = "patch", ![s].copy = copy]
  BY DEF GetAgain
<1> DEFINE x == Carried(turn[s], copy)
<1>2. turn[s].at = "written"
      /\ UNCHANGED <<db, cache, lock, campaigns, messages, faults, stale, edited, shown, slipped>>
  BY DEF GetAgain
<1>3. StoresTyped' /\ copy \in Sessions(Len(campaigns))
  BY <1>2 DEF IInv, StoresTyped
<1>4. turn' = [turn EXCEPT ![s] = x]
  BY <1>1, <1>2 DEF Onward, Carried
<1>5. /\ IsTurn(x, Len(campaigns)) /\ Sound(x)
      /\ x.at = "patch" /\ x.seen = turn[s].seen /\ x.heard = turn[s].heard /\ x.brief = turn[s].brief
      /\ x.gate = turn[s].gate /\ x.job = turn[s].job /\ x.mine = turn[s].mine /\ x.copy = copy
  BY <1>2, <1>3, OnwardTypes DEF Onward
<1> HIDE DEF x
<1>6. CopiesFollow'
  <2>1. turn'[s] = x /\ \A r \in Sockets : r # s => turn'[r] = turn[r]
    BY <1>2, <1>4, <1>5, TurnMoves DEF IInv
  <2>2. Changed(copy, x) = Changed(copy, turn[s])
    BY <1>5 DEF Changed
  <2>3. ~stale /\ faults \subseteq {"gone", "ttl"} => Changed(copy, turn[s]) = db
    BY <1>2 DEF IInv, CopiesFollow
  <2>4. turn'[s].at = "patch" /\ Changed(turn'[s].copy, turn'[s]) = Changed(copy, turn[s])
    BY <1>5, <2>1, <2>2
  <2> QED
    BY <1>2, <2>1, <2>3, <2>4 DEF IInv, CopiesFollow
<1> QED
  BY <1>2, <1>3, <1>4, <1>5, <1>6, CarriesKeep DEF Onward, Unmoved

LEMMA PatchKeeps ==
  ASSUME IInv, NEW s \in Sockets, Patch(s)
  PROVE  IInv'
<1> DEFINE t == turn[s]
           x == Carried(t, NewSession)
           new == Changed(t.copy, t)
<1>1. t.at = "patch" /\ cache' = {new} /\ turn' = AfterPatch(s)
      /\ UNCHANGED <<db, lock, campaigns, messages, faults, stale, edited, shown, slipped>>
  BY DEF Patch
<1>2. t \in Turns(Len(campaigns), t.reply) /\ Sound(t) /\ Len(campaigns) \in Nat
  BY DEF IInv, StoresTyped, TurnsTyped, IsTurn
<1>3. new \in Sessions(Len(campaigns))
  <2>1. /\ t.copy \in Sessions(Len(campaigns)) /\ t.job \in Jobs /\ t.brief \in Briefs
        /\ t.mine \in 0 .. Len(campaigns) /\ (t.job = "attach" => t.mine # 0)
    BY <1>2 DEF Turns, Sound
  <2> QED
    BY <1>2, <2>1, ChangedTypes
<1>4. turn' = [turn EXCEPT ![s] = x]
  BY <1>1 DEF AfterPatch, Carried, Onward
<1>5. /\ IsTurn(x, Len(campaigns)) /\ Sound(x)
      /\ x.at = Onward(t) /\ x.seen = t.seen /\ x.heard = t.heard /\ x.brief = t.brief
      /\ x.gate = t.gate /\ x.job = t.job
  BY <1>1, <1>2, SessionTypes, OnwardTypes
<1> HIDE DEF x, new
<1>6. StoresTyped'
  BY <1>1, <1>3 DEF IInv, StoresTyped
<1>7. CopiesFollow'
  <2>1. turn'[s] = x /\ \A r \in Sockets : r # s => turn'[r] = turn[r]
    BY <1>1, <1>4, <1>5, TurnMoves DEF IInv
  <2>2. ~stale /\ faults \subseteq {"gone", "ttl"} => cache' = {db}
    BY <1>1 DEF IInv, CopiesFollow, new
  <2>3. turn'[s].at \notin {"written", "patch"}
    BY <1>1, <1>5, <2>1 DEF Onward
  <2> QED
    BY <1>1, <2>1, <2>2, <2>3 DEF IInv, CopiesFollow
<1> QED
  BY <1>1, <1>4, <1>5, <1>6, <1>7, CarriesKeep DEF Unmoved

LEMMA CacheSetFailsKeeps ==
  ASSUME IInv, NEW s \in Sockets, CacheSetFails(s)
  PROVE  IInv'
<1>1. UNCHANGED <<db, cache, lock, campaigns, messages, stale, edited, shown, slipped>> /\ Fault("cache")
  BY DEF CacheSetFails
<1>2. faults' \subseteq Kinds /\ faults \subseteq faults' /\ "cache" \in faults'
  BY <1>1, FaultTypes DEF IInv, Kinds
<1>3. StoresTyped' /\ CopiesFollow'
  BY <1>1, <1>2 DEF IInv, StoresTyped, CopiesFollow
<1>4. turn[s] \in Turns(Len(campaigns), turn[s].reply) /\ Sound(turn[s]) /\ Len(campaigns) \in Nat
  BY DEF IInv, StoresTyped, TurnsTyped, IsTurn
<1>5. CASE turn[s].at = "fill"
  <2> DEFINE x == [turn[s] EXCEPT !.at = "ready"]
  <2>1. x \in Turns(Len(campaigns), turn[s].reply) /\ x.reply = turn[s].reply /\ x.at = "ready"
        /\ x.job = turn[s].job /\ x.gate = turn[s].gate
    BY <1>4 DEF Turns, BeforeLock
  <2>2. IsTurn(x, Len(campaigns)) /\ Sound(x)
    BY <1>4, <1>5, <2>1 DEF IsTurn, Sound
  <2>3. turn' = [turn EXCEPT ![s] = x]
    BY <1>5 DEF CacheSetFails
  <2> HIDE DEF x
  <2> QED
    BY <1>1, <1>2, <1>3, <1>5, <2>1, <2>2, <2>3, WaitsKeep DEF Unmoved, BeforeLock
<1>6. CASE turn[s].at = "patch"
  <2> DEFINE x == Carried(turn[s], NewSession)
  <2>1. turn' = [turn EXCEPT ![s] = x]
    BY <1>6 DEF CacheSetFails, AfterPatch, Carried, Onward
  <2>2. /\ IsTurn(x, Len(campaigns)) /\ Sound(x) /\ x.at = Onward(turn[s]) /\ x.seen = turn[s].seen
        /\ x.heard = turn[s].heard /\ x.brief = turn[s].brief /\ x.gate = turn[s].gate /\ x.job = turn[s].job
    BY <1>4, <1>6, SessionTypes, OnwardTypes
  <2> HIDE DEF x
  <2> QED
    BY <1>1, <1>2, <1>3, <1>6, <2>1, <2>2, CarriesKeep DEF Unmoved
<1> QED
  BY <1>5, <1>6 DEF CacheSetFails

-----------------------------------------------------------------------------
(* The gate.                                                                 *)

LEMMA GateOpens ==
  ASSUME NEW seen, NEW m, NEW heard, NEW brief
  PROVE  /\ Gate(seen, m, heard, brief) = "run" =>
              /\ IsComplete(brief) /\ seen.active = 0
              /\ ExplicitRun(m, heard) \/ seen.status = "awaiting_confirmation"
         /\ Gate(seen, m, heard, brief) = "playback" =>
              /\ IsComplete(brief) /\ seen.active = 0 /\ ~IsCopilotTurn(seen.active, m, heard)
BY DEF Gate

\* What the invariant says of a turn at the gate.
LEMMA AtGate ==
  ASSUME IInv, NEW s \in Sockets, turn[s].at = "gate"
  PROVE  /\ InTurn(s) /\ InBrief(s) /\ Settles(s) /\ turn[s].job = "brief" /\ turn[s].gate = "pass"
         /\ turn[s] \in Turns(Len(campaigns), turn[s].reply) /\ Sound(turn[s])
         /\ "expired" \notin faults => \A r \in Sockets : r # s => ~InTurn(r)
         /\ ~stale /\ "expired" \notin faults =>
              /\ turn[s].brief = Merge(turn[s].seen.brief, turn[s].heard.patch)
              /\ db = [turn[s].seen EXCEPT !.brief = turn[s].brief]
              /\ db.brief = turn[s].brief /\ db.active = turn[s].seen.active /\ db.status = turn[s].seen.status
<1>1. turn[s] \in Turns(Len(campaigns), turn[s].reply) /\ Sound(turn[s])
  BY DEF IInv, TurnsTyped, IsTurn
<1>2. turn[s].job = "brief" /\ turn[s].gate = "pass"
  BY <1>1 DEF Sound
<1>3. InTurn(s) /\ InBrief(s) /\ Settles(s)
  BY <1>2 DEF InTurn, UnderLock, InBrief, Settles
<1>4. "expired" \notin faults => \A r \in Sockets : r # s => ~InTurn(r)
  BY <1>3, AloneInTurn DEF IInv
<1>5. ~stale /\ "expired" \notin faults =>
        /\ turn[s].brief = Merge(turn[s].seen.brief, turn[s].heard.patch)
        /\ db = [turn[s].seen EXCEPT !.brief = turn[s].brief]
  BY <1>3 DEF IInv, InHand
<1>6. turn[s].seen \in Sessions(Len(campaigns))
  BY <1>1 DEF Turns
<1>7. ~stale /\ "expired" \notin faults =>
        db.brief = turn[s].brief /\ db.active = turn[s].seen.active /\ db.status = turn[s].seen.status
  BY <1>5, <1>6 DEF Sessions
<1> QED
  BY <1>1, <1>2, <1>3, <1>4, <1>5, <1>7

LEMMA StartCampaignKeeps ==
  ASSUME IInv, NEW s \in Sockets, StartCampaign(s)
  PROVE  IInv'
<1> DEFINE t == turn[s]
           n == Len(campaigns)
           new == [brief |-> t.brief, asked |-> ExplicitRun(t.said, t.heard) \/ t.heard.patch # Nothing]
           x == [t EXCEPT !.at = "attach", !.gate = "run", !.mine = n + 1]
<1>1. /\ t.at = "gate" /\ GateOf(s) = "run" /\ campaigns' = Append(campaigns, new)
      /\ turn' = [turn EXCEPT ![s] = x]
      /\ UNCHANGED <<db, cache, lock, messages, faults, stale, edited, shown, slipped>>
  BY DEF StartCampaign
<1>2. /\ InTurn(s) /\ InBrief(s) /\ t.job = "brief" /\ t.gate = "pass"
      /\ t \in Turns(n, t.reply) /\ Sound(t)
      /\ "expired" \notin faults => \A r \in Sockets : r # s => ~InTurn(r)
      /\ ~stale /\ "expired" \notin faults =>
           /\ t.brief = Merge(t.seen.brief, t.heard.patch)
           /\ db.brief = t.brief /\ db.active = t.seen.active /\ db.status = t.seen.status
  BY <1>1, AtGate
<1>3. /\ IsComplete(t.brief) /\ t.seen.active = 0
      /\ ExplicitRun(t.said, t.heard) \/ t.seen.status = "awaiting_confirmation"
  BY <1>1, GateOpens DEF GateOf
<1>4. campaigns \in Seq([brief : Briefs, asked : BOOLEAN]) /\ n \in Nat
  BY DEF IInv, StoresTyped
<1>5. new \in [brief : Briefs, asked : BOOLEAN]
  BY <1>2 DEF Turns
<1>6. /\ campaigns' \in Seq([brief : Briefs, asked : BOOLEAN]) /\ Len(campaigns') = n + 1
      /\ \A i \in 1 .. n : campaigns'[i] = campaigns[i]
      /\ campaigns'[n + 1] = new /\ campaigns' # <<>>
  BY <1>1, <1>4, <1>5
<1>7. IsTurn(x, n + 1) /\ Sound(x) /\ x.at = "attach" /\ x.gate = "run" /\ x.mine = n + 1
  <2>1. t.seen \in Sessions(n + 1) /\ t.copy \in Sessions(n + 1) /\ n + 1 \in 0 .. (n + 1)
    BY <1>2, <1>4, SessionTypes DEF Turns
  <2>2. /\ x \in Turns(n + 1, t.reply) /\ x.reply = t.reply
        /\ x.at = "attach" /\ x.gate = "run" /\ x.mine = n + 1 /\ x.job = t.job
    BY <1>2, <2>1 DEF Turns, UnderLock
  <2> QED
    BY <1>2, <1>4, <2>2 DEF IsTurn, Sound
<1> HIDE DEF x, new
<1>8. TurnsTyped' /\ turn'[s] = x /\ \A r \in Sockets : r # s => turn'[r] = turn[r]
  BY <1>1, <1>6, <1>7, TurnMoves DEF IInv
<1>9. StoresTyped'
  <2>1. Sessions(n) \subseteq Sessions(n + 1)
    BY <1>4, SessionTypes
  <2> QED
    BY <1>1, <1>6, <2>1 DEF IInv, StoresTyped
<1>10. Serial'
  <2>1. \A r \in Sockets : InTurn(r)' <=> InTurn(r)
    BY <1>2, <1>7, <1>8 DEF InTurn, UnderLock
  <2> QED
    BY <1>1, <2>1 DEF IInv, Serial
<1>11. InHand'
  BY <1>1, <1>7, <1>8 DEF IInv, InHand, InBrief
<1>12. Attached'
  <2>1. \A r \in Sockets : turn[r].at = "attach" => turn'[r] = turn[r]
    BY <1>1, <1>8
  <2>2. \A i \in 1 .. Len(campaigns') : i \in 1 .. n \/ i = n + 1
    BY <1>4, <1>6
  <2> QED
    BY <1>1, <1>7, <1>8, <2>1, <2>2 DEF IInv, Attached
<1>13. GateIsShut'
  <2>1. ASSUME ~stale, faults \subseteq {"cache", "gone", "ttl"}
        PROVE  n = 0
    <3>1. db.active = 0 /\ \A r \in Sockets : turn[r].at # "attach"
      BY <1>1, <1>2, <1>3, <2>1 DEF InTurn, UnderLock
    <3> QED
      BY <1>4, <2>1, <3>1 DEF IInv, GateIsShut
  <2> QED
    BY <1>1, <1>6, <1>7, <1>8, <2>1 DEF GateIsShut
<1>14. CopiesFollow'
  BY <1>1, <1>7, <1>8 DEF IInv, CopiesFollow
<1>15. PlayedBack'
  <2>1. ASSUME ~stale, faults \subseteq {"cache", "ttl"}
        PROVE  slipped \/ StartsAreShown'
    <3>1. slipped \/ StartsAreShown
      BY <2>1 DEF IInv, PlayedBack
    <3>2. slipped \/ new.asked \/ new.brief \in shown
      <4>1. CASE t.heard.patch = Nothing /\ ~ExplicitRun(t.said, t.heard)
        <5>1. t.seen.brief \in Briefs /\ new.brief = t.brief
          BY <1>2 DEF Turns, Sessions, new
        <5>2. t.brief = t.seen.brief
          BY <1>2, <2>1, <4>1, <5>1, NothingIsABrief, MergeTypes
        <5>3. Awaits(t.seen)
          BY <1>3, <4>1, <5>2 DEF Awaits
        <5> QED
          BY <1>2, <2>1, <5>1, <5>2, <5>3 DEF IInv, PlayedBack
      <4>2. CASE ~(t.heard.patch = Nothing /\ ~ExplicitRun(t.said, t.heard))
        BY <4>2 DEF new
      <4> QED
        BY <4>1, <4>2
    <3>3. DOMAIN campaigns = 1 .. n /\ DOMAIN campaigns' = 1 .. (n + 1)
      BY <1>4, <1>6
    <3>4. \A i \in 1 .. (n + 1) : i \in 1 .. n \/ i = n + 1
      BY <1>4
    <3> QED
      BY <1>1, <1>6, <3>1, <3>2, <3>3, <3>4 DEF StartsAreShown
  <2>2. \A r \in Sockets : (Settles(r) => Settles(r)') /\ (InBrief(r)' => InBrief(r) /\ turn'[r] = turn[r])
    BY <1>7, <1>8 DEF Settles, InBrief
  <2>3. \A r \in Sockets : turn'[r].gate = "playback" => turn'[r] = turn[r]
    BY <1>7, <1>8
  <2> QED
    BY <1>1, <2>1, <2>2, <2>3 DEF IInv, PlayedBack, Awaits, InTurn
<1> QED
  BY <1>8, <1>9, <1>10, <1>11, <1>12, <1>13, <1>14, <1>15 DEF IInv

\* A turn leaves the gate for its reply without a change of the session.
LEMMA LeavesGateKeeps ==
  ASSUME IInv, NEW s \in Sockets, turn[s].at = "gate", NEW x, turn' = [turn EXCEPT ![s] = x],
         IsTurn(x, Len(campaigns)), Sound(x), x.at = "compose", x.brief = turn[s].brief,
         x.gate \in {"pass", "playback"},
         x.gate = "playback" => GateOf(s) = "playback" /\ turn[s].seen.status = "awaiting_confirmation",
         x.gate = "pass" => \/ slipped'
                            \/ turn[s].seen.status # "awaiting_confirmation"
                            \/ turn[s].brief = turn[s].seen.brief,
         UNCHANGED <<db, cache, lock, campaigns, messages, faults, stale, edited, shown>>,
         slipped' \in BOOLEAN, slipped => slipped'
  PROVE  IInv'
<1> DEFINE t == turn[s]
<1>1. /\ InTurn(s) /\ InBrief(s) /\ t.job = "brief" /\ t.gate = "pass"
      /\ t \in Turns(Len(campaigns), t.reply) /\ Sound(t)
      /\ "expired" \notin faults => \A r \in Sockets : r # s => ~InTurn(r)
      /\ ~stale /\ "expired" \notin faults =>
           db.brief = t.brief /\ db.active = t.seen.active /\ db.status = t.seen.status
  BY AtGate
<1>2. TurnsTyped' /\ turn'[s] = x /\ \A r \in Sockets : r # s => turn'[r] = turn[r]
  BY TurnMoves DEF IInv
<1>3. StoresTyped'
  BY DEF IInv, StoresTyped
<1>4. Serial'
  <2>1. \A r \in Sockets : InTurn(r)' <=> InTurn(r)
    BY <1>1, <1>2 DEF InTurn, UnderLock
  <2> QED
    BY <2>1 DEF IInv, Serial
<1>5. InHand'
  BY <1>2 DEF IInv, InHand, InBrief
<1>6. \A r \in Sockets : turn[r].at = "attach" => turn'[r] = turn[r]
  BY <1>2
<1>7. Attached'
  BY <1>6 DEF IInv, Attached
<1>8. GateIsShut'
  BY <1>6 DEF IInv, GateIsShut
<1>9. CopiesFollow'
  BY <1>2 DEF IInv, CopiesFollow
<1>10. PlayedBack'
  <2>1. \A r \in Sockets : r # s => (Settles(r) => Settles(r)')
    BY <1>2 DEF Settles, InBrief
  <2>2. \A r \in Sockets : InBrief(r)' => InBrief(r) /\ turn'[r] = turn[r]
    BY <1>2 DEF InBrief
  <2>3. x.gate = "playback" => IsComplete(t.brief) /\ Settles(s)'
    BY <1>2, GateOpens DEF GateOf, Settles
  <2>4. ASSUME ~stale, faults \subseteq {"cache", "ttl"}, x.gate = "playback"
        PROVE  Awaits(db) /\ db.brief = x.brief
    BY <1>1, <2>3, <2>4 DEF Awaits
  <2>5. ASSUME ~stale, faults \subseteq {"cache", "ttl"}, x.gate = "pass", Awaits(db)
        PROVE  slipped' \/ db.brief \in shown
    <3>1. slipped' \/ t.brief = t.seen.brief
      BY <1>1, <2>5 DEF Awaits
    <3>2. t.brief = t.seen.brief => Awaits(t.seen)
      BY <1>1, <2>5 DEF Awaits
    <3>3. Awaits(t.seen) => slipped \/ t.seen.brief \in shown
      BY <1>1, <2>5 DEF IInv, PlayedBack
    <3> QED
      BY <1>1, <2>5, <3>1, <3>2, <3>3
  <2>6. \A r \in Sockets : r # s => (InTurn(r)' <=> InTurn(r))
    BY <1>2 DEF InTurn
  <2> HIDE DEF t
  <2> QED
    BY <1>2, <2>1, <2>2, <2>3, <2>4, <2>5, <2>6 DEF IInv, PlayedBack, StartsAreShown, Awaits
<1> QED
  BY <1>2, <1>3, <1>4, <1>5, <1>7, <1>8, <1>9, <1>10 DEF IInv

LEMMA PassGateKeeps ==
  ASSUME IInv, NEW s \in Sockets, PassGate(s)
  PROVE  IInv'
<1> DEFINE x == [turn[s] EXCEPT !.at = "compose"]
<1>1. turn[s].at = "gate" /\ turn' = [turn EXCEPT ![s] = x]
      /\ UNCHANGED <<db, cache, lock, campaigns, messages, faults, stale, edited, shown>>
      /\ slipped' = (slipped \/ (turn[s].seen.status = "awaiting_confirmation"
                                  /\ turn[s].brief # turn[s].seen.brief))
  BY DEF PassGate
<1>2. turn[s] \in Turns(Len(campaigns), turn[s].reply) /\ Sound(turn[s]) /\ turn[s].gate = "pass"
      /\ turn[s].job = "brief"
  BY <1>1, AtGate
<1>3. /\ x \in Turns(Len(campaigns), turn[s].reply) /\ x.reply = turn[s].reply /\ x.at = "compose"
      /\ x.brief = turn[s].brief /\ x.gate = "pass" /\ x.job = "brief"
  BY <1>2 DEF Turns, UnderLock
<1>4. IsTurn(x, Len(campaigns)) /\ Sound(x)
  BY <1>3 DEF IsTurn, Sound
<1> HIDE DEF x
<1>5. slipped' \in BOOLEAN /\ (slipped => slipped')
      /\ \/ slipped' \/ turn[s].seen.status # "awaiting_confirmation" \/ turn[s].brief = turn[s].seen.brief
  BY <1>1 DEF IInv, StoresTyped
<1> QED
  BY <1>1, <1>3, <1>4, <1>5, LeavesGateKeeps

-----------------------------------------------------------------------------
(* The changes of the row.                                                    *)

LEMMA WriteKeeps ==
  ASSUME IInv, NEW s \in Sockets, NEW t, Write(s, t), turn[s].at \in {"acked", "gate", "attach"},
         IsTurn(t, Len(campaigns)), Sound([t EXCEPT !.at = "written"]),
         t.job = "attach" => t.mine # 0,
         UNCHANGED <<cache, lock, campaigns, messages, faults, stale, shown, slipped>>,
         edited' \in Briefs
  PROVE  /\ StoresTyped' /\ TurnsTyped' /\ Serial' /\ CopiesFollow'
         /\ db' = Changed(db, t)
         /\ turn'[s].at = "written" /\ turn'[s].seen = t.seen /\ turn'[s].heard = t.heard
         /\ turn'[s].brief = t.brief /\ turn'[s].gate = t.gate /\ turn'[s].job = t.job
         /\ \A r \in Sockets : r # s => turn'[r] = turn[r]
         /\ InTurn(s)
         /\ "expired" \notin faults => \A r \in Sockets : r # s => ~InTurn(r) /\ ~InTurn(r)'
<1> DEFINE x == [t EXCEPT !.at = "written"]
           n == Len(campaigns)
<1>1. db' = Changed(db, t) /\ turn' = [turn EXCEPT ![s] = x]
  BY DEF Write
<1>2. t \in Turns(n, t.reply) /\ n \in Nat /\ db \in Sessions(n)
  BY DEF IsTurn, IInv, StoresTyped
<1>3. /\ x \in Turns(n, t.reply) /\ x.reply = t.reply /\ x.at = "written" /\ x.seen = t.seen
      /\ x.heard = t.heard /\ x.brief = t.brief /\ x.gate = t.gate /\ x.job = t.job /\ x.mine = t.mine
  BY <1>2 DEF Turns, UnderLock
<1>4. t.job \in Jobs /\ t.brief \in Briefs /\ t.mine \in 0 .. n
  BY <1>2 DEF Turns
<1>5. IsTurn(x, n) /\ Sound(x)
  BY <1>3 DEF IsTurn
<1> HIDE DEF x
<1>6. db' \in Sessions(n) /\ Changed(db', t) = db'
  BY <1>1, <1>2, <1>4, ChangedTypes
<1>7. TurnsTyped' /\ turn'[s] = x /\ \A r \in Sockets : r # s => turn'[r] = turn[r]
  BY <1>1, <1>5, TurnMoves DEF IInv
<1>8. StoresTyped'
  BY <1>6 DEF IInv, StoresTyped
<1>9. InTurn(s) /\ \A r \in Sockets : InTurn(r)' <=> InTurn(r)
  BY <1>3, <1>7 DEF InTurn, UnderLock
<1>10. Serial'
  BY <1>9 DEF IInv, Serial
<1>11. "expired" \notin faults => \A r \in Sockets : r # s => ~InTurn(r) /\ ~InTurn(r)'
  BY <1>9, AloneInTurn DEF IInv
<1>12. CopiesFollow'
  <2>1. \A y : Changed(y, x) = Changed(y, t)
    BY <1>3 DEF Changed
  <2>2. ASSUME ~stale, faults \subseteq {"gone", "ttl"}
        PROVE  cache \subseteq {db} /\ \A r \in Sockets : r # s => turn[r].at \notin {"written", "patch"}
    <3>1. \A r \in Sockets : turn[r].at \notin {"written", "patch"}
      BY <1>11, <2>2 DEF InTurn, UnderLock
    <3> QED
      BY <2>2, <3>1 DEF IInv, CopiesFollow
  <2>3. Changed(db, x) = db' /\ Changed(db', x) = db'
    BY <1>1, <1>6, <2>1
  <2> QED
    BY <1>3, <1>7, <2>2, <2>3 DEF CopiesFollow
<1> QED
  BY <1>1, <1>3, <1>7, <1>8, <1>9, <1>10, <1>11, <1>12

LEMMA SettlingIsInTurn ==
  ASSUME NEW s \in Sockets, Settles(s) \/ InBrief(s) \/ turn[s].at \in {"acked", "attach", "gate"}
  PROVE  InTurn(s)
BY DEF Settles, InBrief, InTurn, UnderLock

LEMMA UnderstandKeeps ==
  ASSUME IInv, NEW s \in Sockets, Understand(s)
  PROVE  IInv'
<1>1. PICK heard \in Understandings(turn[s].said) :
        /\ Write(s, [turn[s] EXCEPT !.heard = heard, !.job = "brief",
                                    !.brief = Merge(turn[s].seen.brief, heard.patch)])
        /\ edited' = Merge(edited, heard.patch)
  BY DEF Understand
<1> DEFINE t == [turn[s] EXCEPT !.heard = heard, !.job = "brief",
                                !.brief = Merge(turn[s].seen.brief, heard.patch)]
           n == Len(campaigns)
<1>2. turn[s].at = "acked" /\ UNCHANGED <<cache, lock, campaigns, messages, faults, stale, shown, slipped>>
  BY DEF Understand
<1>3. turn[s] \in Turns(n, turn[s].reply) /\ turn[s].gate = "pass" /\ n \in Nat
  BY <1>2 DEF IInv, StoresTyped, TurnsTyped, IsTurn, Sound
<1>4. heard \in Heard /\ heard.patch \in Briefs
  <2>1. heard \in Heard
    BY <1>3, UnderstandingTypes DEF Turns
  <2> QED
    BY <2>1 DEF Heard
<1>5. Merge(turn[s].seen.brief, heard.patch) \in Briefs /\ edited' \in Briefs
  BY <1>1, <1>3, <1>4, MergeTypes DEF Turns, Sessions, IInv, StoresTyped
<1>6. /\ t \in Turns(n, turn[s].reply) /\ t.reply = turn[s].reply /\ t.seen = turn[s].seen /\ t.heard = heard
      /\ t.brief = Merge(t.seen.brief, heard.patch) /\ t.gate = "pass" /\ t.job = "brief"
  BY <1>3, <1>4, <1>5 DEF Turns, Jobs
<1> HIDE DEF t
<1>7. IsTurn(t, n) /\ Sound([t EXCEPT !.at = "written"])
  <2>1. [t EXCEPT !.at = "written"].at = "written" /\ [t EXCEPT !.at = "written"].job = "brief"
        /\ [t EXCEPT !.at = "written"].gate = "pass"
    BY <1>6 DEF Turns
  <2> QED
    BY <1>6, <2>1 DEF IsTurn, Sound
<1>8. Write(s, t)
  BY <1>1 DEF t
<1>9. /\ StoresTyped' /\ TurnsTyped' /\ Serial' /\ CopiesFollow'
      /\ db' = Changed(db, t)
      /\ turn'[s].at = "written" /\ turn'[s].seen = t.seen /\ turn'[s].heard = t.heard
      /\ turn'[s].brief = t.brief /\ turn'[s].gate = t.gate /\ turn'[s].job = t.job
      /\ \A r \in Sockets : r # s => turn'[r] = turn[r]
      /\ InTurn(s)
      /\ "expired" \notin faults => \A r \in Sockets : r # s => ~InTurn(r) /\ ~InTurn(r)'
  BY <1>2, <1>5, <1>6, <1>7, <1>8, WriteKeeps
<1>10. /\ db' = [db EXCEPT !.brief = t.brief] /\ db'.brief = t.brief
       /\ db'.status = db.status /\ db'.active = db.active /\ db'.campaigns = db.campaigns
  BY <1>6, <1>9 DEF Changed, IInv, StoresTyped, Sessions
<1>11. ~stale /\ "expired" \notin faults => t.seen = db /\ db.brief = edited
  BY <1>2, <1>6 DEF IInv, InHand
<1>12. InHand'
  <2>1. "expired" \notin faults => \A r \in Sockets : r # s => turn'[r].at # "acked" /\ ~InBrief(r)'
    BY <1>9 DEF InBrief, InTurn, UnderLock
  <2> QED
    BY <1>1, <1>2, <1>6, <1>9, <1>10, <1>11, <2>1 DEF InHand
<1>13. \A r \in Sockets : turn[r].at = "attach" => turn'[r] = turn[r]
  BY <1>2, <1>9
<1>14. Attached'
  BY <1>2, <1>10, <1>13 DEF IInv, Attached
<1>15. GateIsShut'
  BY <1>2, <1>10, <1>13 DEF IInv, GateIsShut
<1>16. PlayedBack'
  <2> SUFFICES ASSUME ~stale, faults \subseteq {"cache", "ttl"}
               PROVE  PlayedBack'
    BY <1>2 DEF PlayedBack
  <2>1. \A r \in Sockets : r # s => ~InBrief(r)' /\ ~InTurn(r)' /\ ~Settles(r)
    BY <1>9 DEF InBrief, InTurn, UnderLock, Settles
  <2>2. Settles(s)' /\ ~Settles(s)
    BY <1>2, <1>6, <1>9 DEF Settles, InBrief
  <2>3. Awaits(db) => slipped \/ db.brief \in shown
    BY <2>1, <2>2 DEF IInv, PlayedBack
  <2> QED
    BY <1>2, <1>6, <1>9, <1>10, <1>11, <2>1, <2>2, <2>3 DEF IInv, PlayedBack, StartsAreShown
<1> QED
  BY <1>9, <1>12, <1>14, <1>15, <1>16 DEF IInv

LEMMA AttachKeeps ==
  ASSUME IInv, NEW s \in Sockets, Attach(s)
  PROVE  IInv'
<1> DEFINE t == [turn[s] EXCEPT !.job = "attach"]
           n == Len(campaigns)
<1>1. /\ turn[s].at = "attach" /\ Write(s, t)
      /\ UNCHANGED <<cache, lock, campaigns, messages, faults, stale, edited, shown, slipped>>
  BY DEF Attach
<1>2. turn[s] \in Turns(n, turn[s].reply) /\ turn[s].gate = "run" /\ turn[s].mine # 0 /\ n \in Nat
  BY <1>1 DEF IInv, StoresTyped, TurnsTyped, IsTurn, Sound
<1>3. /\ t \in Turns(n, turn[s].reply) /\ t.reply = turn[s].reply /\ t.seen = turn[s].seen
      /\ t.gate = "run" /\ t.job = "attach" /\ t.mine = turn[s].mine
  BY <1>2 DEF Turns, Jobs
<1> HIDE DEF t
<1>4. IsTurn(t, n) /\ Sound([t EXCEPT !.at = "written"])
  <2>1. [t EXCEPT !.at = "written"].at = "written" /\ [t EXCEPT !.at = "written"].job = "attach"
        /\ [t EXCEPT !.at = "written"].gate = "run" /\ [t EXCEPT !.at = "written"].mine = turn[s].mine
    BY <1>3 DEF Turns
  <2> QED
    BY <1>2, <1>3, <2>1 DEF IsTurn, Sound
<1>5. edited' \in Briefs
  BY <1>1 DEF IInv, StoresTyped
<1>6. /\ StoresTyped' /\ TurnsTyped' /\ Serial' /\ CopiesFollow'
      /\ db' = Changed(db, t)
      /\ turn'[s].at = "written" /\ turn'[s].gate = "run" /\ turn'[s].job = "attach"
      /\ \A r \in Sockets : r # s => turn'[r] = turn[r]
      /\ "expired" \notin faults => \A r \in Sockets : r # s => ~InTurn(r) /\ ~InTurn(r)'
  BY <1>1, <1>2, <1>3, <1>4, <1>5, WriteKeeps
<1>7. /\ db'.brief = db.brief /\ db'.status = "processing" /\ db'.active = t.mine
      /\ db'.campaigns = db.campaigns \union {t.mine}
  BY <1>3, <1>6 DEF Changed, IInv, StoresTyped, Sessions
<1>8. InHand'
  <2>1. \A r \in Sockets : "expired" \notin faults => turn'[r].at # "acked" /\ ~InBrief(r)'
    BY <1>6 DEF InBrief, InTurn, UnderLock
  <2> QED
    BY <1>1, <1>7, <2>1 DEF IInv, InHand
<1>9. \A r \in Sockets : r # s /\ turn[r].at = "attach" => turn'[r] = turn[r]
  BY <1>6
<1>10. Attached'
  BY <1>1, <1>3, <1>7, <1>9 DEF IInv, Attached
<1>11. GateIsShut'
  BY <1>1, <1>2, <1>3, <1>7 DEF IInv, GateIsShut
<1>12. PlayedBack'
  <2> SUFFICES ASSUME ~stale, faults \subseteq {"cache", "ttl"}
               PROVE  PlayedBack'
    BY <1>1 DEF PlayedBack
  <2>1. \A r \in Sockets : r # s => ~InBrief(r)' /\ ~InTurn(r)'
    BY <1>6 DEF InBrief, InTurn, UnderLock
  <2>2. ~InBrief(s)' /\ ~Awaits(db)'
    BY <1>6, <1>7 DEF InBrief, Awaits
  <2> QED
    BY <1>1, <1>6, <1>7, <2>1, <2>2 DEF IInv, PlayedBack, StartsAreShown
<1> QED
  BY <1>6, <1>8, <1>10, <1>11, <1>12 DEF IInv

\* The status is written by a turn at the gate, whose decision is to play the brief
\* back or that it is incomplete again.
LEMMA StatusKeeps ==
  ASSUME IInv, NEW s \in Sockets, turn[s].at = "gate", NEW t, Write(s, t), IsTurn(t, Len(campaigns)),
         Sound([t EXCEPT !.at = "written"]), t.seen = turn[s].seen, t.brief = turn[s].brief,
         \/ t.gate = "playback" /\ t.job = "awaiting_confirmation" /\ GateOf(s) = "playback"
         \/ t.gate = "pass" /\ t.job = "collecting",
         UNCHANGED <<cache, lock, campaigns, messages, faults, stale, edited, shown, slipped>>
  PROVE  IInv'
<1>1. /\ InTurn(s) /\ t.job # "attach"
      /\ ~stale /\ "expired" \notin faults => db.brief = t.brief /\ db.active = t.seen.active
  BY AtGate
<1>2. edited' \in Briefs
  BY DEF IInv, StoresTyped
<1>3. /\ StoresTyped' /\ TurnsTyped' /\ Serial' /\ CopiesFollow'
      /\ db' = Changed(db, t)
      /\ turn'[s].at = "written" /\ turn'[s].brief = t.brief /\ turn'[s].gate = t.gate /\ turn'[s].job = t.job
      /\ \A r \in Sockets : r # s => turn'[r] = turn[r]
      /\ "expired" \notin faults => \A r \in Sockets : r # s => ~InTurn(r) /\ ~InTurn(r)'
  BY <1>1, <1>2, WriteKeeps
<1>4. /\ db'.brief = db.brief /\ db'.status = t.job /\ db'.active = db.active /\ db'.campaigns = db.campaigns
  BY <1>3 DEF Changed, IInv, StoresTyped, Sessions
<1>5. \A r \in Sockets : "expired" \notin faults => turn'[r].at # "acked" /\ ~InBrief(r)'
  BY <1>3 DEF InBrief, InTurn, UnderLock
<1>6. InHand'
  BY <1>4, <1>5 DEF IInv, InHand
<1>7. \A r \in Sockets : turn[r].at = "attach" => turn'[r] = turn[r]
  BY <1>3
<1>8. Attached'
  BY <1>4, <1>7 DEF IInv, Attached
<1>9. GateIsShut'
  BY <1>4, <1>7 DEF IInv, GateIsShut
<1>10. PlayedBack'
  <2> SUFFICES ASSUME ~stale, faults \subseteq {"cache", "ttl"}
               PROVE  PlayedBack'
    BY DEF PlayedBack
  <2>1. \A r \in Sockets : r # s => ~InTurn(r)'
    BY <1>3
  <2>2. t.gate = "playback" => IsComplete(t.brief) /\ t.seen.active = 0 /\ Settles(s)'
    BY <1>3, GateOpens DEF GateOf, Settles
  <2>3. t.gate = "playback" => Awaits(db)' /\ db'.brief = turn'[s].brief /\ db'.active = 0
    BY <1>1, <1>3, <1>4, <2>2 DEF Awaits
  <2>4. t.gate = "pass" => db'.status # "awaiting_confirmation"
    BY <1>4
  <2>5. db'.status = "awaiting_confirmation" => db'.active = 0
    BY <2>3, <2>4
  <2>6. Awaits(db)' => Settles(s)'
    BY <2>2, <2>4 DEF Awaits
  <2>7. slipped \/ StartsAreShown
    BY DEF IInv, PlayedBack
  <2>8. \A r \in Sockets : turn'[r].gate = "playback" /\ InTurn(r)' =>
                             Awaits(db)' /\ db'.brief = turn'[r].brief
    BY <1>3, <2>1, <2>3
  <2> QED
    BY <1>5, <2>5, <2>6, <2>7, <2>8 DEF PlayedBack, StartsAreShown
<1> QED
  BY <1>3, <1>6, <1>8, <1>9, <1>10 DEF IInv

LEMMA PlayBackKeeps ==
  ASSUME IInv, NEW s \in Sockets, PlayBack(s)
  PROVE  IInv'
<1> DEFINE n == Len(campaigns)
<1>1. turn[s].at = "gate" /\ GateOf(s) = "playback"
      /\ UNCHANGED <<cache, lock, campaigns, messages, faults, stale, edited, shown, slipped>>
  BY DEF PlayBack
<1>2. turn[s] \in Turns(n, turn[s].reply) /\ turn[s].job = "brief"
  BY <1>1, AtGate
<1>3. ~IsCopilotTurn(turn[s].seen.active, turn[s].said, turn[s].heard)
  BY <1>1, GateOpens DEF GateOf
<1>4. CASE turn[s].seen.status = "awaiting_confirmation"
  <2> DEFINE x == [turn[s] EXCEPT !.at = "compose", !.gate = "playback"]
  <2>1. turn' = [turn EXCEPT ![s] = x] /\ db' = db
    BY <1>4 DEF PlayBack
  <2>2. /\ x \in Turns(n, turn[s].reply) /\ x.reply = turn[s].reply /\ x.at = "compose"
        /\ x.brief = turn[s].brief /\ x.gate = "playback" /\ x.job = "brief"
        /\ x.seen = turn[s].seen /\ x.said = turn[s].said /\ x.heard = turn[s].heard
    BY <1>2 DEF Turns, UnderLock
  <2> HIDE DEF x
  <2>3. IsTurn(x, n) /\ Sound(x)
    BY <1>3, <2>2 DEF IsTurn, Sound
  <2>4. slipped' \in BOOLEAN /\ (slipped => slipped')
    BY <1>1 DEF IInv, StoresTyped
  <2> QED
    BY <1>1, <1>4, <2>1, <2>2, <2>3, <2>4, LeavesGateKeeps
<1>5. CASE turn[s].seen.status # "awaiting_confirmation"
  <2> DEFINE t == [turn[s] EXCEPT !.gate = "playback", !.job = "awaiting_confirmation"]
             x == [t EXCEPT !.at = "written"]
  <2>1. Write(s, t)
    BY <1>5 DEF PlayBack
  <2>2. /\ t \in Turns(n, turn[s].reply) /\ t.reply = turn[s].reply
        /\ t.brief = turn[s].brief /\ t.gate = "playback" /\ t.job = "awaiting_confirmation"
        /\ t.seen = turn[s].seen /\ t.said = turn[s].said /\ t.heard = turn[s].heard
    BY <1>2 DEF Turns, Jobs
  <2> HIDE DEF t
  <2>3. /\ x.at = "written" /\ x.gate = "playback" /\ x.job = "awaiting_confirmation"
        /\ x.seen = turn[s].seen /\ x.said = turn[s].said /\ x.heard = turn[s].heard
    BY <2>2 DEF Turns
  <2>4. IsTurn(t, n) /\ Sound(x)
    BY <1>3, <2>2, <2>3 DEF IsTurn, Sound
  <2> QED
    BY <1>1, <2>1, <2>2, <2>4, StatusKeeps
<1> QED
  BY <1>4, <1>5

LEMMA CollectAgainKeeps ==
  ASSUME IInv, NEW s \in Sockets, CollectAgain(s)
  PROVE  IInv'
<1> DEFINE n == Len(campaigns)
           t == [turn[s] EXCEPT !.job = "collecting"]
           x == [t EXCEPT !.at = "written"]
<1>1. turn[s].at = "gate" /\ Write(s, t)
      /\ UNCHANGED <<cache, lock, campaigns, messages, faults, stale, edited, shown, slipped>>
  BY DEF CollectAgain
<1>2. turn[s] \in Turns(n, turn[s].reply) /\ turn[s].gate = "pass"
  BY <1>1, AtGate
<1>3. /\ t \in Turns(n, turn[s].reply) /\ t.reply = turn[s].reply
      /\ t.brief = turn[s].brief /\ t.gate = "pass" /\ t.job = "collecting" /\ t.seen = turn[s].seen
  BY <1>2 DEF Turns, Jobs
<1> HIDE DEF t
<1>4. x.at = "written" /\ x.gate = "pass" /\ x.job = "collecting"
  BY <1>3 DEF Turns
<1>5. IsTurn(t, n) /\ Sound(x)
  BY <1>3, <1>4 DEF IsTurn, Sound
<1> QED
  BY <1>1, <1>3, <1>5, StatusKeeps

-----------------------------------------------------------------------------
(* The theorems.                                                             *)

LEMMA InitIInv == Init => IInv
<1> SUFFICES ASSUME Init PROVE IInv
  OBVIOUS
<1>1. Len(campaigns) = 0 /\ campaigns \in Seq([brief : Briefs, asked : BOOLEAN])
  BY DEF Init
<1>2. NewSession \in Sessions(Len(campaigns)) /\ NewSession.status = "collecting" /\ NewSession.brief = Nothing
  <2>1. NewSession \in Sessions(Len(campaigns))
    BY <1>1, SessionTypes
  <2> QED
    BY <2>1 DEF NewSession
<1>3. StoresTyped
  <2>1. lock \in BOOLEAN /\ stale \in BOOLEAN /\ slipped \in BOOLEAN
    BY DEF Init
  <2>2. messages \in 0 .. MaxMessages /\ faults \subseteq Kinds /\ edited \in Briefs /\ shown \subseteq Briefs
    BY NothingIsABrief, BoundsAreNumbers DEF Init
  <2>3. db \in Sessions(Len(campaigns)) /\ cache \subseteq Sessions(Len(campaigns))
    BY <1>2 DEF Init
  <2> QED
    BY <1>1, <2>1, <2>2, <2>3 DEF StoresTyped
<1>4. DOMAIN turn = Sockets /\ \A s \in Sockets : turn[s] = Idle
  BY DEF Init
<1>5. TurnsTyped
  BY <1>1, <1>4, IdleTypes DEF TurnsTyped
<1>6. Serial /\ InHand
  <2>1. \A s \in Sockets : ~InTurn(s) /\ ~InBrief(s) /\ turn[s].at # "acked"
    BY <1>4, IdleTypes DEF InTurn, InBrief, UnderLock
  <2>2. db.brief = edited
    BY <1>2 DEF Init
  <2> QED
    BY <2>1, <2>2 DEF Serial, InHand
<1>7. Attached /\ GateIsShut
  <2>1. campaigns = <<>> /\ \A i \in 1 .. Len(campaigns) : FALSE
    BY <1>1 DEF Init
  <2> QED
    BY <1>1, <2>1 DEF Attached, GateIsShut
<1>8. CopiesFollow
  BY <1>4, IdleTypes DEF Init, CopiesFollow
<1>9. PlayedBack
  <2>1. StartsAreShown
    BY <1>1 DEF StartsAreShown
  <2> QED
    BY <1>2, <1>4, <2>1, IdleTypes DEF Init, PlayedBack, Awaits, InBrief, InTurn
<1> QED
  BY <1>3, <1>5, <1>6, <1>7, <1>8, <1>9 DEF IInv

LEMMA StutterKeeps ==
  ASSUME IInv, UNCHANGED vars
  PROVE  IInv'
<1>1. UNCHANGED <<db, cache, lock, turn, campaigns, messages, faults, stale, edited, shown, slipped>>
  BY DEF vars
<1>2. StoresTyped' /\ TurnsTyped' /\ Serial' /\ InHand'
  BY <1>1 DEF IInv, StoresTyped, TurnsTyped, Serial, InHand, InTurn, InBrief
<1>3. Attached' /\ GateIsShut' /\ CopiesFollow'
  BY <1>1 DEF IInv, Attached, GateIsShut, CopiesFollow
<1>4. PlayedBack'
  BY <1>1 DEF IInv, PlayedBack, InTurn, InBrief, Awaits, Settles, StartsAreShown
<1> QED
  BY <1>2, <1>3, <1>4 DEF IInv

LEMMA NextKeeps ==
  ASSUME IInv, [Next]_vars
  PROVE  IInv'
<1>1. CASE UNCHANGED vars
  BY <1>1, StutterKeeps
<1>2. ASSUME NEW s \in Sockets, NEW m \in Messages, Receive(s, m)
      PROVE  IInv'
  BY <1>2, ReceiveKeeps
<1>3. ASSUME NEW s \in Sockets, Fill(s) \/ Acquire(s) \/ Busy(s)
      PROVE  IInv'
  BY <1>3, FillKeeps, AcquireKeeps, BusyKeeps
<1>4. ASSUME NEW s \in Sockets, TurnStep(s)
      PROVE  IInv'
  <2>1. CASE AnswerOutright(s) \/ Understand(s) \/ GetAgain(s) \/ Patch(s)
    BY <2>1, AnswerOutrightKeeps, UnderstandKeeps, GetAgainKeeps, PatchKeeps
  <2>2. CASE StartCampaign(s) \/ Attach(s) \/ PlayBack(s) \/ CollectAgain(s) \/ PassGate(s)
    BY <2>2, StartCampaignKeeps, AttachKeeps, PlayBackKeeps, CollectAgainKeeps, PassGateKeeps
  <2>3. CASE Compose(s) \/ Release(s)
    BY <2>3, ComposeKeeps, ReleaseKeeps
  <2> QED
    BY <1>4, <2>1, <2>2, <2>3 DEF TurnStep
<1>5. ASSUME NEW s \in Sockets, CacheSetFails(s) \/ Raise(s) \/ Disconnect(s) \/ Crash(s)
      PROVE  IInv'
  BY <1>5, CacheSetFailsKeeps, FailureKeeps
<1>6. CASE ExpireAbandoned \/ ExpireInTurn \/ CacheExpires
  BY <1>6, TimersKeep
<1> QED
  BY <1>1, <1>2, <1>3, <1>4, <1>5, <1>6 DEF Next

LEMMA InvariantHolds == Spec => []IInv
BY InitIInv, NextKeeps, PTL DEF Spec

\* Whatever the sockets send and whatever fails, the session, its copies and what
\* the handlers have of it are sessions, of campaigns that were started.
THEOREM TypeCorrect == Spec => []TypeOK
<1>1. IInv => TypeOK
  <2> SUFFICES ASSUME IInv PROVE TypeOK
    OBVIOUS
  <2>1. \A s \in Sockets : turn[s].at \in BeforeLock \union UnderLock /\ turn[s].seen \in Sessions(Len(campaigns))
    BY DEF IInv, TurnsTyped, IsTurn, Turns
  <2> QED
    BY <2>1 DEF IInv, StoresTyped, TypeOK, Kinds
<1> QED
  BY <1>1, InvariantHolds, PTL

\* For any number of sockets: the lock keeps the turns of a conversation apart for
\* as long as it does not expire on one that is at work.
THEOREM TurnsAreSerial == Spec => []SerialUnlessExpired
<1>1. IInv => SerialUnlessExpired
  BY DEF IInv, Serial, SerialUnlessExpired
<1> QED
  BY <1>1, InvariantHolds, PTL

\* For any messages: a second campaign takes a session that was outdated when it was
\* read, or an exception, a crash or an expiry between the start and the attachment.
THEOREM OneCampaignIsStarted == Spec => []OneCampaign
<1>1. IInv => OneCampaign
  BY DEF IInv, GateIsShut, OneCampaign
<1> QED
  BY <1>1, InvariantHolds, PTL

\* No campaign is lost to its conversation by an overlap of two turns, a lock that
\* expired, a cache that fails or a client that leaves.
THEOREM CampaignsAreAttached == Spec => []CampaignsAreKnown
<1>1. IInv => CampaignsAreKnown
  <2> SUFFICES ASSUME IInv, Quiet, faults \intersect {"error", "crash"} = {}
               PROVE  db.campaigns = 1 .. Len(campaigns)
    BY DEF CampaignsAreKnown
  <2>1. db.campaigns \subseteq 1 .. Len(campaigns)
    BY DEF IInv, StoresTyped, Sessions
  <2>2. \A s \in Sockets : turn[s].at = "idle"
    BY IdleTypes DEF Quiet
  <2> QED
    BY <2>1, <2>2 DEF IInv, Attached
<1> QED
  BY <1>1, InvariantHolds, PTL

\* Between turns a reader of the cache sees what a reader of the row sees, unless
\* a socket cached a row that a turn was changing.
THEOREM CopiesAgree == Spec => []CacheAgrees
<1>1. IInv => CacheAgrees
  <2> SUFFICES ASSUME IInv, Quiet, ~stale, faults \subseteq {"gone", "ttl"}
               PROVE  cache \subseteq {db}
    BY DEF CacheAgrees
  <2>1. \A s \in Sockets : turn[s].at = "idle"
    BY IdleTypes DEF Quiet
  <2> QED
    BY <2>1 DEF IInv, CopiesFollow
<1> QED
  BY <1>1, InvariantHolds, PTL

\* Every patch that a turn understood is in the stored brief, whatever became of
\* the turn afterwards.
THEOREM EditsAreKept == Spec => []NoEditIsLost
<1>1. IInv => NoEditIsLost
  BY DEF IInv, InHand, NoEditIsLost
<1> QED
  BY <1>1, InvariantHolds, PTL

\* A bare yes starts what was played back, unless a question changed it meanwhile,
\* and after a playback the conversation does wait for the yes.
THEOREM YesIsToThePlayback == Spec => []ConfirmedAsShown
<1>1. IInv => ConfirmedAsShown
  <2> SUFFICES ASSUME IInv, ~stale, faults \subseteq {"cache", "ttl"}
               PROVE  /\ slipped \/ StartsAreShown
                      /\ \A s \in Sockets :
                           turn[s].at = "release" /\ turn[s].gate = "playback" =>
                             db.status = "awaiting_confirmation" /\ IsComplete(db.brief) /\ db.active = 0
    BY DEF ConfirmedAsShown
  <2> QED
    BY DEF IInv, PlayedBack, InTurn, UnderLock, Awaits
<1> QED
  BY <1>1, InvariantHolds, PTL
=============================================================================
