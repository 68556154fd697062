------------------------ MODULE AirtableMirrorProofs ------------------------
(***************************************************************************)
(* Theorems about AirtableMirror, for any reviews, calls, edits of the grid *)
(* and numbers of failures.                                                 *)
(***************************************************************************)
EXTENDS AirtableMirror, FiniteSetTheorems, TLAPS

GridNames == {"Approved", "Rejected", "Edited"}

\* A call the API works on. Its decision is named as in the grid until it is
\* validated, and as in the database from then on.
Busy == [at : Places \ {"free"}, via : {"grid", "app"}, review : Reviews,
         decision : Decisions \union GridNames, noted : BOOLEAN, known : BOOLEAN]
Translated == {"check", "update", "sync", "syncLast", "resume", "mark"}

CallsAreTyped ==
  /\ call \in [Calls -> {Free} \union Busy]
  /\ \A c \in Calls : call[c].at = "validate" => call[c].decision \in GridNames
  /\ \A c \in Calls : call[c].at \in Translated => call[c].decision \in Decisions

OneWaiting == waiting = {} \/ \E c \in Calls : waiting = {c}

\* Whoever is about to write the grid, or to mark a row as synced, works for a
\* review that is decided ...
MarkedIsDecided ==
  \A c \in Calls : call[c].at \in {"sync", "syncLast", "resume", "mark"}
                     => db[call[c].review] # "pending"

\* ... with its decision, if the review was not decided twice.
WritesTheDecision ==
  \A c \in Calls : AtSync(c) /\ call[c].review \notin doubt
                     => call[c].decision = db[call[c].review]

\* A row without doubt shows the decision, or a call is about to write it.
ShownOrComing ==
  \A r \in Reviews \ doubt : db[r] # "pending" =>
    \/ grid[r].decision = InGrid(db[r])
    \/ \E c \in Calls : AtSync(c) /\ call[c].review = r

\* The inductive invariant: what the state is made of, and what it says.
Typed == TypeOK /\ CallsAreTyped /\ OneWaiting
Agrees == SyncedIsDecided /\ MarkedIsDecided /\ WritesTheDecision /\ ShownOrComing

-----------------------------------------------------------------------------
(* How the handlers move a call.                                              *)

LEMMA FreeIsAtFree == \A x \in {Free} \union Busy : x = Free <=> x.at = "free"
BY DEF Free, Busy

LEMMA InGridNames == \A d \in Decisions : InGrid(d) \in GridNames
BY DEF Decisions, InGrid, GridNames

LEMMA GoesMoves ==
  ASSUME CallsAreTyped, NEW c \in Calls, call[c].at # "free",
         NEW p \in Places \ {"free", "validate"}, Goes(c, p),
         p \in Translated => call[c].decision \in Decisions
  PROVE  /\ CallsAreTyped'
         /\ call'[c].at = p /\ call'[c].via = call[c].via /\ call'[c].review = call[c].review
         /\ call'[c].decision = call[c].decision /\ call'[c].noted = call[c].noted
         /\ \A d \in Calls : d # c => call'[d] = call[d]
<1>1. call[c] \in Busy
  BY FreeIsAtFree DEF CallsAreTyped, Free
<1>2. call' = [call EXCEPT ![c] = [call[c] EXCEPT !.at = p]]
  BY DEF Goes
<1>3. [call[c] EXCEPT !.at = p] \in Busy
  BY <1>1 DEF Busy
<1>4. call'[c] = [call[c] EXCEPT !.at = p] /\ \A d \in Calls : d # c => call'[d] = call[d]
  BY <1>2 DEF CallsAreTyped
<1>5. /\ call'[c].at = p /\ call'[c].via = call[c].via /\ call'[c].review = call[c].review
      /\ call'[c].decision = call[c].decision /\ call'[c].noted = call[c].noted
  BY <1>1, <1>4 DEF Busy
<1>6. call' \in [Calls -> {Free} \union Busy]
  BY <1>2, <1>3 DEF CallsAreTyped
<1> QED
  BY <1>4, <1>5, <1>6 DEF CallsAreTyped

LEMMA EndsMoves ==
  ASSUME Typed, NEW c \in Calls, Ends(c)
  PROVE  /\ CallsAreTyped' /\ OneWaiting' /\ waiting' \subseteq Calls
         /\ call'[c].at = "free" /\ \A d \in Calls : d # c => call'[d] = call[d]
<1>1. call' = [call EXCEPT ![c] = Free] /\ waiting' = waiting \ {c} /\ Free.at = "free"
  BY DEF Ends, Free
<1>2. call'[c] = Free /\ \A d \in Calls : d # c => call'[d] = call[d]
  BY <1>1 DEF Typed, CallsAreTyped
<1>3. call' \in [Calls -> {Free} \union Busy]
  BY <1>1 DEF Typed, CallsAreTyped
<1>4. CallsAreTyped'
  BY <1>1, <1>2, <1>3 DEF Typed, CallsAreTyped, Translated
<1>5. OneWaiting' /\ waiting' \subseteq Calls
  BY <1>1 DEF Typed, OneWaiting, TypeOK
<1> QED
  BY <1>1, <1>2, <1>4, <1>5

\* A new call starts where no other is.
LEMMA StartMoves ==
  ASSUME CallsAreTyped, NEW c \in Calls, NEW x \in Busy, call' = [call EXCEPT ![c] = x],
         x.at = "validate" => x.decision \in GridNames,
         x.at \in Translated => x.decision \in Decisions
  PROVE  CallsAreTyped' /\ call'[c] = x /\ \A d \in Calls : d # c => call'[d] = call[d]
<1>1. call'[c] = x /\ \A d \in Calls : d # c => call'[d] = call[d]
  BY DEF CallsAreTyped
<1>2. call' \in [Calls -> {Free} \union Busy]
  BY DEF CallsAreTyped
<1> QED
  BY <1>1, <1>2 DEF CallsAreTyped

LEMMA PlacesOfCalls == CallsAreTyped => \A c \in Calls : call[c].at \in Places
BY DEF CallsAreTyped, Busy, Free, Places

LEMMA OneWaitingIsOne == OneWaiting => Cardinality(waiting) <= 1
<1>1. Cardinality({}) = 0 /\ \A c : Cardinality({c}) = 1
  BY FS_EmptySet, FS_Singleton
<1>2. OneWaiting => Cardinality(waiting) \in {0, 1}
  BY <1>1 DEF OneWaiting
<1>3. \A n \in {0, 1} : n <= 1
  OBVIOUS
<1> QED
  BY <1>2, <1>3

GridRows == [decision : {"none", "Pending", "Approved", "Rejected", "Edited"},
             noted : BOOLEAN, known : BOOLEAN, sync : {"none", "Not Synced", "Synced", "Error"}]

\* The parts of the type invariant that the calls have nothing to do with.
StoresOK ==
  /\ db \in [Reviews -> Decisions \union {"pending"}]
  /\ grid \in [Reviews -> GridRows]
  /\ mirror \subseteq Reviews
  /\ batch \subseteq [review : Reviews, decision : GridNames, noted : BOOLEAN, known : BOOLEAN]
  /\ waiting \subseteq Calls
  /\ edits \in 0 .. MaxEdits
  /\ failures \in 0 .. MaxFailures
  /\ doubt \subseteq Reviews

LEMMA TypedIsStored == Typed <=> StoresOK /\ CallsAreTyped /\ OneWaiting
BY PlacesOfCalls, OneWaitingIsOne DEF Typed, TypeOK, StoresOK, GridRows, GridNames

LEMMA TypedNext == StoresOK' /\ CallsAreTyped' /\ OneWaiting' => Typed'
BY TypedIsStored, PTL

-----------------------------------------------------------------------------
LEMMA InitIInv == Init => Typed /\ Agrees
<1> SUFFICES ASSUME Init PROVE Typed /\ Agrees
  OBVIOUS
<1>1. \A c \in Calls : call[c] = Free /\ call[c].at = "free"
  BY DEF Init, Free
<1>2. CallsAreTyped /\ OneWaiting
  BY <1>1 DEF Init, CallsAreTyped, OneWaiting, Translated
<1>3. StoresOK
  BY BoundsAreNumbers DEF Init, StoresOK, GridRows, NoRow
<1>4. Agrees
  BY <1>1 DEF Init, Agrees, SyncedIsDecided, MarkedIsDecided, WritesTheDecision, ShownOrComing,
              AtSync, NoRow
<1> QED
  BY <1>2, <1>3, <1>4, TypedIsStored

-----------------------------------------------------------------------------
(* What the steps do to the agreement of the grid and the database.           *)

\* The steps that touch no call.
LEMMA StillAgrees ==
  ASSUME Agrees, UNCHANGED <<db, call>>, doubt \subseteq doubt',
         \A r \in Reviews : grid'[r].sync = "Synced" => grid[r].sync = "Synced",
         \A r \in Reviews \ doubt' : db[r] = "pending" \/ grid'[r].decision = grid[r].decision
  PROVE  Agrees'
<1>1. SyncedIsDecided' /\ MarkedIsDecided' /\ WritesTheDecision'
  BY DEF Agrees, SyncedIsDecided, MarkedIsDecided, WritesTheDecision, AtSync
<1>2. ShownOrComing'
  BY DEF Agrees, ShownOrComing, AtSync
<1> QED
  BY <1>1, <1>2 DEF Agrees

\* The steps of one call that do not take it to its write of the grid.
LEMMA MoveAgrees ==
  ASSUME Agrees, NEW c \in Calls, \A d \in Calls : d # c => call'[d] = call[d],
         db' = db, doubt \subseteq doubt', ~AtSync(c)',
         call'[c].at \in {"resume", "mark"} => db[call'[c].review] # "pending",
         \A r \in Reviews :
           /\ grid'[r].sync = "Synced" => grid[r].sync = "Synced" \/ db[r] # "pending"
           /\ grid'[r].decision = grid[r].decision \/ grid'[r].decision = InGrid(db[r]) \/ r \in doubt'
           /\ AtSync(c) /\ r = call[c].review => grid'[r].decision = InGrid(db[r]) \/ r \in doubt'
  PROVE  Agrees'
<1>1. SyncedIsDecided'
  BY DEF Agrees, SyncedIsDecided
<1>2. MarkedIsDecided'
  BY DEF Agrees, MarkedIsDecided, AtSync
<1>3. WritesTheDecision'
  BY DEF Agrees, WritesTheDecision, AtSync
<1>4. ShownOrComing'
  <2> SUFFICES ASSUME NEW r \in Reviews, r \notin doubt', db[r] # "pending",
                      grid'[r].decision # InGrid(db[r])
               PROVE  \E d \in Calls : AtSync(d)' /\ call'[d].review = r
    BY DEF ShownOrComing
  <2>1. grid[r].decision # InGrid(db[r]) /\ ~(AtSync(c) /\ call[c].review = r)
    OBVIOUS
  <2>2. PICK d \in Calls : AtSync(d) /\ call[d].review = r
    BY <2>1 DEF Agrees, ShownOrComing
  <2> QED
    BY <2>1, <2>2 DEF AtSync
<1> QED
  BY <1>1, <1>2, <1>3, <1>4 DEF Agrees

\* A decision is stored: the call goes on to write it to the grid, and if it was
\* not the first the row is in doubt from here on.
LEMMA UpdateAgrees ==
  ASSUME Typed, Agrees, NEW c \in Calls, Update(c)
  PROVE  Typed' /\ Agrees'
<1> DEFINE r == call[c].review
           p == IF \A q \in Reviews : db'[q] # "pending" THEN "syncLast" ELSE "sync"
<1>1. /\ StoresOK /\ CallsAreTyped /\ OneWaiting /\ call[c].at = "update"
      /\ UNCHANGED <<grid, mirror, batch, waiting, edits, failures>>
  BY TypedIsStored DEF Update
<1>2. r \in Reviews /\ call[c].decision \in Decisions
  <2>1. call[c] \in Busy
    BY <1>1 DEF CallsAreTyped, Free
  <2> QED
    BY <1>1, <2>1 DEF CallsAreTyped, Busy, Translated
<1>3. /\ \A q \in Reviews : db'[q] = IF q = r THEN call[c].decision ELSE db[q]
      /\ db' \in [Reviews -> Decisions \union {"pending"}]
      /\ doubt' = IF db[r] = "pending" THEN doubt ELSE doubt \union {r}
  BY <1>1, <1>2 DEF Update, StoresOK
<1>4. Goes(c, p) /\ p \in {"sync", "syncLast"}
  BY DEF Update
<1>5. /\ CallsAreTyped' /\ call'[c].at \in {"sync", "syncLast"} /\ call'[c].review = r
      /\ call'[c].decision = call[c].decision
      /\ \A d \in Calls : d # c => call'[d] = call[d]
  <2> HIDE DEF p
  <2> QED
    BY <1>1, <1>2, <1>4, GoesMoves DEF Places, Translated
<1>6. Typed'
  BY <1>1, <1>2, <1>3, <1>5, TypedNext DEF StoresOK, OneWaiting
<1>7. call[c].decision # "pending" /\ ~AtSync(c) /\ AtSync(c)'
  BY <1>1, <1>2, <1>5 DEF Decisions, AtSync
<1>8. SyncedIsDecided' /\ MarkedIsDecided'
  <2>1. \A q \in Reviews : db[q] # "pending" => db'[q] # "pending"
    BY <1>3, <1>7
  <2>2. \A d \in Calls : call[d].at \in {"sync", "syncLast", "resume", "mark"} => call[d].review \in Reviews
    BY <1>1 DEF CallsAreTyped, Busy, Free
  <2> QED
    BY <1>1, <1>2, <1>3, <1>5, <1>7, <2>1, <2>2 DEF Agrees, SyncedIsDecided, MarkedIsDecided
<1>9. WritesTheDecision'
  <2> SUFFICES ASSUME NEW d \in Calls, AtSync(d)', call'[d].review \notin doubt'
               PROVE  call'[d].decision = db'[call'[d].review]
    BY DEF WritesTheDecision
  <2>1. CASE d = c
    BY <1>2, <1>3, <1>5, <2>1
  <2>2. CASE d # c
    <3>1. call'[d] = call[d] /\ AtSync(d) /\ call[d].review \in Reviews
      BY <1>1, <1>5, <2>2 DEF AtSync, CallsAreTyped, Busy, Free
    <3>2. db[call[d].review] # "pending" /\ call[d].review \notin doubt
      BY <1>3, <3>1 DEF Agrees, MarkedIsDecided, AtSync
    <3> QED
      BY <1>3, <3>1, <3>2 DEF Agrees, WritesTheDecision
  <2> QED
    BY <2>1, <2>2
<1>10. ShownOrComing'
  <2> SUFFICES ASSUME NEW q \in Reviews, q \notin doubt', db'[q] # "pending",
                      grid'[q].decision # InGrid(db'[q])
               PROVE  \E d \in Calls : AtSync(d)' /\ call'[d].review = q
    BY DEF ShownOrComing
  <2>1. CASE q = r
    BY <1>5, <1>7, <2>1
  <2>2. CASE q # r
    <3>1. db[q] # "pending" /\ grid[q].decision # InGrid(db[q]) /\ q \notin doubt
      BY <1>1, <1>3, <2>2
    <3>2. PICK d \in Calls : AtSync(d) /\ call[d].review = q
      BY <3>1 DEF Agrees, ShownOrComing
    <3> QED
      BY <1>5, <1>7, <3>2 DEF AtSync
  <2> QED
    BY <2>1, <2>2
<1> QED
  BY <1>6, <1>8, <1>9, <1>10 DEF Agrees

\* Where a call goes after its write of the grid, done or not.
LEMMA SyncedMoves ==
  ASSUME Typed, Agrees, NEW c \in Calls, AtSync(c), Synced(c)
  PROVE  /\ CallsAreTyped' /\ OneWaiting' /\ waiting' \subseteq Calls
         /\ ~AtSync(c)' /\ \A d \in Calls : d # c => call'[d] = call[d]
         /\ call'[c].at \in {"resume", "mark"} => call'[c].review = call[c].review
         /\ call[c].review \in Reviews /\ call[c].noted \in BOOLEAN
         /\ call[c].decision \in Decisions /\ db[call[c].review] # "pending"
<1>1. CallsAreTyped /\ OneWaiting /\ StoresOK /\ call[c].at # "free"
  BY TypedIsStored DEF AtSync
<1>2. call[c] \in Busy
  BY <1>1, FreeIsAtFree DEF CallsAreTyped
<1>3. /\ call[c].review \in Reviews /\ call[c].noted \in BOOLEAN
      /\ call[c].decision \in Decisions /\ db[call[c].review] # "pending"
  BY <1>1, <1>2 DEF Busy, CallsAreTyped, AtSync, Translated, Agrees, MarkedIsDecided
<1>4. ASSUME NEW p \in {"resume", "mark"}, Goes(c, p), UNCHANGED waiting
      PROVE  /\ CallsAreTyped' /\ OneWaiting' /\ waiting' \subseteq Calls
             /\ ~AtSync(c)' /\ \A d \in Calls : d # c => call'[d] = call[d]
             /\ call'[c].review = call[c].review
  <2>1. p \in Places \ {"free", "validate"}
    BY <1>4 DEF Places
  <2>2. CallsAreTyped' /\ call'[c].at = p /\ call'[c].review = call[c].review
        /\ \A d \in Calls : d # c => call'[d] = call[d]
    BY <1>1, <1>3, <1>4, <2>1, GoesMoves
  <2>3. OneWaiting' /\ waiting' \subseteq Calls
    BY <1>1, <1>4 DEF OneWaiting, StoresOK
  <2> QED
    BY <1>4, <2>2, <2>3 DEF AtSync
<1>5. CASE Ends(c)
  BY <1>3, <1>5, EndsMoves DEF AtSync
<1> QED
  BY <1>3, <1>4, <1>5 DEF Synced

LEMMA NextIInv == Typed /\ Agrees /\ [Next]_vars => Typed' /\ Agrees'
<1> SUFFICES ASSUME Typed, Agrees, [Next]_vars PROVE Typed' /\ Agrees'
  OBVIOUS
<1> DEFINE Both == Typed' /\ Agrees'
<1>1. StoresOK /\ CallsAreTyped /\ OneWaiting
  BY TypedIsStored
\* A failure is counted up to its bound.
<1>2. Failure => failures' \in 0 .. MaxFailures
  <2>1. failures \in 0 .. MaxFailures
    BY <1>1 DEF StoresOK
  <2> QED
    BY <2>1, BoundsAreNumbers DEF Failure
<1>3. ASSUME UNCHANGED call, waiting' = waiting \/ waiting' = {}
      PROVE  CallsAreTyped' /\ OneWaiting' /\ waiting' \subseteq Calls
  BY <1>1, <1>3 DEF CallsAreTyped, OneWaiting, StoresOK
<1>4. ASSUME NEW r \in Reviews, Mirror(r) PROVE Both
  <2>1. StoresOK'
    BY <1>1, <1>3, <1>4 DEF Mirror, StoresOK, GridRows
  <2>2. Agrees'
    BY <1>1, <1>4, StillAgrees DEF Mirror, StoresOK, GridRows
  <2> QED
    BY <1>3, <1>4, <2>1, <2>2, TypedNext DEF Mirror
<1>5. ASSUME NEW lost \in SUBSET mirror, MirrorFails(lost) PROVE Both
  <2>1. StoresOK'
    BY <1>1, <1>2, <1>5 DEF MirrorFails, StoresOK
  <2>2. Agrees'
    BY <1>5, StillAgrees DEF MirrorFails
  <2> QED
    BY <1>3, <1>5, <2>1, <2>2, TypedNext DEF MirrorFails
<1>6. ASSUME NEW r \in Reviews, NEW e \in GridEdits, EditGrid(r, e) PROVE Both
  <2>1. /\ e.decision \in {"Pending", "Approved", "Rejected", "Edited"} /\ e.noted \in BOOLEAN /\ e.known \in BOOLEAN
    BY DecisionsAreKnown
  <2>2. edits' \in 0 .. MaxEdits
    <3>1. edits \in 0 .. MaxEdits
      BY <1>1 DEF StoresOK
    <3> QED
      BY <1>6, <3>1, BoundsAreNumbers DEF EditGrid
  <2>3. StoresOK'
    <3>1. grid[r] \in GridRows
      BY <1>1 DEF StoresOK
    <3>2. [grid[r] EXCEPT !.decision = e.decision, !.noted = e.noted, !.known = e.known] \in GridRows
      BY <2>1, <3>1 DEF GridRows
    <3>3. grid' = [grid EXCEPT ![r] = [grid[r] EXCEPT !.decision = e.decision, !.noted = e.noted, !.known = e.known]]
      BY <1>1, <1>6 DEF EditGrid, StoresOK
    <3>4. grid' \in [Reviews -> GridRows]
      BY <1>1, <3>2, <3>3 DEF StoresOK
    <3> QED
      BY <1>1, <1>6, <2>2, <3>4 DEF EditGrid, StoresOK
  <2>4. Agrees'
    BY <1>1, <1>6, StillAgrees DEF EditGrid, StoresOK, GridRows
  <2> QED
    BY <1>3, <1>6, <2>3, <2>4, TypedNext DEF EditGrid
<1>7. ASSUME Fetch PROVE Both
  <2>1. batch' \subseteq [review : Reviews, decision : GridNames, noted : BOOLEAN, known : BOOLEAN]
    <3>1. \A r \in Reviews : grid[r].noted \in BOOLEAN /\ grid[r].known \in BOOLEAN
      BY <1>1 DEF StoresOK, GridRows
    <3>2. \A r \in Actionable : r \in Reviews /\ grid[r].decision \in GridNames
      BY DEF Actionable, GridNames
    <3>3. PICK page \in Pages :
            batch' = {[review |-> r, decision |-> grid[r].decision, noted |-> grid[r].noted,
                       known |-> grid[r].known] : r \in page}
      BY <1>7 DEF Fetch
    <3>4. page \subseteq Actionable
      BY DEF Pages
    <3> QED
      BY <3>1, <3>2, <3>3, <3>4
  <2>2. StoresOK'
    BY <1>1, <1>7, <2>1 DEF Fetch, StoresOK
  <2>3. Agrees'
    BY <1>7, StillAgrees DEF Fetch
  <2> QED
    BY <1>3, <1>7, <2>2, <2>3, TypedNext DEF Fetch
<1>8. ASSUME TimesOut PROVE Both
  <2>1. StoresOK'
    BY <1>1, <1>2, <1>8 DEF TimesOut, StoresOK
  <2>2. Agrees'
    BY <1>8, StillAgrees DEF TimesOut
  <2> QED
    BY <1>3, <1>8, <2>1, <2>2, TypedNext DEF TimesOut
<1>9. ASSUME NEW record \in batch, NEW c \in Calls, Send(record, c) PROVE Both
  <2> DEFINE x == [at |-> "validate", via |-> "grid", review |-> record.review,
                   decision |-> record.decision, noted |-> record.noted, known |-> record.known]
  <2>1. x \in Busy /\ x.at = "validate" /\ x.decision \in GridNames /\ x.review \in Reviews
    BY <1>1 DEF StoresOK, Busy, Places
  <2>2. call' = [call EXCEPT ![c] = x]
    BY <1>9 DEF Send
  <2>3. /\ CallsAreTyped' /\ call'[c].at = "validate"
        /\ \A d \in Calls : d # c => call'[d] = call[d]
    <3> HIDE DEF x
    <3> QED  BY <1>1, <2>1, <2>2, StartMoves DEF Translated
  <2>4. ~AtSync(c) /\ ~AtSync(c)'
    BY <1>9, <2>3 DEF Send, AtSync, Free
  <2>5. Agrees'
    BY <1>9, <2>3, <2>4, MoveAgrees DEF Send
  <2>6. StoresOK' /\ OneWaiting'
    BY <1>1, <1>9 DEF Send, StoresOK, OneWaiting
  <2> QED
    BY <2>3, <2>5, <2>6, TypedNext
<1>10. ASSUME NEW r \in Reviews, NEW d \in AppDecisions, NEW c \in Calls, Decide(r, d, c) PROVE Both
  <2> DEFINE x == [at |-> "check", via |-> "app", review |-> r,
                   decision |-> d, noted |-> d = "rejected", known |-> TRUE]
  <2>1. x \in Busy /\ x.at = "check" /\ x.decision \in Decisions
    BY DecisionsAreKnown DEF Busy, Places
  <2>2. call' = [call EXCEPT ![c] = x]
    BY <1>10 DEF Decide
  <2>3. /\ CallsAreTyped' /\ call'[c].at = "check"
        /\ \A b \in Calls : b # c => call'[b] = call[b]
    <3> HIDE DEF x
    <3> QED  BY <1>1, <2>1, <2>2, StartMoves
  <2>4. ~AtSync(c) /\ ~AtSync(c)'
    BY <1>10, <2>3 DEF Decide, AtSync, Free
  <2>5. Agrees'
    BY <1>10, <2>3, <2>4, MoveAgrees DEF Decide
  <2>6. StoresOK' /\ OneWaiting'
    BY <1>1, <1>10 DEF Decide, StoresOK, OneWaiting
  <2> QED
    BY <2>3, <2>5, <2>6, TypedNext
<1>11. ASSUME NEW c \in Calls, Validate(c) PROVE Both
  <2>1. call[c].at = "validate" /\ call[c].decision \in GridNames /\ call[c] \in Busy
    BY <1>1, <1>11 DEF Validate, CallsAreTyped, Free
  <2>2. /\ CallsAreTyped' /\ call'[c].at \in {"check", "error"}
        /\ \A b \in Calls : b # c => call'[b] = call[b]
    <3>1. CASE Goes(c, "error")
      BY <1>1, <2>1, <3>1, GoesMoves DEF Places, Translated
    <3>2. CASE ~Goes(c, "error")
      <4> DEFINE x == [call[c] EXCEPT !.at = "check",
                                      !.decision = IF @ = "Approved" THEN "approved" ELSE "rejected"]
      <4>1. call' = [call EXCEPT ![c] = x]
        BY <1>11, <3>2 DEF Validate
      <4>2. x \in Busy /\ x.at = "check" /\ x.decision \in Decisions
        BY <2>1 DEF Busy, Places, Decisions
      <4> HIDE DEF x
      <4> QED  BY <1>1, <4>1, <4>2, StartMoves
    <3> QED  BY <3>1, <3>2
  <2>3. ~AtSync(c) /\ ~AtSync(c)'
    BY <2>1, <2>2 DEF AtSync
  <2>4. Agrees'
    BY <1>11, <2>2, <2>3, MoveAgrees DEF Validate
  <2>5. StoresOK' /\ OneWaiting'
    BY <1>1, <1>11 DEF Validate, StoresOK, OneWaiting
  <2> QED
    BY <2>2, <2>4, <2>5, TypedNext
\* A call that goes on, or ends, without a write of the decision to the grid.
<1>12. ASSUME NEW c \in Calls, UNCHANGED <<db, mirror, batch, edits, doubt>>,
              failures' = failures \/ Failure, ~AtSync(c), call[c].at # "free",
              \/ Ends(c)
              \/ /\ \E p \in {"error", "update", "resume", "mark"} :
                      /\ Goes(c, p)
                      /\ p \in Translated => call[c].at \in Translated
                      /\ p \in {"resume", "mark"} => db[call[c].review] # "pending"
                 /\ waiting' = waiting,
              \/ grid' = grid
              \/ \E s \in {"Synced", "Error"} :
                   /\ grid' = [grid EXCEPT ![call[c].review].sync = s]
                   /\ s = "Synced" => db[call[c].review] # "pending"
       PROVE  Both
  <2>1. call[c] \in Busy /\ call[c].review \in Reviews
    BY <1>1, <1>12, FreeIsAtFree DEF CallsAreTyped, Busy
  <2>2. /\ CallsAreTyped' /\ OneWaiting' /\ waiting' \subseteq Calls /\ ~AtSync(c)'
        /\ \A b \in Calls : b # c => call'[b] = call[b]
        /\ call'[c].at \in {"resume", "mark"} => db[call'[c].review] # "pending"
    <3>1. CASE Ends(c)
      BY <3>1, EndsMoves DEF AtSync
    <3>2. ASSUME NEW p \in {"error", "update", "resume", "mark"}, Goes(c, p), waiting' = waiting,
                 p \in Translated => call[c].at \in Translated,
                 p \in {"resume", "mark"} => db[call[c].review] # "pending"
          PROVE  /\ CallsAreTyped' /\ OneWaiting' /\ waiting' \subseteq Calls /\ ~AtSync(c)'
                 /\ \A b \in Calls : b # c => call'[b] = call[b]
                 /\ call'[c].at \in {"resume", "mark"} => db[call'[c].review] # "pending"
      <4>1. p \in Places \ {"free", "validate"} /\ (p \in Translated => call[c].decision \in Decisions)
        BY <1>1, <3>2 DEF Places, CallsAreTyped
      <4>2. /\ CallsAreTyped' /\ call'[c].at = p /\ call'[c].review = call[c].review
            /\ \A b \in Calls : b # c => call'[b] = call[b]
        BY <1>1, <1>12, <3>2, <4>1, GoesMoves
      <4>3. OneWaiting' /\ waiting' \subseteq Calls
        BY <1>1, <3>2 DEF OneWaiting, StoresOK
      <4> QED
        BY <3>2, <4>2, <4>3 DEF AtSync
    <3> QED
      BY <1>12, <3>1, <3>2
  <2>3. /\ grid' \in [Reviews -> GridRows]
        /\ \A r \in Reviews : grid'[r].decision = grid[r].decision
        /\ \A r \in Reviews : grid'[r].sync = "Synced" => grid[r].sync = "Synced" \/ db[r] # "pending"
    <3>1. grid \in [Reviews -> GridRows]
      BY <1>1 DEF StoresOK
    <3>2. CASE grid' = grid
      BY <3>1, <3>2
    <3>3. ASSUME NEW s \in {"Synced", "Error"}, grid' = [grid EXCEPT ![call[c].review].sync = s],
                 s = "Synced" => db[call[c].review] # "pending"
          PROVE  /\ grid' \in [Reviews -> GridRows]
                 /\ \A r \in Reviews : grid'[r].decision = grid[r].decision
                 /\ \A r \in Reviews : grid'[r].sync = "Synced" => grid[r].sync = "Synced" \/ db[r] # "pending"
      BY <2>1, <3>1, <3>3 DEF GridRows
    <3> QED
      BY <1>12, <3>2, <3>3
  <2>4. StoresOK'
    BY <1>1, <1>2, <1>12, <2>2, <2>3 DEF StoresOK
  <2>5. Agrees'
    BY <1>12, <2>2, <2>3, MoveAgrees
  <2> QED
    BY <2>2, <2>4, <2>5, TypedNext
<1>13. ASSUME NEW c \in Calls, Check(c) PROVE Both
  BY <1>12, <1>13 DEF Check, AtSync, Translated
<1>14. ASSUME NEW c \in Calls, Update(c) PROVE Both
  BY <1>14, UpdateAgrees
<1>15. ASSUME NEW c \in Calls, Sync(c) PROVE Both
  <2> DEFINE row == [decision |-> InGrid(call[c].decision), noted |-> call[c].noted,
                    known |-> grid[call[c].review].known, sync |-> "Synced"]
  <2>1. AtSync(c) /\ Synced(c) /\ grid' = [grid EXCEPT ![call[c].review] = row]
        /\ UNCHANGED <<db, mirror, batch, edits, failures, doubt>>
    BY <1>15 DEF Sync
  <2>2. InGrid(call[c].decision) \in GridNames
    BY <2>1, SyncedMoves, InGridNames
  <2>3. /\ grid' \in [Reviews -> GridRows]
        /\ \A r \in Reviews : r # call[c].review => grid'[r] = grid[r]
        /\ grid'[call[c].review].decision = InGrid(call[c].decision)
    BY <1>1, <2>1, <2>2, SyncedMoves DEF StoresOK, GridRows, GridNames
  <2>4. StoresOK'
    BY <1>1, <2>1, <2>3, SyncedMoves DEF StoresOK
  <2>5. call[c].review \notin doubt => call[c].decision = db[call[c].review]
    BY <2>1 DEF Agrees, WritesTheDecision
  <2>6. \A r \in Reviews :
          /\ grid'[r].sync = "Synced" => grid[r].sync = "Synced" \/ db[r] # "pending"
          /\ grid'[r].decision = grid[r].decision \/ grid'[r].decision = InGrid(db[r]) \/ r \in doubt'
          /\ AtSync(c) /\ r = call[c].review => grid'[r].decision = InGrid(db[r]) \/ r \in doubt'
    BY <2>1, <2>3, <2>5, SyncedMoves
  <2>7. Agrees'
    BY <2>1, <2>6, SyncedMoves, MoveAgrees
  <2> QED
    BY <2>1, <2>4, <2>7, SyncedMoves, TypedNext
<1>16. ASSUME NEW c \in Calls, SyncFails(c) PROVE Both
  <2>1. AtSync(c) /\ Synced(c) /\ doubt' = doubt \union {call[c].review}
        /\ UNCHANGED <<db, grid, mirror, batch, edits>> /\ Failure
    BY <1>16 DEF SyncFails
  <2>2. StoresOK'
    BY <1>1, <1>2, <2>1, SyncedMoves DEF StoresOK
  <2>3. Agrees'
    BY <2>1, SyncedMoves, MoveAgrees
  <2> QED
    BY <2>1, <2>2, <2>3, SyncedMoves, TypedNext
<1>17. ASSUME NEW c \in Calls, Resume(c) PROVE Both
  <2>1. db[call[c].review] # "pending"
    BY <1>17 DEF Resume, Agrees, MarkedIsDecided
  <2> QED
    BY <1>12, <1>17, <2>1 DEF Resume, AtSync, Translated
<1>18. ASSUME NEW c \in Calls, Mark(c) PROVE Both
  <2>1. call[c].at = "mark" => db[call[c].review] # "pending"
    BY DEF Agrees, MarkedIsDecided
  <2> QED
    BY <1>12, <1>18, <2>1 DEF Mark, AtSync
<1>19. ASSUME NEW c \in Calls, MarkFails(c) \/ CallFails(c) PROVE Both
  BY <1>12, <1>19 DEF MarkFails, CallFails, AtSync
<1>20. ASSUME ApiDies PROVE Both
  <2>1. /\ call' = [c \in Calls |-> Free] /\ waiting' = {} /\ batch' \subseteq batch
        /\ doubt' = doubt \union {call[c].review : c \in {d \in Calls : AtSync(d)}}
        /\ UNCHANGED <<db, grid, mirror, edits>> /\ Failure
    BY <1>20 DEF ApiDies
  <2>2. \A c \in Calls : call'[c] = Free /\ call'[c].at = "free"
    BY <2>1 DEF Free
  <2>3. CallsAreTyped' /\ OneWaiting'
    BY <2>1, <2>2 DEF CallsAreTyped, OneWaiting, Translated
  <2>4. \A c \in Calls : AtSync(c) => call[c].review \in Reviews
    BY <1>1 DEF CallsAreTyped, AtSync, Busy, Free
  <2>5. StoresOK'
    <3>1. doubt' \subseteq Reviews
      <4>1. \A r \in {call[c].review : c \in {d \in Calls : AtSync(d)}} : r \in Reviews
        BY <2>4
      <4>2. doubt \subseteq Reviews
        BY <1>1 DEF StoresOK
      <4> QED
        BY <2>1, <4>1, <4>2
    <3> QED
      BY <1>1, <1>2, <2>1, <3>1 DEF StoresOK
  <2>6. Agrees'
    <3>1. SyncedIsDecided' /\ MarkedIsDecided' /\ WritesTheDecision'
      BY <2>1, <2>2 DEF Agrees, SyncedIsDecided, MarkedIsDecided, WritesTheDecision, AtSync
    <3>2. ShownOrComing'
      BY <2>1 DEF Agrees, ShownOrComing
    <3> QED  BY <3>1, <3>2 DEF Agrees
  <2> QED
    BY <2>3, <2>5, <2>6, TypedNext
<1>21. ASSUME UNCHANGED vars PROVE Both
  <2>1. StoresOK'
    BY <1>1, <1>21 DEF vars, StoresOK
  <2>2. Agrees'
    BY <1>21, StillAgrees DEF vars
  <2> QED
    BY <1>3, <1>21, <2>1, <2>2, TypedNext DEF vars
<1>22. ASSUME \E c \in Calls : CallStep(c) \/ SyncFails(c) \/ MarkFails(c) \/ CallFails(c) PROVE Both
  BY <1>11, <1>13, <1>14, <1>15, <1>16, <1>17, <1>18, <1>19, <1>22 DEF CallStep
<1>23. ASSUME Poll PROVE Both
  BY <1>7, <1>9, <1>23 DEF Poll
<1>24. ASSUME NEW lost \in {{r} : r \in mirror} \union {mirror}, MirrorFails(lost) PROVE Both
  <2>1. lost \in SUBSET mirror
    OBVIOUS
  <2> QED
    BY <1>5, <1>24, <2>1
<1> HIDE DEF Both
<1>25. Both
  <2>1. ASSUME NEW r \in Reviews,
               \/ Mirror(r)
               \/ \E e \in GridEdits : EditGrid(r, e)
               \/ \E d \in AppDecisions, c \in Calls : Decide(r, d, c)
        PROVE  Both
    BY <1>4, <1>6, <1>10, <2>1
  <2> QED
    <3>1. CASE Next
      BY <1>8, <1>20, <1>22, <1>23, <1>24, <2>1, <3>1 DEF Next
    <3> QED
      BY <1>21, <3>1
<1> QED
  BY <1>25 DEF Both

-----------------------------------------------------------------------------
\* The rows, the calls and the poller keep their types; in particular the poller
\* waits for one call at most.
THEOREM TypeCorrect == Spec => []TypeOK
<1>1. Typed => TypeOK
  BY DEF Typed
<1> QED
  BY <1>1, InitIInv, NextIInv, PTL DEF Spec

\* Whatever times out, dies or is sent twice, a row is marked as synced only when
\* the database has decided its review.
THEOREM MarksAreEarned == Spec => []SyncedIsDecided
<1>1. Agrees => SyncedIsDecided
  BY DEF Agrees
<1> QED
  BY <1>1, InitIInv, NextIInv, PTL DEF Spec

\* Between two decisions the grid shows the decision of every review, but for
\* those the history variable names.
THEOREM GridCatchesUp == Spec => []GridShowsDecision
<1>1. Typed /\ Agrees => GridShowsDecision
  BY DEF Agrees, ShownOrComing, GridShowsDecision, AtSync, Free
<1> QED
  BY <1>1, InitIInv, NextIInv, PTL DEF Spec
=============================================================================
