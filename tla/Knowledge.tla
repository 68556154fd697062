----------------------------- MODULE Knowledge -----------------------------
(***************************************************************************)
(* The knowledge base of one brand and locale: uploads write the vector     *)
(* store and Postgres one after the other, retrievers keep BM25 indexes in   *)
(* memory and on disk beside the store, and the sets of evaluation examples  *)
(* that belong to the guides are activated and deleted. Which chunks a       *)
(* query ranks first is left out.                                            *)
(***************************************************************************)
EXTENDS Naturals, FiniteSets, Functions

CONSTANTS
  Uploads, Versions,
  SeedVersion,  \* the version the seed data is ingested with
  NoVersion,    \* the version of a set that does not exist
  Sets,         \* the sets of examples there may be at once
  Processes,    \* the processes that retrieve, with one cache directory
  Readers,      \* the calls of _get_bm25
  Clients,      \* bound: beside the uploads, who may be at work in one behaviour
  MaxChunks,    \* bound on the chunks of an upload
  MaxFailures   \* bound on the uploads that fail half-way

ASSUME BoundsAreNumbers == MaxChunks \in Nat \ {0} /\ MaxFailures \in Nat
ASSUME SeedHasVersion == SeedVersion \in Versions
ASSUME NoVersionIsNone == NoVersion \notin Versions

VARIABLES
  up,       \* the uploads and how far each is
  store,    \* the chunks in each collection of the vector store
  rows,     \* brand_guides and customer_segments, the rows of an upload as one
  sets,     \* golden_dataset_set: the status and the guide_version of each
  change,   \* the open activations of the sets
  deleting, \* the sets a deletion has read the status of
  disk,     \* the BM25 index each collection has in the cache directory
  mem,      \* the BM25 indexes of the processes
  reader,   \* the calls that found no index in memory, and what each has read
  failures,
  last,     \* history: the last upload of segments that was registered
  tidy,     \* history: no upload of segments met another one or failed half-way
  met,      \* history: two uploads of guides registered at once
  first,    \* history: some set has been active
  raced,    \* history: a set was deleted while it was being activated
  clients   \* those of Clients at work: the API's editors of sets, the retrievers

vars == <<up, store, rows, sets, change, deleting, disk, mem, reader, failures, last, tidy, met, first, raced, clients>>
uploading == <<up, store, rows, failures, last, tidy, met>>
golden == <<sets, change, deleting, first, raced, clients>>
indexes == <<disk, mem, reader>>

Kinds == {"guidelines", "segments"}
Seed == "seed"
None == "none"
ASSUME SeedIsNoUpload == Seed \notin Uploads
Docs == [upload : Uploads \union {Seed}, chunk : 1 .. MaxChunks]
DocsOf(u) == [upload : {u}, chunk : 1 .. up[u].chunks]
Fresh == [at |-> "none"]
NoSet == [status |-> None, version |-> NoVersion]
Idle == [at |-> "idle", others |-> {}]
Away == [at |-> "none"]
Returned == [at |-> "done"]

Init ==
  /\ up = [u \in Uploads |-> Fresh]
  /\ store = [k \in Kinds |-> {}]
  /\ rows = {}
  /\ sets = [s \in Sets |-> NoSet]
  /\ change = [s \in Sets |-> Idle]
  /\ deleting = {}
  /\ disk = [k \in Kinds |-> {}]
  /\ mem = [p \in Processes |-> [k \in Kinds |-> {}]]
  /\ reader = [r \in Readers |-> Away]
  /\ failures = 0
  /\ last = None
  /\ tidy = TRUE
  /\ met = FALSE
  /\ first = FALSE
  /\ raced = FALSE
  /\ clients \in Clients

Goes(u, place) == up' = [up EXCEPT ![u].at = place]

-----------------------------------------------------------------------------
(* ingest_brand_guide and ingest_customer_segments.                           *)

\* A file that is too big, unreadable or empty, or holds a blocked phrase, is
\* turned down before anything is written.
Submit(u, kind, version, chunks) ==
  /\ up[u] = Fresh
  /\ up' = [up EXCEPT ![u] = [at |-> "judge", kind |-> kind, version |-> version, chunks |-> chunks, old |-> {}]]
  /\ UNCHANGED <<store, rows, failures, last, tidy, met, golden, indexes>>

\* The LLM's verdict; no answer is a pass. A guide that is quarantined has a
\* row, segments have none.
JudgeGuide(u) ==
  /\ up[u].at = "judge"
  /\ up[u].kind = "guidelines"
  /\ \/ Goes(u, "upsert") /\ UNCHANGED rows
     \/ /\ Goes(u, "draft")
        /\ rows' = rows \union {[upload |-> u, kind |-> "guidelines", version |-> up[u].version,
                                  status |-> "quarantined", active |-> FALSE]}
  /\ UNCHANGED <<store, failures, last, tidy, met, golden, indexes>>

JudgeSegments(u) ==
  /\ up[u].at = "judge"
  /\ up[u].kind = "segments"
  /\ Goes(u, "delete") \/ Goes(u, "done")
  /\ UNCHANGED <<store, rows, failures, last, tidy, met, golden, indexes>>

InStore == {u \in Uploads : up[u].at \in {"upsert", "begin", "commit"}}
SegmentsInStore == {u \in InStore : up[u].kind = "segments"}

\* Mutant: nothing is deleted.
DeleteNothing(u) ==
  /\ up[u].at = "delete"
  /\ tidy' = (SegmentsInStore = {})
  /\ Goes(u, "upsert")
  /\ UNCHANGED <<store, rows, failures, last, met, golden, indexes>>

\* The filter asks for segment_profile, which seeded segments are not.
DeleteOld(u) ==
  /\ up[u].at = "delete"
  /\ store' = [store EXCEPT !.segments = {d \in @ : d.upload = Seed}]
  /\ tidy' = (SegmentsInStore = {})
  /\ Goes(u, "upsert")
  /\ UNCHANGED <<rows, failures, last, met, golden, indexes>>

\* Mutant: Postgres is written before the store.
UpsertLate(u) ==
  /\ up[u].at = "upsert"
  /\ Goes(u, "begin")
  /\ UNCHANGED <<store, rows, failures, last, tidy, met, golden, indexes>>

Upsert(u) ==
  /\ up[u].at = "upsert"
  /\ store' = [store EXCEPT ![up[u].kind] = @ \union DocsOf(u)]
  /\ Goes(u, "begin")
  /\ UNCHANGED <<rows, failures, last, tidy, met, golden, indexes>>

\* The first statement of the transaction, the UPDATE of the active guides or
\* the DELETE of the version's segments, sees what is committed. Waiting for the
\* locks of another transaction on the same rows changes nothing of the outcome.
Replaced(u) ==
  IF up[u].kind = "guidelines" THEN {g \in rows : g.kind = "guidelines" /\ g.active}
  ELSE {s \in rows : s.kind = "segments" /\ s.version = up[u].version}

Begin(u) ==
  /\ up[u].at = "begin"
  /\ up' = [up EXCEPT ![u].at = "commit", ![u].old = Replaced(u)]
  /\ met' = (met \/ \E v \in Uploads : up[v].at = "commit" /\ up[v].kind = "guidelines" /\ up[u].kind = "guidelines")
  /\ UNCHANGED <<store, rows, failures, last, tidy, golden, indexes>>

ActiveRow(u) ==
  [upload |-> u, kind |-> up[u].kind, version |-> up[u].version, status |-> "active", active |-> TRUE]

CommitGuide(u) ==
  /\ up[u].at = "commit"
  /\ up[u].kind = "guidelines"
  /\ rows' = (rows \ up[u].old) \union {[g EXCEPT !.active = FALSE] : g \in up[u].old} \union {ActiveRow(u)}
  /\ Goes(u, "draft")
  /\ UNCHANGED <<store, failures, last, tidy, met, golden, indexes>>

CommitSegments(u) ==
  /\ up[u].at = "commit"
  /\ up[u].kind = "segments"
  /\ rows' = (rows \ up[u].old) \union {ActiveRow(u)}
  /\ last' = u
  /\ Goes(u, "done")
  /\ UNCHANGED <<store, failures, tidy, met, golden, indexes>>

Unused(set) == sets[set] = NoSet /\ change[set] = Idle /\ set \notin deleting
Draft(version) == [status |-> "draft", version |-> version]

\* Mutant: the set is not pinned to the version of the guide.
OpenDraftUnpinned(u) ==
  /\ up[u].at = "draft"
  /\ \E set \in Sets : Unused(set) /\ sets' = [sets EXCEPT ![set] = Draft(NoVersion)]
  /\ Goes(u, "done")
  /\ UNCHANGED <<store, rows, failures, last, tidy, met, change, deleting, first, raced, clients, indexes>>

\* A quarantined guide has a draft set, too.
OpenDraft(u) ==
  /\ up[u].at = "draft"
  /\ \E set \in Sets : Unused(set) /\ sets' = [sets EXCEPT ![set] = Draft(up[u].version)]
  /\ Goes(u, "done")
  /\ UNCHANGED <<store, rows, failures, last, tidy, met, change, deleting, first, raced, clients, indexes>>

\* The store or Postgres raises, or the process ends: what is written stays.
Fail(u) ==
  /\ up[u].at \notin {"none", "done", "failed"}
  /\ failures < MaxFailures
  /\ failures' = failures + 1
  /\ tidy' = (tidy /\ u \notin SegmentsInStore)
  /\ Goes(u, "failed")
  /\ UNCHANGED <<store, rows, last, met, golden, indexes>>

\* ingest_seed_datasets fills the store and writes no row.
SeedStore ==
  /\ store' = [k \in Kinds |-> store[k] \union {[upload |-> Seed, chunk |-> 1]}]
  /\ store' # store
  /\ UNCHANGED <<up, rows, failures, last, tidy, met, golden, indexes>>

-----------------------------------------------------------------------------
(* What the API lists.                                                        *)

VersionOf(upload) == IF upload = Seed THEN SeedVersion ELSE up[upload].version
Guides == {g \in rows : g.kind = "guidelines"}
ActiveGuides == {g.upload : g \in {h \in Guides : h.active}}
GuidesInStore == {d.upload : d \in store.guidelines}
ListedGuides == IF ActiveGuides # {} THEN ActiveGuides ELSE GuidesInStore

\* The store is asked when Postgres has nothing: for the segments of uploads, and
\* where there are none for those of the seed data.
SegmentsOf(versions) ==
  LET registered == {s.upload : s \in {r \in rows : r.kind = "segments" /\ r.version \in versions}}
      stored == {u \in {d.upload : d \in store.segments} : VersionOf(u) \in versions}
  IN CASE registered # {} -> registered
       [] registered = {} /\ stored \ {Seed} # {} -> stored \ {Seed}
       [] OTHER -> stored

\* Without segments of the version, those of any version.
ListedSegments(version) ==
  IF SegmentsOf({version}) # {} THEN SegmentsOf({version}) ELSE SegmentsOf(Versions)

-----------------------------------------------------------------------------
(* _get_bm25. An empty set of documents is no index.                          *)

\* A call that finds no index in memory asks the store, and waits.
AskStore(r, p, kind) ==
  /\ "retrievers" \in clients
  /\ reader[r] = Away
  /\ mem[p][kind] = {}
  /\ reader' = [reader EXCEPT ![r] = [at |-> "asked", process |-> p, kind |-> kind, docs |-> {}]]
  /\ UNCHANGED <<disk, mem, uploading, golden>>

\* With no documents, or no answer, there is no index.
ReadStore(r) ==
  /\ reader[r].at = "asked"
  /\ \/ /\ store[reader[r].kind] # {}
        /\ reader' = [reader EXCEPT ![r].at = "read", ![r].docs = store[reader[r].kind]]
     \/ reader' = [reader EXCEPT ![r] = Returned]
  /\ UNCHANGED <<disk, mem, uploading, golden>>

SameCount(index, docs) == Cardinality(index) = Cardinality(docs)

\* Mutant: an index on disk is good whatever it was built from.
IndexFromDisk(kind, docs) == IF disk[kind] # {} THEN disk[kind] ELSE docs

\* The index on disk is used when it has as many documents as were read.
IndexFor(kind, docs) == IF SameCount(disk[kind], docs) THEN disk[kind] ELSE docs

\* An index that was built is written to disk, where the old one stays when the
\* file cannot be opened and none when it cannot be written to its end. Whatever
\* is in memory by now is replaced.
UseIndex(r) ==
  LET p == reader[r].process
      kind == reader[r].kind
      index == IndexFor(kind, reader[r].docs)
  IN /\ reader[r].at = "read"
     /\ mem' = [mem EXCEPT ![p][kind] = index]
     /\ \/ UNCHANGED disk
        \/ index # disk[kind] /\ \E left \in {index, {}} : disk' = [disk EXCEPT ![kind] = left]
     /\ reader' = [reader EXCEPT ![r] = Returned]
     /\ UNCHANGED <<uploading, golden>>

Restart(p) ==
  /\ mem' = [mem EXCEPT ![p] = [k \in Kinds |-> {}]]
  /\ reader' = [r \in Readers |-> IF reader[r].at \in {"asked", "read"} /\ reader[r].process = p
                                    THEN Returned ELSE reader[r]]
  /\ <<mem', reader'>> # <<mem, reader>>
  /\ UNCHANGED <<disk, uploading, golden>>

-----------------------------------------------------------------------------
(* golden_dataset_service: each call is a transaction.                        *)

\* The versions Postgres calls active, or those the store has when there is none.
Known == {VersionOf(u) : u \in ListedGuides}

\* Every version without a set gets a draft.
Backfill ==
  LET missing == Known \ {sets[set].version : set \in Sets}
  IN /\ "editors" \in clients
     /\ missing # {}
     /\ \E opened \in [missing -> {set \in Sets : Unused(set)}] :
          /\ IsInjective(opened)
          /\ sets' = [set \in Sets |-> IF \E v \in missing : opened[v] = set
                                        THEN Draft(CHOOSE v \in missing : opened[v] = set) ELSE sets[set]]
     /\ UNCHANGED <<change, deleting, first, raced, clients, uploading, indexes>>

Active == {set \in Sets : sets[set].status = "active"}

\* The set is read and the other active ones are archived.
BeginActivate(set) ==
  /\ "editors" \in clients
  /\ sets[set] # NoSet
  /\ change[set] = Idle
  /\ change' = [change EXCEPT ![set] = [at |-> "activate", others |-> Active \ {set}]]
  /\ UNCHANGED <<sets, deleting, first, raced, clients, uploading, indexes>>

Locked(set) == \E t \in Sets : set \in change[t].others

Activated(set) ==
  [t \in Sets |-> IF t \in change[set].others THEN [sets[t] EXCEPT !.status = "archived"]
                  ELSE IF t = set /\ sets[t] # NoSet THEN [sets[t] EXCEPT !.status = "active"]
                  ELSE sets[t]]

\* Mutant: the others are archived whether or not the set can be activated.
EndActivateApart(set) ==
  /\ change[set].at = "activate"
  /\ ~Locked(set)
  /\ change' = [change EXCEPT ![set] = Idle]
  /\ sets' = IF Active \subseteq {set} \union change[set].others THEN Activated(set)
             ELSE [t \in Sets |-> IF t \in Active THEN [sets[t] EXCEPT !.status = "archived"] ELSE sets[t]]
  /\ first' = TRUE
  /\ raced' = (raced \/ sets[set] = NoSet)
  /\ UNCHANGED <<deleting, clients, uploading, indexes>>

\* A set that became active since then fails the unique index and nothing
\* changes. A set that was deleted since then is not activated, and the others
\* are archived.
EndActivate(set) ==
  /\ change[set].at = "activate"
  /\ ~Locked(set)
  /\ change' = [change EXCEPT ![set] = Idle]
  /\ IF Active \subseteq {set} \union change[set].others
       THEN sets' = Activated(set) /\ first' = TRUE /\ raced' = (raced \/ sets[set] = NoSet)
       ELSE UNCHANGED <<sets, first, raced>>
  /\ UNCHANGED <<deleting, clients, uploading, indexes>>

BeginDelete(set) ==
  /\ "editors" \in clients
  /\ sets[set].status \in {"draft", "archived"}
  /\ set \notin deleting
  /\ deleting' = deleting \union {set}
  /\ UNCHANGED <<sets, change, first, raced, clients, uploading, indexes>>

\* The status that was read is not looked at again.
EndDelete(set) ==
  /\ set \in deleting
  /\ ~Locked(set)
  /\ deleting' = deleting \ {set}
  /\ sets' = [sets EXCEPT ![set] = NoSet]
  /\ raced' = (raced \/ sets[set].status = "active")
  /\ UNCHANGED <<change, first, clients, uploading, indexes>>

-----------------------------------------------------------------------------

Next ==
  \/ \E u \in Uploads :
       \/ \E k \in Kinds, v \in Versions, n \in 1 .. MaxChunks : Submit(u, k, v, n)
       \/ JudgeGuide(u) \/ JudgeSegments(u) \/ DeleteOld(u) \/ Upsert(u) \/ Begin(u)
       \/ CommitGuide(u) \/ CommitSegments(u) \/ OpenDraft(u) \/ Fail(u)
  \/ SeedStore
  \/ \E r \in Readers :
       \/ \E p \in Processes, k \in Kinds : AskStore(r, p, k)
       \/ ReadStore(r) \/ UseIndex(r)
  \/ \E p \in Processes : Restart(p)
  \/ Backfill
  \/ \E set \in Sets : BeginActivate(set) \/ EndActivate(set) \/ BeginDelete(set) \/ EndDelete(set)

Spec == Init /\ [][Next]_vars

-----------------------------------------------------------------------------

TypeOK ==
  /\ \A u \in Uploads : up[u].at \in {"none", "judge", "delete", "upsert", "begin", "commit", "draft", "done", "failed"}
  /\ store \in [Kinds -> SUBSET Docs]
  /\ rows \subseteq [upload : Uploads, kind : Kinds, version : Versions, status : {"active", "quarantined"}, active : BOOLEAN]
  /\ sets \in [Sets -> {NoSet} \union [status : {"draft", "active", "archived"}, version : Versions]]
  /\ change \in [Sets -> [at : {"idle", "activate"}, others : SUBSET Sets]]
  /\ deleting \subseteq Sets
  /\ disk \in [Kinds -> SUBSET Docs]
  /\ mem \in [Processes -> [Kinds -> SUBSET Docs]]
  /\ \A r \in Readers :
       reader[r] \in {Away, Returned} \union [at : {"asked", "read"}, process : Processes, kind : Kinds, docs : SUBSET Docs]
  /\ last \in Uploads \union {None} /\ clients \in Clients
  /\ <<tidy, met, first, raced>> \in BOOLEAN \X BOOLEAN \X BOOLEAN \X BOOLEAN

\* From the first guide on there is an active one, and only one unless two
\* uploads registered at once: no reader falls into a gap between versions. What
\* the API lists can be retrieved in full, whichever upload failed, and is not
\* quarantined.
OneActiveGuide ==
  /\ (\E g \in Guides : g.status = "active") => ActiveGuides # {}
  /\ ~met => Cardinality(ActiveGuides) <= 1
  /\ \A u \in ListedGuides \ {Seed} :
       /\ DocsOf(u) \subseteq store.guidelines
       /\ ~\E g \in Guides : g.upload = u /\ g.status = "quarantined"

\* When no upload of segments is under way, and none met another one or failed
\* half-way, the store holds those of the last upload, and the API lists these for
\* their version.
SegmentsMatch ==
  SegmentsInStore = {} /\ tidy /\ last # None =>
    /\ {d \in store.segments : d.upload # Seed} = DocsOf(last)
    /\ ListedSegments(up[last].version) = {last}

\* Looking at the number of documents is enough for guides, of which none is ever
\* removed: an index of theirs that is put to use, from disk or built, has the
\* documents that a call read after it found none in memory, and nothing the store
\* does not have. What was added since the call read is missing, in memory until
\* the process restarts; and a slow call replaces the index of a faster one that
\* read more (_get_bm25).
IndexIsCurrent ==
  [][\A p \in Processes :
       LET index == mem'[p].guidelines
       IN index # mem[p].guidelines /\ index # {} =>
            /\ index \subseteq store.guidelines
            /\ \E r \in Readers :
                 /\ reader[r].at = "read" /\ reader[r].process = p /\ reader[r].kind = "guidelines"
                 /\ index = reader[r].docs]_vars

\* Once a set is active there is always exactly one, also while another one is
\* taking its place, unless a set is deleted while it is being activated.
OneActiveSet == first /\ ~raced => Cardinality(Active) = 1
=============================================================================
