--------------------------- MODULE KnowledgeProofs ---------------------------
(***************************************************************************)
(* Theorems about Knowledge, for any uploads, versions, sets of examples,    *)
(* processes, sizes and numbers of failures.                                 *)
(***************************************************************************)
EXTENDS Knowledge, FiniteSetTheorems, TLAPS

-----------------------------------------------------------------------------
(* The inductive invariant: the uploads, the sets and the indexes.            *)

Places == {"judge", "delete", "upsert", "begin", "commit", "draft", "done", "failed"}
Late == {"begin", "commit", "draft", "done", "failed"}
Over == {"draft", "done", "failed"}
Rows == [upload : Uploads, kind : Kinds, version : Versions, status : {"active", "quarantined"}, active : BOOLEAN]
Submitted == [at : Places, kind : Kinds, version : Versions, chunks : 1 .. MaxChunks, old : SUBSET Rows]

UpTyped ==
  /\ DOMAIN up = Uploads
  /\ \A u \in Uploads : up[u] = Fresh \/ up[u] \in Submitted

StoresTyped ==
  /\ store \in [Kinds -> SUBSET Docs]
  /\ rows \subseteq Rows
  /\ last \in Uploads \union {None} /\ tidy \in BOOLEAN /\ met \in BOOLEAN

\* A row belongs to an upload that is through with Postgres, a chunk to one that is
\* through with the store, where all its chunks are.
Registered ==
  \A r \in rows : up[r.upload].at \in Over /\ up[r.upload].kind = r.kind /\ up[r.upload].version = r.version
Upserted ==
  /\ \A k \in Kinds : \A d \in store[k] :
       d.upload # Seed => /\ up[d.upload].at \in Late /\ up[d.upload].kind = k
                          /\ DocsOf(d.upload) \subseteq store[k]
  /\ \A u \in Uploads :
       up[u].at \in {"begin", "commit"} /\ up[u].kind = "guidelines" => DocsOf(u) \subseteq store.guidelines

IsActiveGuide(r) == r.kind = "guidelines" /\ r.active
RowsOf(version) == {s \in rows : s.kind = "segments" /\ s.version = version}

\* What a transaction read first may have been deactivated since then.
Replacing ==
  \A u \in Uploads : up[u].at = "commit" =>
    \A r \in up[u].old :
      /\ r.kind = up[u].kind
      /\ r.kind = "guidelines" => r.active /\ (r \in rows \/ [r EXCEPT !.active = FALSE] \in rows)

GuidesServed ==
  /\ \A r \in rows : r.kind = "guidelines" /\ r.status = "active" => DocsOf(r.upload) \subseteq store.guidelines
  /\ \A r \in rows : r.status = "quarantined" =>
       /\ ~r.active
       /\ \A q \in rows : q.upload = r.upload => q.status = "quarantined"
       /\ \A d \in store.guidelines : d.upload # r.upload
  /\ (\E r \in rows : r.kind = "guidelines" /\ r.status = "active") => \E r \in rows : IsActiveGuide(r)

Committing(kind) == {u \in Uploads : up[u].at = "commit" /\ up[u].kind = kind}
OneGuide ==
  ~met =>
    /\ \A u, v \in Committing("guidelines") : u = v
    /\ \A u \in Committing("guidelines") : up[u].old = {r \in rows : IsActiveGuide(r)}
    /\ \A r, q \in rows : IsActiveGuide(r) /\ IsActiveGuide(q) => r.upload = q.upload

Uploaded == {d \in store.segments : d.upload # Seed}
SegmentsFollow ==
  /\ \A u \in Uploads : up[u].at = "delete" => up[u].kind = "segments"
  /\ last # None => up[last].at = "done"
  /\ tidy =>
       /\ \A u, v \in SegmentsInStore : u = v
       /\ SegmentsInStore = {} /\ last # None =>
            Uploaded = DocsOf(last) /\ {s.upload : s \in RowsOf(up[last].version)} = {last}
       /\ \A u \in SegmentsInStore :
            /\ up[u].at = "upsert" => Uploaded = {}
            /\ up[u].at # "upsert" => Uploaded = DocsOf(u)
            /\ up[u].at = "commit" => up[u].old = RowsOf(up[u].version)

UploadInv ==
  UpTyped /\ StoresTyped /\ Registered /\ Upserted /\ Replacing /\ GuidesServed /\ OneGuide /\ SegmentsFollow

\* There is never more than one active set, and one from the first on.
GoldenInv ==
  /\ sets \in [Sets -> {NoSet} \union [status : {"draft", "active", "archived"}, version : Versions]]
  /\ change \in [Sets -> [at : {"idle", "activate"}, others : SUBSET Sets]]
  /\ deleting \subseteq Sets /\ clients \in Clients
  /\ first \in BOOLEAN /\ raced \in BOOLEAN
  /\ \A set \in Sets : set \notin change[set].others /\ \A t \in change[set].others : sets[t] # NoSet
  /\ \A s, t \in Active : s = t
  /\ first /\ ~raced => Active # {}

\* What has been read of the guides, and the index of them in the cache directory,
\* are stages the store went through, so that of two with as many documents each
\* has those of the other.
HasRead == {r \in Readers : reader[r].at = "read" /\ reader[r].kind = "guidelines"}
Nested(a, b) == a \subseteq b \/ b \subseteq a

IndexTypes ==
  /\ disk \in [Kinds -> SUBSET Docs] /\ mem \in [Processes -> [Kinds -> SUBSET Docs]]
  /\ DOMAIN reader = Readers
  /\ \A r \in Readers : reader[r] \in {Away, Returned}
                          \union [at : {"asked", "read"}, process : Processes, kind : Kinds, docs : SUBSET Docs]
IndexInv ==
  /\ IndexTypes
  /\ IsFiniteSet(store.guidelines) /\ disk.guidelines \subseteq store.guidelines
  /\ \A r \in HasRead : reader[r].docs \subseteq store.guidelines /\ Nested(disk.guidelines, reader[r].docs)
  /\ \A q, r \in HasRead : Nested(reader[q].docs, reader[r].docs)

IInv == UploadInv /\ GoldenInv /\ IndexInv

-----------------------------------------------------------------------------
(* The uploads.                                                              *)

\* An upload that was submitted keeps what it is.
LEMMA UploadMoves ==
  ASSUME UpTyped, NEW u \in Uploads, NEW x \in Submitted, up' = [up EXCEPT ![u] = x],
         up[u].at # "none" => x.kind = up[u].kind /\ x.version = up[u].version /\ x.chunks = up[u].chunks
  PROVE  /\ UpTyped' /\ up'[u] = x
         /\ \A v \in Uploads : v # u => up'[v] = up[v]
         /\ \A v \in Uploads : up[v].at # "none" =>
              /\ up'[v].at # "none" /\ up'[v].kind = up[v].kind /\ up'[v].version = up[v].version
              /\ DocsOf(v)' = DocsOf(v)
<1>1. up'[u] = x /\ DOMAIN up' = Uploads /\ \A v \in Uploads : v # u => up'[v] = up[v]
  BY DEF UpTyped
<1>2. x.at # "none"
  BY DEF Submitted, Places
<1> QED
  BY <1>1, <1>2 DEF UpTyped, DocsOf

LEMMA SubmittedType ==
  ASSUME UpTyped, NEW u \in Uploads, up[u].at # "none"
  PROVE  up[u] \in Submitted /\ up[u].at \in Places
<1>1. up[u] \in Submitted
  BY DEF UpTyped, Fresh
<1> QED
  BY <1>1 DEF Submitted

\* Where neither the store nor the rows change, and the upload is not about to write.
LEMMA AsideKeeps ==
  ASSUME UploadInv, NEW u \in Uploads, NEW x \in Submitted, up' = [up EXCEPT ![u] = x],
         up[u].at # "none" => x.kind = up[u].kind /\ x.version = up[u].version /\ x.chunks = up[u].chunks,
         UNCHANGED <<store, rows, last, met>>, tidy' \in BOOLEAN,
         tidy' => tidy /\ u \notin SegmentsInStore,
         up[u].at \in Late => x.at \in Over, up[u].at # "done",
         \/ x.at \in {"judge", "draft", "done", "failed"}
         \/ x.at = "upsert" /\ x.kind = "guidelines"
         \/ x.at = "delete" /\ x.kind = "segments"
  PROVE  UploadInv'
<1>1. /\ UpTyped' /\ up'[u] = x
      /\ \A v \in Uploads : v # u => up'[v] = up[v]
      /\ \A v \in Uploads : up[v].at # "none" =>
           /\ up'[v].at # "none" /\ up'[v].kind = up[v].kind /\ up'[v].version = up[v].version
           /\ DocsOf(v)' = DocsOf(v)
  BY UploadMoves DEF UploadInv
<1>2. StoresTyped'
  BY DEF UploadInv, StoresTyped
<1>3. \A v \in Uploads : /\ up[v].at \in Over => up'[v].at \in Over
                         /\ up[v].at \in Late => up'[v].at \in Late
                         /\ up'[v].at \in {"begin", "commit"} => v # u /\ up'[v] = up[v]
                         /\ up[v].at \in Late => up[v].at # "none"
                         /\ up[v].at = "done" => up'[v] = up[v]
  BY <1>1 DEF Late, Over
<1>4. \A r \in rows : r.upload \in Uploads
  BY DEF UploadInv, StoresTyped, Rows
<1>5. Registered'
  BY <1>1, <1>3, <1>4 DEF UploadInv, Registered, Over, Late
<1>6. \A k \in Kinds : \A d \in store[k] : d.upload # Seed => d.upload \in Uploads
  BY DEF UploadInv, StoresTyped, Docs
<1>7. Upserted'
  BY <1>1, <1>3, <1>6 DEF UploadInv, Upserted, Late
<1>8. Replacing'
  BY <1>1, <1>3 DEF UploadInv, Replacing
<1>9. GuidesServed'
  BY <1>1, <1>3, <1>4 DEF UploadInv, GuidesServed, Registered, IsActiveGuide, Over, Late
<1>10. OneGuide'
  BY <1>1, <1>3 DEF UploadInv, OneGuide, Committing, IsActiveGuide
<1>11. SegmentsFollow'
  <2>1. tidy' => SegmentsInStore' = SegmentsInStore /\ u \notin SegmentsInStore'
    BY <1>1 DEF SegmentsInStore, InStore
  <2>2. last # None => last \in Uploads /\ up'[last] = up[last] /\ up[last].at # "none"
    BY <1>3 DEF UploadInv, StoresTyped, SegmentsFollow
  <2>3. \A v \in SegmentsInStore : v \in Uploads /\ up[v].at # "none"
    BY DEF SegmentsInStore, InStore
  <2> QED
    BY <1>1, <2>1, <2>2, <2>3 DEF UploadInv, SegmentsFollow, Uploaded, RowsOf
<1> QED
  BY <1>1, <1>2, <1>5, <1>7, <1>8, <1>9, <1>10, <1>11 DEF UploadInv

LEMMA GoesTypes ==
  ASSUME UpTyped, NEW u \in Uploads, up[u].at # "none", NEW place \in Places, Goes(u, place)
  PROVE  \E x \in Submitted :
           /\ up' = [up EXCEPT ![u] = x] /\ x.at = place
           /\ x.kind = up[u].kind /\ x.version = up[u].version /\ x.chunks = up[u].chunks /\ x.old = up[u].old
<1> DEFINE x == [up[u] EXCEPT !.at = place]
<1>1. up[u] \in Submitted
  BY SubmittedType
<1>2. x \in Submitted /\ x.at = place /\ x.kind = up[u].kind /\ x.version = up[u].version
      /\ x.chunks = up[u].chunks /\ x.old = up[u].old
  BY <1>1 DEF Submitted
<1>3. up' = [up EXCEPT ![u] = x]
  BY DEF Goes
<1> HIDE DEF x
<1> QED
  BY <1>2, <1>3

LEMMA GoesMoves ==
  ASSUME UpTyped, NEW u \in Uploads, up[u].at # "none", NEW place \in Places, Goes(u, place)
  PROVE  /\ UpTyped' /\ up'[u].at = place
         /\ \A v \in Uploads : v # u => up'[v] = up[v]
         /\ \A v \in Uploads : up[v].at # "none" =>
              /\ up'[v].at # "none" /\ up'[v].kind = up[v].kind /\ up'[v].version = up[v].version
              /\ DocsOf(v)' = DocsOf(v)
  BY GoesTypes, UploadMoves

LEMMA SubmitKeeps ==
  ASSUME UploadInv, NEW u \in Uploads, NEW kind \in Kinds, NEW version \in Versions, NEW chunks \in 1 .. MaxChunks,
         Submit(u, kind, version, chunks)
  PROVE  UploadInv'
<1> DEFINE x == [at |-> "judge", kind |-> kind, version |-> version, chunks |-> chunks, old |-> {}]
<1>1. x \in Submitted /\ x.at = "judge"
  BY DEF Submitted, Places
<1>2. up' = [up EXCEPT ![u] = x] /\ up[u].at = "none"
      /\ UNCHANGED <<store, rows, last, met, tidy>>
  BY DEF Submit, Fresh
<1>3. tidy \in BOOLEAN /\ u \notin SegmentsInStore
  BY <1>2 DEF UploadInv, StoresTyped, SegmentsInStore, InStore
<1> HIDE DEF x
<1> QED
  BY <1>1, <1>2, <1>3, AsideKeeps DEF Late

\* The steps of an upload that write nothing.
LEMMA QuietKeeps ==
  ASSUME UploadInv, NEW u \in Uploads, NEW place \in Places, Goes(u, place),
         UNCHANGED <<store, rows, last, met>>, tidy' \in BOOLEAN, tidy' => tidy /\ u \notin SegmentsInStore,
         \/ up[u].at \notin {"none", "done", "failed"} /\ place = "failed"
         \/ up[u].at = "draft" /\ place = "done"
         \/ up[u].at = "judge" /\ up[u].kind = "segments" /\ place \in {"delete", "done"}
         \/ up[u].at = "judge" /\ up[u].kind = "guidelines" /\ place = "upsert"
  PROVE  UploadInv'
<1>1. PICK x \in Submitted :
        /\ up' = [up EXCEPT ![u] = x] /\ x.at = place
        /\ x.kind = up[u].kind /\ x.version = up[u].version /\ x.chunks = up[u].chunks
  BY GoesTypes DEF UploadInv
<1> QED
  BY <1>1, AsideKeeps DEF Late, Over

LEMMA DeleteOldKeeps ==
  ASSUME UploadInv, NEW u \in Uploads, DeleteOld(u)
  PROVE  UploadInv'
<1>1. up[u].at = "delete" /\ Goes(u, "upsert") /\ UNCHANGED <<rows, last, met>> /\ tidy' = (SegmentsInStore = {})
      /\ store' = [store EXCEPT !.segments = {d \in @ : d.upload = Seed}]
  BY DEF DeleteOld
<1>2. PICK x \in Submitted :
        /\ up' = [up EXCEPT ![u] = x] /\ x.at = "upsert"
        /\ x.kind = up[u].kind /\ x.version = up[u].version /\ x.chunks = up[u].chunks
  BY <1>1, GoesTypes DEF UploadInv, Places
<1>3. /\ UpTyped' /\ up'[u] = x
      /\ \A v \in Uploads : v # u => up'[v] = up[v]
      /\ \A v \in Uploads : up[v].at # "none" =>
           /\ up'[v].at # "none" /\ up'[v].kind = up[v].kind /\ up'[v].version = up[v].version
           /\ DocsOf(v)' = DocsOf(v)
  BY <1>2, UploadMoves DEF UploadInv
<1>4. /\ store' \in [Kinds -> SUBSET Docs] /\ store'.guidelines = store.guidelines
      /\ \A d \in store'.segments : d.upload = Seed
  BY <1>1 DEF UploadInv, StoresTyped, Kinds
<1>5. StoresTyped'
  BY <1>1, <1>4 DEF UploadInv, StoresTyped
<1>6. \A v \in Uploads : up[v].at \in Late \/ up'[v].at \in Late => v # u /\ up'[v] = up[v] /\ DocsOf(v)' = DocsOf(v)
  BY <1>1, <1>2, <1>3 DEF Late
<1>7. \A r \in rows : r.upload \in Uploads
  BY DEF UploadInv, StoresTyped, Rows
<1>8. Registered'
  BY <1>1, <1>6, <1>7 DEF UploadInv, Registered, Over, Late
<1>9. Upserted'
  <2>1. \A d \in store.guidelines : d.upload # Seed => d.upload \in Uploads
    BY DEF UploadInv, StoresTyped, Docs, Kinds
  <2>2. \A k \in Kinds : k = "guidelines" \/ k = "segments"
    BY DEF Kinds
  <2> QED
    BY <1>4, <1>6, <2>1, <2>2 DEF UploadInv, Upserted, Late
<1>10. Replacing'
  BY <1>1, <1>6 DEF UploadInv, Replacing, Late
<1>11. GuidesServed'
  BY <1>1, <1>4, <1>6, <1>7 DEF UploadInv, GuidesServed, Registered, IsActiveGuide, Over, Late
<1>12. OneGuide'
  BY <1>1, <1>6 DEF UploadInv, OneGuide, Committing, IsActiveGuide, Late
<1>13. SegmentsFollow'
  <2>1. up[u].kind = "segments"
    BY <1>1 DEF UploadInv, SegmentsFollow
  <2>7. SegmentsInStore = {} => SegmentsInStore' = {u}
    BY <1>1, <1>2, <1>3, <2>1 DEF SegmentsInStore, InStore
  <2>2. tidy' => SegmentsInStore' = {u}
    BY <1>1, <2>7
  <2>3. Uploaded' = {}
    BY <1>4 DEF Uploaded
  <2>4. \A v \in Uploads : up'[v].at = "delete" => up[v].at = "delete" /\ up'[v].kind = up[v].kind
    BY <1>2, <1>3
  <2>5. last # None => last \in Uploads /\ last # u
    BY <1>1 DEF UploadInv, StoresTyped, SegmentsFollow
  <2> QED
    BY <1>1, <1>2, <1>3, <2>2, <2>3, <2>4, <2>5 DEF UploadInv, SegmentsFollow
<1> QED
  BY <1>3, <1>5, <1>8, <1>9, <1>10, <1>11, <1>12, <1>13 DEF UploadInv

\* The chunks of an upload are of the store's type, and not of the seed data.
LEMMA DocsType ==
  ASSUME UpTyped, NEW u \in Uploads, up[u].at # "none"
  PROVE  DocsOf(u) \subseteq Docs /\ \A d \in DocsOf(u) : d.upload = u /\ u # Seed
<1>1. up[u].chunks \in 1 .. MaxChunks
  BY SubmittedType DEF Submitted
<1>2. 1 .. up[u].chunks \subseteq 1 .. MaxChunks
  BY <1>1, BoundsAreNumbers
<1>3. u # Seed
  BY SeedIsNoUpload
<1> QED
  BY <1>2, <1>3 DEF DocsOf, Docs

LEMMA UpsertKeeps ==
  ASSUME UploadInv, NEW u \in Uploads, Upsert(u)
  PROVE  UploadInv'
<1>1. /\ up[u].at = "upsert" /\ Goes(u, "begin") /\ UNCHANGED <<rows, last, met, tidy>>
      /\ store' = [store EXCEPT ![up[u].kind] = @ \union DocsOf(u)]
  BY DEF Upsert
<1>2. /\ UpTyped' /\ up'[u].at = "begin"
      /\ \A v \in Uploads : v # u => up'[v] = up[v]
      /\ \A v \in Uploads : up[v].at # "none" =>
           /\ up'[v].at # "none" /\ up'[v].kind = up[v].kind /\ up'[v].version = up[v].version
           /\ DocsOf(v)' = DocsOf(v)
  BY <1>1, GoesMoves DEF UploadInv, Places
<1>3. up[u].kind \in Kinds /\ DocsOf(u) \subseteq Docs /\ \A d \in DocsOf(u) : d.upload = u /\ u # Seed
  BY <1>1, DocsType, SubmittedType DEF UploadInv, Submitted
<1>4. /\ store' \in [Kinds -> SUBSET Docs]
      /\ store'[up[u].kind] = store[up[u].kind] \union DocsOf(u)
      /\ \A k \in Kinds : k # up[u].kind => store'[k] = store[k]
  BY <1>1, <1>3 DEF UploadInv, StoresTyped
<1>5. StoresTyped'
  BY <1>1, <1>4 DEF UploadInv, StoresTyped
<1>6. \A v \in Uploads : up[v].at \in Late \/ up'[v].at \in Over => v # u /\ up'[v] = up[v] /\ DocsOf(v)' = DocsOf(v)
  BY <1>1, <1>2 DEF Late, Over
<1>7. \A r \in rows : r.upload \in Uploads
  BY DEF UploadInv, StoresTyped, Rows
<1>8. Registered'
  BY <1>1, <1>6, <1>7 DEF UploadInv, Registered, Over, Late
<1>9. Upserted'
  <2>1. \A k \in Kinds : \A d \in store[k] : d.upload # Seed => d.upload \in Uploads
    BY DEF UploadInv, StoresTyped, Docs
  <2>2. "guidelines" \in Kinds
    BY DEF Kinds
  <2>3. \A k \in Kinds : store[k] \subseteq store'[k]
    BY <1>4
  <2>4. ASSUME NEW k \in Kinds, NEW d \in store'[k], d.upload # Seed
        PROVE  up'[d.upload].at \in Late /\ up'[d.upload].kind = k /\ DocsOf(d.upload)' \subseteq store'[k]
    <3>1. CASE d \in store[k]
      BY <2>1, <2>3, <2>4, <3>1, <1>6 DEF UploadInv, Upserted
    <3>2. CASE d \notin store[k]
      <4>1. k = up[u].kind /\ d \in DocsOf(u)
        BY <2>4, <3>2, <1>4
      <4>2. d.upload = u /\ DocsOf(u) \subseteq store'[k]
        BY <4>1, <1>3, <1>4
      <4>3. DocsOf(u)' = DocsOf(u) /\ up'[u].kind = k /\ up'[u].at \in Late
        BY <1>1, <1>2, <4>1 DEF Late
      <4> QED
        BY <4>2, <4>3
    <3> QED
      BY <3>1, <3>2
  <2>5. ASSUME NEW v \in Uploads, up'[v].at \in {"begin", "commit"}, up'[v].kind = "guidelines"
        PROVE  DocsOf(v)' \subseteq store'.guidelines
    <3>1. CASE v = u
      BY <2>5, <3>1, <1>1, <1>2, <1>4
    <3>2. CASE v # u
      BY <2>2, <2>3, <2>5, <3>2, <1>2 DEF UploadInv, Upserted
    <3> QED
      BY <3>1, <3>2
  <2> QED
    BY <2>4, <2>5 DEF Upserted
<1>10. Replacing'
  BY <1>1, <1>2 DEF UploadInv, Replacing, Late
<1>11. GuidesServed'
  <2>1. \A r \in rows : r.upload # u /\ DocsOf(r.upload)' = DocsOf(r.upload)
    BY <1>6, <1>7 DEF UploadInv, Registered, Over, Late
  <2>2. \A d \in store'.guidelines : d \in store.guidelines \/ d.upload = u
    BY <1>3, <1>4 DEF Kinds
  <2>3. store.guidelines \subseteq store'.guidelines
    BY <1>4 DEF Kinds
  <2> QED
    BY <1>1, <2>1, <2>2, <2>3 DEF UploadInv, GuidesServed, IsActiveGuide
<1>12. OneGuide'
  BY <1>1, <1>2 DEF UploadInv, OneGuide, Committing, IsActiveGuide
<1>13. SegmentsFollow'
  <2>1. SegmentsInStore' = SegmentsInStore
    BY <1>1, <1>2 DEF SegmentsInStore, InStore
  <2>2. last # None => last \in Uploads /\ last # u
    BY <1>1 DEF UploadInv, StoresTyped, SegmentsFollow
  <2>3. \A v \in Uploads : up'[v].at = "delete" => up[v].at = "delete" /\ up'[v].kind = up[v].kind
    BY <1>2
  <2>4. CASE up[u].kind = "guidelines"
    <3>1. u \notin SegmentsInStore /\ Uploaded' = Uploaded
      BY <1>4, <2>4 DEF SegmentsInStore, InStore, Uploaded, Kinds
    <3>2. \A v \in SegmentsInStore : v # u /\ up'[v] = up[v] /\ DocsOf(v)' = DocsOf(v)
      BY <3>1, <1>2 DEF SegmentsInStore, InStore
    <3>3. last # None => up'[last] = up[last] /\ up[last].at = "done" /\ DocsOf(last)' = DocsOf(last)
      BY <1>1, <1>2, <2>2 DEF UploadInv, SegmentsFollow
    <3>4. \A v \in Uploads : up[v].at = "delete" => up[v].kind = "segments"
      BY DEF UploadInv, SegmentsFollow
    <3>5. \A version : RowsOf(version)' = RowsOf(version)
      BY <1>1 DEF RowsOf
    <3> QED
      BY <1>1, <2>1, <2>3, <3>1, <3>2, <3>3, <3>4, <3>5 DEF UploadInv, SegmentsFollow
  <2>5. CASE up[u].kind = "segments"
    <3>1. u \in SegmentsInStore
      BY <1>1, <2>5 DEF SegmentsInStore, InStore
    <3>2. Uploaded = {} => Uploaded' = DocsOf(u)
      BY <1>3, <1>4, <2>5 DEF Uploaded
    <3>3. tidy => Uploaded = {} /\ \A v \in SegmentsInStore : v = u
      BY <1>1, <3>1 DEF UploadInv, SegmentsFollow
    <3> QED
      BY <1>1, <1>2, <2>1, <2>2, <2>3, <3>1, <3>2, <3>3 DEF UploadInv, SegmentsFollow
  <2> QED
    BY <1>3, <2>4, <2>5 DEF Kinds
<1> QED
  BY <1>2, <1>5, <1>8, <1>9, <1>10, <1>11, <1>12, <1>13 DEF UploadInv

LEMMA SeedStoreKeeps ==
  ASSUME UploadInv, SeedStore
  PROVE  UploadInv'
<1> DEFINE seed == [upload |-> Seed, chunk |-> 1]
<1>1. /\ UNCHANGED <<up, rows, last, met, tidy>>
      /\ store' = [k \in Kinds |-> store[k] \union {seed}]
  BY DEF SeedStore
<1>2. seed \in Docs /\ seed.upload = Seed
  BY BoundsAreNumbers DEF Docs
<1> HIDE DEF seed
<1>3. store' \in [Kinds -> SUBSET Docs] /\ \A k \in Kinds : store'[k] = store[k] \union {seed}
  BY <1>1, <1>2 DEF UploadInv, StoresTyped
<1>4. StoresTyped'
  BY <1>1, <1>3 DEF UploadInv, StoresTyped
<1>5. \A v : DocsOf(v)' = DocsOf(v)
  BY <1>1 DEF DocsOf
<1>6. UpTyped' /\ Registered' /\ Replacing' /\ OneGuide'
  BY <1>1 DEF UploadInv, UpTyped, Registered, Replacing, OneGuide, Committing, IsActiveGuide
<1>7. store'.guidelines = store.guidelines \union {seed} /\ store'.segments = store.segments \union {seed}
  BY <1>3 DEF Kinds
<1>8. Upserted'
  BY <1>1, <1>2, <1>3, <1>5, <1>7 DEF UploadInv, Upserted
<1>9. GuidesServed'
  <2>1. \A r \in rows : r.upload # Seed
    BY SeedIsNoUpload DEF UploadInv, StoresTyped, Rows
  <2> QED
    BY <1>1, <1>2, <1>5, <1>7, <2>1 DEF UploadInv, GuidesServed, IsActiveGuide
<1>10. SegmentsFollow'
  <2>1. Uploaded' = Uploaded
    BY <1>2, <1>7 DEF Uploaded
  <2>2. SegmentsInStore' = SegmentsInStore
    BY <1>1 DEF SegmentsInStore, InStore
  <2> QED
    BY <1>1, <1>5, <2>1, <2>2 DEF UploadInv, SegmentsFollow, RowsOf
<1> QED
  BY <1>4, <1>6, <1>8, <1>9, <1>10 DEF UploadInv

LEMMA BeginKeeps ==
  ASSUME UploadInv, NEW u \in Uploads, Begin(u)
  PROVE  UploadInv'
<1> DEFINE x == [up[u] EXCEPT !.at = "commit", !.old = Replaced(u)]
<1>1. up[u].at = "begin" /\ UNCHANGED <<store, rows, last, tidy>>
  BY DEF Begin
<1>2. up' = [up EXCEPT ![u] = x]
  BY DEF Begin
<1>3. up[u] \in Submitted /\ Replaced(u) \in SUBSET Rows
  BY <1>1, SubmittedType DEF UploadInv, StoresTyped, Replaced
<1>4. /\ x \in Submitted /\ x.at = "commit" /\ x.old = Replaced(u)
      /\ x.kind = up[u].kind /\ x.version = up[u].version /\ x.chunks = up[u].chunks
  BY <1>3 DEF Submitted, Places
<1> HIDE DEF x
<1>5. /\ UpTyped' /\ up'[u] = x
      /\ \A v \in Uploads : v # u => up'[v] = up[v]
      /\ \A v \in Uploads : up[v].at # "none" =>
           /\ up'[v].at # "none" /\ up'[v].kind = up[v].kind /\ up'[v].version = up[v].version
           /\ DocsOf(v)' = DocsOf(v)
  BY <1>2, <1>4, UploadMoves DEF UploadInv
<1>6. met' = (met \/ \E v \in Uploads : up[v].at = "commit" /\ up[v].kind = "guidelines" /\ up[u].kind = "guidelines")
  BY DEF Begin
<1>7. met' \in BOOLEAN
  BY <1>6
<1>8. ~met' => /\ ~met
               /\ up[u].kind = "guidelines" => \A v \in Uploads : ~(up[v].at = "commit" /\ up[v].kind = "guidelines")
  BY <1>6
<1>9. StoresTyped'
  BY <1>1, <1>7 DEF UploadInv, StoresTyped
<1>10. \A v \in Uploads : /\ up[v].at \in Over => v # u /\ up'[v] = up[v]
                          /\ up'[v].at \in Over => v # u /\ up'[v] = up[v]
                          /\ up[v].at \in Late => up'[v].at \in Late /\ up[v].at # "none"
  BY <1>1, <1>4, <1>5 DEF Late, Over
<1>11. \A r \in rows : r.upload \in Uploads
  BY DEF UploadInv, StoresTyped, Rows
<1>12. Registered'
  BY <1>1, <1>10, <1>11 DEF UploadInv, Registered
<1>13. \A k \in Kinds : \A d \in store[k] : d.upload # Seed => d.upload \in Uploads
  BY DEF UploadInv, StoresTyped, Docs
<1>14. Upserted'
  <2>1. \A v \in Uploads : up'[v].at \in {"begin", "commit"} =>
          up[v].at \in {"begin", "commit"} /\ up'[v].kind = up[v].kind /\ DocsOf(v)' = DocsOf(v)
    BY <1>1, <1>4, <1>5
  <2> QED
    BY <1>1, <1>5, <1>10, <1>13, <2>1 DEF UploadInv, Upserted
<1>15. Replacing'
  <2>1. \A r \in Replaced(u) : r \in rows /\ r.kind = up[u].kind /\ (r.kind = "guidelines" => r.active)
    BY <1>3 DEF Replaced, Submitted, Kinds
  <2> QED
    BY <1>1, <1>4, <1>5, <2>1 DEF UploadInv, Replacing
<1>16. GuidesServed'
  BY <1>1, <1>5, <1>10, <1>11 DEF UploadInv, GuidesServed, Registered, IsActiveGuide, Over
<1>17. OneGuide'
  <2>1. up[u].kind = "guidelines" => x.old = {r \in rows : IsActiveGuide(r)}
    BY <1>4 DEF Replaced, IsActiveGuide
  <2>2. \A v \in Committing("guidelines")' : v \in Uploads /\ (v = u \/ (v \in Committing("guidelines") /\ up'[v] = up[v]))
    BY <1>5 DEF Committing
  <2>3. u \in Committing("guidelines")' => up[u].kind = "guidelines"
    BY <1>4, <1>5 DEF Committing
  <2>4. ASSUME ~met'
        PROVE  \A v \in Committing("guidelines")' : v = u \/ u \notin Committing("guidelines")'
    BY <1>8, <2>2, <2>3, <2>4 DEF Committing
  <2> QED
    BY <1>1, <1>5, <1>8, <2>1, <2>2, <2>3, <2>4 DEF UploadInv, OneGuide, IsActiveGuide
<1>18. SegmentsFollow'
  <2>1. SegmentsInStore' = SegmentsInStore
    BY <1>1, <1>4, <1>5 DEF SegmentsInStore, InStore
  <2>2. last # None => last \in Uploads /\ up'[last] = up[last] /\ up[last].at = "done" /\ DocsOf(last)' = DocsOf(last)
    BY <1>1, <1>5 DEF UploadInv, StoresTyped, SegmentsFollow
  <2>3. \A v \in Uploads : up'[v].at = "delete" => up[v].at = "delete" /\ up'[v].kind = up[v].kind
    BY <1>4, <1>5
  <2>4. \A version : RowsOf(version)' = RowsOf(version)
    BY <1>1 DEF RowsOf
  <2>5. Uploaded' = Uploaded
    BY <1>1 DEF Uploaded
  <2>6. \A v \in SegmentsInStore : /\ v \in Uploads /\ (v # u => up'[v] = up[v]) /\ DocsOf(v)' = DocsOf(v)
                                   /\ up'[v].version = up[v].version
    BY <1>5 DEF SegmentsInStore, InStore
  <2>7. u \in SegmentsInStore => x.old = RowsOf(up[u].version)
    BY <1>4 DEF SegmentsInStore, Replaced, RowsOf
  <2>8. tidy' =>
          /\ \A v, w \in SegmentsInStore' : v = w
          /\ SegmentsInStore' = {} /\ last' # None =>
               Uploaded' = DocsOf(last)' /\ {s.upload : s \in RowsOf(up[last].version)'} = {last'}
    BY <1>1, <2>1, <2>2, <2>4, <2>5 DEF UploadInv, SegmentsFollow
  <2>9. tidy' => \A v \in SegmentsInStore' :
          /\ up'[v].at = "upsert" => Uploaded' = {}
          /\ up'[v].at # "upsert" => Uploaded' = DocsOf(v)'
          /\ up'[v].at = "commit" => up'[v].old = RowsOf(up[v].version)'
    BY <1>1, <1>4, <1>5, <2>1, <2>4, <2>5, <2>6, <2>7 DEF UploadInv, SegmentsFollow
  <2> QED
    BY <1>1, <2>2, <2>3, <2>8, <2>9 DEF UploadInv, SegmentsFollow
<1> QED
  BY <1>5, <1>9, <1>12, <1>14, <1>15, <1>16, <1>17, <1>18 DEF UploadInv

LEMMA QuarantineKeeps ==
  ASSUME UploadInv, NEW u \in Uploads, up[u].at = "judge", up[u].kind = "guidelines", Goes(u, "draft"),
         UNCHANGED <<store, last, met, tidy>>,
         rows' = rows \union {[upload |-> u, kind |-> "guidelines", version |-> up[u].version,
                               status |-> "quarantined", active |-> FALSE]}
  PROVE  UploadInv'
<1> DEFINE r1 == [upload |-> u, kind |-> "guidelines", version |-> up[u].version, status |-> "quarantined", active |-> FALSE]
<1>1. /\ UpTyped' /\ up'[u].at = "draft"
      /\ \A v \in Uploads : v # u => up'[v] = up[v]
      /\ \A v \in Uploads : up[v].at # "none" =>
           /\ up'[v].at # "none" /\ up'[v].kind = up[v].kind /\ up'[v].version = up[v].version
           /\ DocsOf(v)' = DocsOf(v)
  BY GoesMoves DEF UploadInv, Places
<1>2. /\ r1 \in Rows /\ r1.upload = u /\ r1.kind = "guidelines" /\ r1.version = up[u].version
      /\ r1.status = "quarantined" /\ ~r1.active
  BY SubmittedType DEF UploadInv, Submitted, Rows, Kinds
<1>3. rows' = rows \union {r1}
  OBVIOUS
<1> HIDE DEF r1
<1>4. StoresTyped'
  BY <1>2, <1>3 DEF UploadInv, StoresTyped
<1>5. \A v \in Uploads : up[v].at \in Late \/ up'[v].at \in {"begin", "commit"} =>
        v # u /\ up'[v] = up[v] /\ DocsOf(v)' = DocsOf(v)
  BY <1>1 DEF Late
<1>6. \A r \in rows : r.upload \in Uploads /\ r.upload # u /\ up'[r.upload] = up[r.upload]
                      /\ DocsOf(r.upload)' = DocsOf(r.upload)
  BY <1>5 DEF UploadInv, StoresTyped, Rows, Registered, Over, Late
<1>7. Registered'
  BY <1>1, <1>2, <1>3, <1>6 DEF UploadInv, Registered, Over
<1>8. \A k \in Kinds : \A d \in store[k] : d.upload # Seed => d.upload \in Uploads
  BY DEF UploadInv, StoresTyped, Docs
<1>9. Upserted'
  BY <1>1, <1>5, <1>8 DEF UploadInv, Upserted
<1>10. Replacing'
  BY <1>1, <1>3, <1>5 DEF UploadInv, Replacing
<1>11. \A d \in store.guidelines : d.upload # u
  BY <1>5, SeedIsNoUpload DEF UploadInv, Upserted, Kinds, Late
<1>12. GuidesServed'
  BY <1>2, <1>3, <1>6, <1>11 DEF UploadInv, GuidesServed, IsActiveGuide
<1>13. OneGuide'
  <2>1. {r \in rows' : IsActiveGuide(r)} = {r \in rows : IsActiveGuide(r)}
    BY <1>2, <1>3 DEF IsActiveGuide
  <2> QED
    BY <1>1, <2>1 DEF UploadInv, OneGuide, Committing, IsActiveGuide
<1>14. SegmentsFollow'
  <2>1. SegmentsInStore' = SegmentsInStore
    BY <1>1 DEF SegmentsInStore, InStore
  <2>2. last # None => last \in Uploads /\ up'[last] = up[last] /\ up[last].at = "done" /\ DocsOf(last)' = DocsOf(last)
    BY <1>1 DEF UploadInv, StoresTyped, SegmentsFollow
  <2>3. \A version : RowsOf(version)' = RowsOf(version)
    BY <1>2, <1>3 DEF RowsOf
  <2>4. \A v \in SegmentsInStore : v # u /\ up'[v] = up[v] /\ DocsOf(v)' = DocsOf(v)
    BY <1>1 DEF SegmentsInStore, InStore
  <2>5. Uploaded' = Uploaded
    BY DEF Uploaded
  <2>6. \A v \in Uploads : up'[v].at = "delete" => up'[v].kind = "segments"
    BY <1>1 DEF UploadInv, SegmentsFollow
  <2> QED
    BY <2>1, <2>2, <2>3, <2>4, <2>5, <2>6 DEF UploadInv, SegmentsFollow
<1> QED
  BY <1>1, <1>4, <1>7, <1>9, <1>10, <1>12, <1>13, <1>14 DEF UploadInv

\* What a transaction that replaces the active guides leaves of the rows.
Inactive(r) == [r EXCEPT !.active = FALSE]
LEMMA CommittedGuides ==
  ASSUME UploadInv, NEW u \in Uploads, CommitGuide(u)
  PROVE  /\ ActiveRow(u) \in Rows /\ ActiveRow(u) \in rows'
         /\ \A r \in rows' : r = ActiveRow(u) \/
              \E b \in rows : /\ r.upload = b.upload /\ r.kind = b.kind /\ r.version = b.version /\ r.status = b.status
                              /\ r \in Rows
                              /\ r.active => r = b /\ r \notin up[u].old
         /\ \A r \in rows : r.kind = "segments" => r \in rows'
         /\ \A r \in rows : r \notin up[u].old => r \in rows'
         /\ \A r \in up[u].old : Inactive(r) \in rows'
<1>1. /\ up[u].at = "commit" /\ up[u].kind = "guidelines"
      /\ rows' = (rows \ up[u].old) \union {Inactive(g) : g \in up[u].old} \union {ActiveRow(u)}
  BY DEF CommitGuide, Inactive
<1>2. up[u] \in Submitted /\ rows \subseteq Rows
  BY <1>1, SubmittedType DEF UploadInv, StoresTyped
<1>3. ActiveRow(u) \in Rows
  BY <1>2 DEF ActiveRow, Submitted, Rows
<1>4. \A r \in up[u].old : r \in Rows /\ r.kind = "guidelines" /\ r.active /\ (r \in rows \/ Inactive(r) \in rows)
  BY <1>1, <1>2 DEF UploadInv, Replacing, Submitted, Inactive
<1>5. \A r \in Rows : /\ Inactive(r) \in Rows /\ ~Inactive(r).active /\ Inactive(r).upload = r.upload
                      /\ Inactive(r).kind = r.kind /\ Inactive(r).version = r.version /\ Inactive(r).status = r.status
  BY DEF Rows, Inactive
<1>6. \A r \in rows : r.kind = "segments" => r \notin up[u].old
  BY <1>4
<1>7. ASSUME NEW r \in rows', r # ActiveRow(u)
      PROVE  \E b \in rows : /\ r.upload = b.upload /\ r.kind = b.kind /\ r.version = b.version /\ r.status = b.status
                             /\ r \in Rows /\ (r.active => r = b /\ r \notin up[u].old)
  <2>1. CASE r \in rows /\ r \notin up[u].old
    BY <1>2, <2>1
  <2>2. CASE r \in {Inactive(g) : g \in up[u].old}
    <3>1. PICK g \in up[u].old : r = Inactive(g)
      BY <2>2
    <3>2. g \in Rows /\ (g \in rows \/ Inactive(g) \in rows)
      BY <1>4
    <3> QED
      BY <1>5, <3>1, <3>2
  <2> QED
    BY <1>1, <1>7, <2>1, <2>2
<1> QED
  BY <1>1, <1>3, <1>6, <1>7

LEMMA CommitGuideKeeps ==
  ASSUME UploadInv, NEW u \in Uploads, CommitGuide(u)
  PROVE  UploadInv'
<1>1. up[u].at = "commit" /\ up[u].kind = "guidelines" /\ Goes(u, "draft") /\ UNCHANGED <<store, last, met, tidy>>
  BY DEF CommitGuide
<1>2. /\ UpTyped' /\ up'[u].at = "draft"
      /\ \A v \in Uploads : v # u => up'[v] = up[v]
      /\ \A v \in Uploads : up[v].at # "none" =>
           /\ up'[v].at # "none" /\ up'[v].kind = up[v].kind /\ up'[v].version = up[v].version
           /\ DocsOf(v)' = DocsOf(v)
  BY <1>1, GoesMoves DEF UploadInv, Places
<1> DEFINE r1 == ActiveRow(u)
<1>3. /\ r1 \in Rows /\ r1 \in rows'
      /\ \A r \in rows' : r = r1 \/
           \E b \in rows : /\ r.upload = b.upload /\ r.kind = b.kind /\ r.version = b.version /\ r.status = b.status
                           /\ r \in Rows
                           /\ r.active => r = b /\ r \notin up[u].old
      /\ \A r \in rows : r.kind = "segments" => r \in rows'
      /\ \A r \in rows : r \notin up[u].old => r \in rows'
      /\ \A r \in up[u].old : Inactive(r) \in rows'
  BY CommittedGuides
<1>4. /\ r1.upload = u /\ r1.kind = "guidelines" /\ r1.version = up[u].version /\ r1.status = "active" /\ r1.active
  BY <1>1 DEF ActiveRow
<1> HIDE DEF r1
<1>5. rows' \subseteq Rows
  BY <1>3
<1>6. StoresTyped'
  BY <1>1, <1>5 DEF UploadInv, StoresTyped
<1>7. \A v \in Uploads : up[v].at \in Over \/ up'[v].at \in {"begin", "commit", "delete"} =>
        v # u /\ up'[v] = up[v] /\ DocsOf(v)' = DocsOf(v)
  BY <1>1, <1>2 DEF Over
<1>8. \A r \in rows : /\ r.upload \in Uploads /\ r.upload # u /\ up'[r.upload] = up[r.upload]
                      /\ DocsOf(r.upload)' = DocsOf(r.upload)
  BY <1>7 DEF UploadInv, StoresTyped, Rows, Registered
<1>9. Registered'
  <2>1. \A b \in rows : up'[b.upload].at \in Over /\ up'[b.upload].kind = b.kind /\ up'[b.upload].version = b.version
    BY <1>8 DEF UploadInv, Registered
  <2>2. up'[u].at \in Over /\ up'[u].kind = "guidelines" /\ up'[u].version = up[u].version
    BY <1>1, <1>2 DEF Over
  <2> QED
    BY <1>3, <1>4, <2>1, <2>2 DEF Registered
<1>10. Upserted'
  <2>1. \A k \in Kinds : \A d \in store[k] : d.upload # Seed => d.upload \in Uploads
    BY DEF UploadInv, StoresTyped, Docs
  <2>2. \A v \in Uploads : up[v].at \in Late => up[v].at # "none" /\ up'[v].at \in Late
    BY <1>2 DEF Late
  <2> QED
    BY <1>1, <1>2, <1>7, <2>1, <2>2 DEF UploadInv, Upserted
<1>11. Replacing'
  <2>1. ASSUME NEW v \in Uploads, up'[v].at = "commit", NEW r \in up'[v].old
        PROVE  r.kind = up'[v].kind /\ (r.kind = "guidelines" => r.active /\ (r \in rows' \/ Inactive(r) \in rows'))
    <3>1. /\ r \in up[v].old /\ r.kind = up[v].kind /\ up'[v] = up[v]
          /\ r.kind = "guidelines" => r.active /\ (r \in rows \/ Inactive(r) \in rows)
      BY <1>7, <2>1 DEF UploadInv, Replacing, Inactive
    <3>2. r \in Rows
      BY <3>1, <1>7, <2>1, SubmittedType DEF UploadInv, Submitted
    <3>3. ~Inactive(r).active /\ Inactive(r).kind = r.kind
      BY <3>2 DEF Rows, Inactive
    <3>4. Inactive(r).kind = "guidelines" => Inactive(r) \notin up[u].old
      BY <1>1, <3>3 DEF UploadInv, Replacing
    <3> QED
      BY <1>3, <3>1, <3>3, <3>4
  <2> QED
    BY <2>1 DEF Replacing, Inactive
<1>12. GuidesServed'
  <2>1. DocsOf(u)' \subseteq store'.guidelines
    BY <1>1, <1>2 DEF UploadInv, Upserted
  <2>2. \A r \in rows' : r.kind = "guidelines" /\ r.status = "active" => DocsOf(r.upload)' \subseteq store'.guidelines
    BY <1>1, <1>3, <1>4, <1>8, <2>1 DEF UploadInv, GuidesServed
  <2>3. ASSUME NEW r \in rows', r.status = "quarantined"
        PROVE  /\ ~r.active
               /\ \A q \in rows' : q.upload = r.upload => q.status = "quarantined"
               /\ \A d \in store'.guidelines : d.upload # r.upload
    <3>1. PICK b \in rows : r.upload = b.upload /\ r.status = b.status /\ (r.active => r = b)
      BY <1>3, <1>4, <2>3
    <3>2. /\ ~b.active /\ \A q \in rows : q.upload = b.upload => q.status = "quarantined"
          /\ \A d \in store.guidelines : d.upload # b.upload
      BY <2>3, <3>1 DEF UploadInv, GuidesServed
    <3> QED
      BY <1>1, <1>3, <1>4, <1>8, <3>1, <3>2
  <2>4. r1 \in rows' /\ r1.kind = "guidelines" /\ r1.active
    BY <1>3, <1>4
  <2> QED
    BY <2>2, <2>3, <2>4 DEF GuidesServed, IsActiveGuide
<1>13. OneGuide'
  <2>1. u \in Committing("guidelines")
    BY <1>1 DEF Committing
  <2>2. \A v \in Committing("guidelines")' : v \in Committing("guidelines") /\ v # u
    BY <1>7 DEF Committing
  <2>3. ~met => Committing("guidelines")' = {}
    BY <2>1, <2>2 DEF UploadInv, OneGuide
  <2>4. ~met => \A r \in rows' : r.kind = "guidelines" /\ r.active => r = r1
    BY <1>3, <2>1 DEF UploadInv, OneGuide, IsActiveGuide
  <2> QED
    BY <1>1, <2>3, <2>4 DEF OneGuide, IsActiveGuide
<1>14. SegmentsFollow'
  <2>1. SegmentsInStore' = SegmentsInStore
    BY <1>1, <1>2 DEF SegmentsInStore, InStore
  <2>2. last # None => last \in Uploads /\ up'[last] = up[last] /\ up[last].at = "done" /\ DocsOf(last)' = DocsOf(last)
    BY <1>1, <1>2 DEF UploadInv, StoresTyped, SegmentsFollow
  <2>3. {r \in rows' : r.kind = "segments"} = {r \in rows : r.kind = "segments"}
    <3>1. \A r \in rows' : r.kind = "segments" => r \in rows
      <4> SUFFICES ASSUME NEW r \in rows', r.kind = "segments"
                   PROVE  r \in rows
        OBVIOUS
      <4>1. r \in rows \/ r \in {Inactive(g) : g \in up[u].old} \/ r = r1
        BY DEF CommitGuide, Inactive, r1
      <4>2. \A g \in up[u].old : g \in Rows /\ g.kind = "guidelines"
        BY <1>1, SubmittedType DEF UploadInv, Replacing, Submitted
      <4>3. \A g \in up[u].old : Inactive(g).kind = "guidelines"
        BY <4>2 DEF Rows, Inactive
      <4> QED
        BY <1>4, <4>1, <4>3
    <3> QED
      BY <1>3, <3>1
  <2>4. \A version : RowsOf(version)' = RowsOf(version)
    BY <2>3 DEF RowsOf
  <2>5. \A v \in SegmentsInStore : v # u /\ up'[v] = up[v] /\ DocsOf(v)' = DocsOf(v)
    BY <1>1, <1>2 DEF SegmentsInStore, InStore
  <2>6. Uploaded' = Uploaded
    BY <1>1 DEF Uploaded
  <2>7. \A v \in Uploads : up'[v].at = "delete" => up'[v].kind = "segments"
    BY <1>7 DEF UploadInv, SegmentsFollow
  <2> QED
    BY <1>1, <2>1, <2>2, <2>4, <2>5, <2>6, <2>7 DEF UploadInv, SegmentsFollow
<1> QED
  BY <1>2, <1>6, <1>9, <1>10, <1>11, <1>12, <1>13, <1>14 DEF UploadInv

LEMMA CommitSegmentsKeeps ==
  ASSUME UploadInv, NEW u \in Uploads, CommitSegments(u)
  PROVE  UploadInv'
<1>1. /\ up[u].at = "commit" /\ up[u].kind = "segments" /\ Goes(u, "done") /\ last' = u
      /\ UNCHANGED <<store, met, tidy>> /\ rows' = (rows \ up[u].old) \union {ActiveRow(u)}
  BY DEF CommitSegments
<1>2. /\ UpTyped' /\ up'[u].at = "done"
      /\ \A v \in Uploads : v # u => up'[v] = up[v]
      /\ \A v \in Uploads : up[v].at # "none" =>
           /\ up'[v].at # "none" /\ up'[v].kind = up[v].kind /\ up'[v].version = up[v].version
           /\ DocsOf(v)' = DocsOf(v)
  BY <1>1, GoesMoves DEF UploadInv, Places
<1> DEFINE r1 == ActiveRow(u)
<1>3. up[u] \in Submitted
  BY <1>1, SubmittedType DEF UploadInv
<1>4. /\ r1 \in Rows /\ rows' = (rows \ up[u].old) \union {r1}
      /\ r1.upload = u /\ r1.kind = "segments" /\ r1.version = up[u].version /\ r1.status = "active"
  BY <1>1, <1>3 DEF ActiveRow, Rows, Submitted
<1> HIDE DEF r1
<1>5. StoresTyped'
  BY <1>1, <1>4 DEF UploadInv, StoresTyped
<1>6. \A v \in Uploads : up[v].at \in Over \/ up'[v].at \in {"begin", "commit", "delete"} =>
        v # u /\ up'[v] = up[v] /\ DocsOf(v)' = DocsOf(v)
  BY <1>1, <1>2 DEF Over
<1>7. \A r \in rows : /\ r.upload \in Uploads /\ r.upload # u /\ up'[r.upload] = up[r.upload]
                      /\ DocsOf(r.upload)' = DocsOf(r.upload)
  BY <1>6 DEF UploadInv, StoresTyped, Rows, Registered
<1>8. \A r \in up[u].old : r.kind = "segments"
  BY <1>1 DEF UploadInv, Replacing
<1>9. Registered'
  BY <1>1, <1>2, <1>4, <1>7 DEF UploadInv, Registered, Over
<1>10. Upserted'
  <2>1. \A k \in Kinds : \A d \in store[k] : d.upload # Seed => d.upload \in Uploads
    BY DEF UploadInv, StoresTyped, Docs
  <2>2. \A v \in Uploads : up[v].at \in Late => up[v].at # "none" /\ up'[v].at \in Late
    BY <1>2 DEF Late
  <2> QED
    BY <1>1, <1>2, <1>6, <2>1, <2>2 DEF UploadInv, Upserted
<1>11. Replacing'
  <2>1. ASSUME NEW v \in Uploads, up'[v].at = "commit", NEW r \in up'[v].old
        PROVE  r.kind = up'[v].kind /\ (r.kind = "guidelines" => r.active /\ (r \in rows' \/ Inactive(r) \in rows'))
    <3>1. /\ r \in up[v].old /\ r.kind = up[v].kind /\ up'[v] = up[v]
          /\ r.kind = "guidelines" => r.active /\ (r \in rows \/ Inactive(r) \in rows)
      BY <1>6, <2>1 DEF UploadInv, Replacing, Inactive
    <3>2. r \in Rows
      BY <3>1, <1>6, <2>1, SubmittedType DEF UploadInv, Submitted
    <3>3. Inactive(r).kind = r.kind
      BY <3>2 DEF Rows, Inactive
    <3> QED
      BY <1>4, <1>8, <3>1, <3>3
  <2> QED
    BY <2>1 DEF Replacing, Inactive
<1>12. \A r : r.kind = "guidelines" => (r \in rows' <=> r \in rows)
  BY <1>4, <1>8
<1>13. GuidesServed'
  <2>1. \A r \in rows' : r.kind = "guidelines" /\ r.status = "active" => DocsOf(r.upload)' \subseteq store'.guidelines
    BY <1>1, <1>7, <1>12 DEF UploadInv, GuidesServed
  <2>2. ASSUME NEW r \in rows', r.status = "quarantined"
        PROVE  /\ ~r.active
               /\ \A q \in rows' : q.upload = r.upload => q.status = "quarantined"
               /\ \A d \in store'.guidelines : d.upload # r.upload
    <3>1. r \in rows /\ r.upload # u
      BY <1>4, <1>7, <2>2
    <3> QED
      BY <1>1, <1>4, <2>2, <3>1 DEF UploadInv, GuidesServed
  <2>3. (\E r \in rows' : r.kind = "guidelines" /\ r.status = "active") => \E r \in rows' : r.kind = "guidelines" /\ r.active
    BY <1>12 DEF UploadInv, GuidesServed, IsActiveGuide
  <2> QED
    BY <2>1, <2>2, <2>3 DEF GuidesServed, IsActiveGuide
<1>14. OneGuide'
  <2>1. {r \in rows' : r.kind = "guidelines" /\ r.active} = {r \in rows : r.kind = "guidelines" /\ r.active}
    BY <1>12
  <2>2. \A v \in Committing("guidelines")' : v \in Committing("guidelines") /\ up'[v] = up[v]
    BY <1>6 DEF Committing
  <2> QED
    BY <1>1, <1>12, <2>1, <2>2 DEF UploadInv, OneGuide, IsActiveGuide
<1>15. SegmentsFollow'
  <2>1. u \in SegmentsInStore /\ SegmentsInStore' = SegmentsInStore \ {u}
    BY <1>1, <1>2 DEF SegmentsInStore, InStore
  <2>2. tidy => /\ \A v \in SegmentsInStore : v = u
                /\ Uploaded = DocsOf(u) /\ up[u].old = RowsOf(up[u].version)
    BY <1>1, <2>1 DEF UploadInv, SegmentsFollow
  <2>3. tidy => SegmentsInStore' = {}
    BY <2>1, <2>2
  <2>4. tidy => {s \in rows' : s.kind = "segments" /\ s.version = up[u].version} = {r1}
    BY <1>4, <2>2 DEF RowsOf
  <2>5. tidy => {s.upload : s \in RowsOf(up[last].version)'} = {u}
    BY <1>1, <1>2, <1>4, <2>4 DEF RowsOf
  <2>6. Uploaded' = Uploaded /\ DocsOf(u)' = DocsOf(u)
    BY <1>1, <1>2 DEF Uploaded
  <2>7. \A v \in Uploads : up'[v].at = "delete" => up'[v].kind = "segments"
    BY <1>6 DEF UploadInv, SegmentsFollow
  <2> QED
    BY <1>1, <1>2, <2>2, <2>3, <2>5, <2>6, <2>7 DEF SegmentsFollow
<1> QED
  BY <1>2, <1>5, <1>9, <1>10, <1>11, <1>13, <1>14, <1>15 DEF UploadInv

LEMMA UploadsKeep ==
  ASSUME UploadInv, Next
  PROVE  UploadInv'
<1>1. ASSUME UNCHANGED uploading
      PROVE  UploadInv'
  <2>1. UNCHANGED <<up, store, rows, last, tidy, met>>
    BY <1>1 DEF uploading
  <2>2. UpTyped' /\ StoresTyped' /\ Registered' /\ Replacing'
    BY <2>1 DEF UploadInv, UpTyped, StoresTyped, Registered, Replacing
  <2>3. Upserted' /\ GuidesServed'
    BY <2>1 DEF UploadInv, Upserted, GuidesServed, DocsOf, IsActiveGuide
  <2>4. OneGuide'
    BY <2>1 DEF UploadInv, OneGuide, Committing, IsActiveGuide
  <2>5. SegmentsInStore' = SegmentsInStore /\ Uploaded' = Uploaded /\ \A v : DocsOf(v)' = DocsOf(v) /\ RowsOf(v)' = RowsOf(v)
    BY <2>1 DEF SegmentsInStore, InStore, Uploaded, DocsOf, RowsOf
  <2>6. SegmentsFollow'
    BY <2>1, <2>5 DEF UploadInv, SegmentsFollow
  <2> QED
    BY <2>2, <2>3, <2>4, <2>6 DEF UploadInv
<1>2. \A u \in Uploads : tidy \in BOOLEAN /\ (up[u].at \notin {"upsert", "begin", "commit"} => u \notin SegmentsInStore)
  BY DEF UploadInv, StoresTyped, SegmentsInStore, InStore
<1>3. ASSUME NEW u \in Uploads, JudgeGuide(u)
      PROVE  UploadInv'
  <2>1. CASE Goes(u, "upsert") /\ UNCHANGED rows
    BY <1>2, <1>3, <2>1, QuietKeeps DEF JudgeGuide, Places
  <2>2. CASE ~(Goes(u, "upsert") /\ UNCHANGED rows)
    BY <1>3, <2>2, QuarantineKeeps DEF JudgeGuide
  <2> QED
    BY <2>1, <2>2
<1>4. ASSUME NEW u \in Uploads, JudgeSegments(u)
      PROVE  UploadInv'
  BY <1>2, <1>4, QuietKeeps DEF JudgeSegments, Places
<1>5. ASSUME NEW u \in Uploads, OpenDraft(u)
      PROVE  UploadInv'
  BY <1>2, <1>5, QuietKeeps DEF OpenDraft, Places
<1>6. ASSUME NEW u \in Uploads, Fail(u)
      PROVE  UploadInv'
  <2>1. tidy' \in BOOLEAN
    BY <1>6 DEF Fail
  <2>2. tidy' => tidy /\ u \notin SegmentsInStore
    BY <1>6 DEF Fail
  <2> QED
    BY <1>6, <2>1, <2>2, QuietKeeps DEF Fail, Places
<1>7. ASSUME \/ \E r \in Readers, p \in Processes, k \in Kinds : AskStore(r, p, k)
             \/ \E r \in Readers : ReadStore(r) \/ UseIndex(r)
             \/ \E p \in Processes : Restart(p)
             \/ Backfill
             \/ \E set \in Sets : BeginActivate(set) \/ EndActivate(set) \/ BeginDelete(set) \/ EndDelete(set)
      PROVE  UploadInv'
  <2>1. UNCHANGED uploading
    BY <1>7 DEF AskStore, ReadStore, UseIndex, Restart, Backfill, BeginActivate, EndActivate, BeginDelete, EndDelete
  <2> QED
    BY <1>1, <2>1
<1> QED
  BY <1>3, <1>4, <1>5, <1>6, <1>7, SubmitKeeps, DeleteOldKeeps, UpsertKeeps, BeginKeeps, CommitGuideKeeps,
     CommitSegmentsKeeps, SeedStoreKeeps DEF Next

-----------------------------------------------------------------------------
(* The sets of examples.                                                     *)

\* The API lists uploads that were submitted, so that every version has one.
LEMMA KnownVersions ==
  ASSUME UploadInv
  PROVE  Known \subseteq Versions
<1>1. \A u \in Uploads : up[u].at # "none" => up[u].version \in Versions
  BY SubmittedType DEF UploadInv, Submitted
<1>2. \A u \in Uploads : up[u].at \in Late => up[u].at # "none"
  BY DEF Late
<1>3. \A r \in rows : r.upload \in Uploads /\ up[r.upload].at \in Late
  BY DEF UploadInv, StoresTyped, Rows, Registered, Over, Late
<1>4. \A d \in store.guidelines : d.upload # Seed => d.upload \in Uploads /\ up[d.upload].at \in Late
  BY DEF UploadInv, StoresTyped, Docs, Kinds, Upserted
<1>5. \A u \in ListedGuides : u = Seed \/ (u \in Uploads /\ up[u].at \in Late)
  BY <1>3, <1>4 DEF ListedGuides, ActiveGuides, Guides, GuidesInStore
<1> QED
  BY <1>1, <1>2, <1>5, SeedHasVersion DEF Known, VersionOf

Statuses == {"draft", "active", "archived"}
LEMMA SetTypes ==
  /\ NoSet.status # "active" /\ NoSet \notin [status : Statuses, version : Versions]
  /\ \A v \in Versions : Draft(v) \in [status : Statuses, version : Versions] /\ Draft(v).status # "active"
  BY NoVersionIsNone DEF NoSet, None, Draft, Statuses

\* Drafts take the place of sets that do not exist.
LEMMA DraftsKeep ==
  ASSUME GoldenInv, UNCHANGED <<change, deleting, first, raced, clients>>,
         sets' \in [Sets -> {NoSet} \union [status : Statuses, version : Versions]],
         \A set \in Sets : \/ sets'[set] = sets[set]
                           \/ sets[set] = NoSet /\ \E v \in Versions : sets'[set] = Draft(v)
  PROVE  GoldenInv'
<1>1. Active' = Active
  BY SetTypes DEF Active
<1>2. \A set \in Sets : sets[set] # NoSet => sets'[set] # NoSet
  OBVIOUS
<1> QED
  BY <1>1, <1>2 DEF GoldenInv, Statuses

LEMMA OpenDraftKeeps ==
  ASSUME UploadInv, GoldenInv, NEW u \in Uploads, OpenDraft(u)
  PROVE  GoldenInv'
<1>1. up[u].version \in Versions
  BY SubmittedType DEF OpenDraft, UploadInv, Submitted
<1>2. PICK set \in Sets : sets[set] = NoSet /\ sets' = [sets EXCEPT ![set] = Draft(up[u].version)]
  BY DEF OpenDraft, Unused
<1>3. sets' \in [Sets -> {NoSet} \union [status : Statuses, version : Versions]]
  BY <1>1, <1>2, SetTypes DEF GoldenInv, Statuses
<1>4. \A s \in Sets : sets'[s] = sets[s] \/ (sets[s] = NoSet /\ sets'[s] = Draft(up[u].version))
  BY <1>2 DEF GoldenInv
<1> QED
  BY <1>1, <1>3, <1>4, DraftsKeep DEF OpenDraft

LEMMA BackfillKeeps ==
  ASSUME UploadInv, GoldenInv, Backfill
  PROVE  GoldenInv'
<1> DEFINE missing == Known \ {sets[set].version : set \in Sets}
<1>1. missing \subseteq Versions
  BY KnownVersions
<1>2. PICK opened \in [missing -> {set \in Sets : Unused(set)}] :
        sets' = [set \in Sets |-> IF \E v \in missing : opened[v] = set
                                   THEN Draft(CHOOSE v \in missing : opened[v] = set) ELSE sets[set]]
  BY DEF Backfill
<1>3. UNCHANGED <<change, deleting, first, raced, clients>>
  BY DEF Backfill
<1> HIDE DEF missing
<1>4. ASSUME NEW set \in Sets
      PROVE  sets'[set] = sets[set] \/ (sets[set] = NoSet /\ \E v \in Versions : sets'[set] = Draft(v))
  <2>1. CASE \E v \in missing : opened[v] = set
    <3>1. PICK w \in missing : w = CHOOSE v \in missing : opened[v] = set
      BY <2>1
    <3>2. sets'[set] = Draft(w)
      BY <1>2, <2>1, <3>1
    <3>3. sets[set] = NoSet
      BY <2>1 DEF Unused
    <3> QED
      BY <1>1, <3>2, <3>3
  <2>2. CASE ~\E v \in missing : opened[v] = set
    BY <1>2, <2>2
  <2> QED
    BY <2>1, <2>2
<1>5. sets' \in [Sets -> {NoSet} \union [status : Statuses, version : Versions]]
  <2>1. DOMAIN sets' = Sets /\ sets' = [set \in Sets |-> sets'[set]]
    BY <1>2
  <2>2. \A set \in Sets : sets'[set] \in {NoSet} \union [status : Statuses, version : Versions]
    BY <1>4, SetTypes DEF GoldenInv, Statuses
  <2> QED
    BY <2>1, <2>2
<1> QED
  BY <1>3, <1>4, <1>5, DraftsKeep

LEMMA BeginActivateKeeps ==
  ASSUME GoldenInv, NEW set \in Sets, BeginActivate(set)
  PROVE  GoldenInv'
<1> DEFINE c == [at |-> "activate", others |-> Active \ {set}]
<1>1. change' = [change EXCEPT ![set] = c] /\ UNCHANGED <<sets, deleting, first, raced, clients>>
  BY DEF BeginActivate
<1>2. c \in [at : {"idle", "activate"}, others : SUBSET Sets] /\ c.others = Active \ {set}
  BY DEF Active
<1> HIDE DEF c
<1>3. Active' = Active /\ \A t \in Active : sets[t] # NoSet
  BY <1>1, SetTypes DEF Active
<1> QED
  BY <1>1, <1>2, <1>3 DEF GoldenInv

LEMMA BeginDeleteKeeps ==
  ASSUME GoldenInv, NEW set \in Sets, BeginDelete(set)
  PROVE  GoldenInv'
<1>1. deleting' = deleting \union {set} /\ UNCHANGED <<sets, change, first, raced, clients>>
  BY DEF BeginDelete
<1>2. Active' = Active
  BY <1>1 DEF Active
<1> QED
  BY <1>1, <1>2 DEF GoldenInv

LEMMA IdleType == Idle \in [at : {"idle", "activate"}, others : SUBSET Sets] /\ Idle.others = {}
  BY DEF Idle

LEMMA EndActivateKeeps ==
  ASSUME GoldenInv, NEW set \in Sets, EndActivate(set)
  PROVE  GoldenInv'
<1>1. change' = [change EXCEPT ![set] = Idle] /\ UNCHANGED <<deleting, clients>>
  BY DEF EndActivate
<1>2. /\ change' \in [Sets -> [at : {"idle", "activate"}, others : SUBSET Sets]]
      /\ \A s \in Sets : change'[s].others \subseteq change[s].others
  BY <1>1, IdleType DEF GoldenInv
<1>5. deleting' \subseteq Sets /\ clients' \in Clients
  BY <1>1 DEF GoldenInv
<1>3. CASE ~(Active \subseteq {set} \union change[set].others)
  <2>1. UNCHANGED <<sets, first, raced>>
    BY <1>3 DEF EndActivate
  <2>2. Active' = Active
    BY <2>1 DEF Active
  <2> QED
    BY <1>2, <1>5, <2>1, <2>2 DEF GoldenInv
<1>4. CASE Active \subseteq {set} \union change[set].others
  <2>1. sets' = Activated(set) /\ first' = TRUE /\ raced' = (raced \/ sets[set] = NoSet)
    BY <1>4 DEF EndActivate
  <2>2. raced' \in BOOLEAN /\ (~raced' => sets[set] # NoSet)
    BY <2>1
  <2>3. change[set].others \subseteq Sets /\ set \notin change[set].others
        /\ \A t \in change[set].others : sets[t] \in [status : Statuses, version : Versions]
    BY DEF GoldenInv, Statuses
  <2>4. ASSUME NEW t \in Sets
        PROVE  /\ t \in change[set].others => sets'[t] \in [status : Statuses, version : Versions] /\ sets'[t].status = "archived"
               /\ t = set /\ sets[t] # NoSet => sets'[t] \in [status : Statuses, version : Versions] /\ sets'[t].status = "active"
               /\ t \notin change[set].others /\ (t # set \/ sets[t] = NoSet) => sets'[t] = sets[t]
    <3>1. CASE t \in change[set].others
      BY <2>1, <2>3, <3>1 DEF Activated, Statuses
    <3>2. CASE t = set /\ sets[t] # NoSet
      <4>1. sets[t] \in [status : Statuses, version : Versions]
        BY <3>2 DEF GoldenInv, Statuses
      <4> QED
        BY <2>1, <2>3, <3>2, <4>1 DEF Activated, Statuses
    <3>3. CASE t \notin change[set].others /\ (t # set \/ sets[t] = NoSet)
      BY <2>1, <3>3 DEF Activated
    <3> QED
      BY <3>1, <3>2, <3>3
  <2>5. sets' \in [Sets -> {NoSet} \union [status : Statuses, version : Versions]]
    <3>1. sets' = [t \in Sets |-> sets'[t]]
      BY <2>1 DEF Activated
    <3>2. \A t \in Sets : sets'[t] \in {NoSet} \union [status : Statuses, version : Versions]
      BY <2>4 DEF GoldenInv, Statuses
    <3> QED
      BY <3>1, <3>2
  <2>6. \A t \in Sets : sets[t] # NoSet => sets'[t] # NoSet
    BY <2>4, SetTypes
  <2>7. \A t \in Active' : t = set
    BY <1>4, <2>4 DEF Active
  <2>8. sets[set] # NoSet => set \in Active'
    BY <2>4 DEF Active
  <2> QED
    BY <1>2, <1>5, <2>1, <2>2, <2>5, <2>6, <2>7, <2>8 DEF GoldenInv, Statuses
<1> QED
  BY <1>3, <1>4

LEMMA EndDeleteKeeps ==
  ASSUME GoldenInv, NEW set \in Sets, EndDelete(set)
  PROVE  GoldenInv'
<1>1. /\ deleting' = deleting \ {set} /\ sets' = [sets EXCEPT ![set] = NoSet]
      /\ raced' = (raced \/ sets[set].status = "active") /\ UNCHANGED <<change, first, clients>>
  BY DEF EndDelete
<1>2. deleting' \subseteq Sets /\ clients' \in Clients
  BY <1>1 DEF GoldenInv
<1>3. raced' \in BOOLEAN /\ (~raced' => ~raced /\ set \notin Active)
  BY <1>1 DEF Active
<1>4. \A s \in Sets : set \notin change[s].others
  BY DEF EndDelete, Locked
<1>5. sets' \in [Sets -> {NoSet} \union [status : {"draft", "active", "archived"}, version : Versions]]
      /\ \A t \in Sets : t # set => sets'[t] = sets[t]
  BY <1>1 DEF GoldenInv
<1>6. Active' = Active \ {set}
  BY <1>1, SetTypes DEF Active, GoldenInv
<1> QED
  BY <1>1, <1>2, <1>3, <1>4, <1>5, <1>6 DEF GoldenInv

LEMMA SetsKeep ==
  ASSUME UploadInv, GoldenInv, Next
  PROVE  GoldenInv'
<1>1. ASSUME UNCHANGED golden
      PROVE  GoldenInv'
  <2>1. UNCHANGED <<sets, change, deleting, first, raced, clients>>
    BY <1>1 DEF golden
  <2>2. Active' = Active
    BY <2>1 DEF Active
  <2> QED
    BY <2>1, <2>2 DEF GoldenInv
<1>2. ASSUME NEW u \in Uploads,
             \/ \E k \in Kinds, v \in Versions, n \in 1 .. MaxChunks : Submit(u, k, v, n)
             \/ JudgeGuide(u) \/ JudgeSegments(u) \/ DeleteOld(u) \/ Upsert(u) \/ Begin(u)
             \/ CommitGuide(u) \/ CommitSegments(u) \/ Fail(u)
      PROVE  GoldenInv'
  <2>1. UNCHANGED golden
    BY <1>2 DEF Submit, JudgeGuide, JudgeSegments, DeleteOld, Upsert, Begin, CommitGuide, CommitSegments, Fail
  <2> QED
    BY <1>1, <2>1
<1>3. ASSUME \/ SeedStore
             \/ \E r \in Readers, p \in Processes, k \in Kinds : AskStore(r, p, k)
             \/ \E r \in Readers : ReadStore(r) \/ UseIndex(r)
             \/ \E p \in Processes : Restart(p)
      PROVE  GoldenInv'
  <2>1. UNCHANGED golden
    BY <1>3 DEF SeedStore, AskStore, ReadStore, UseIndex, Restart
  <2> QED
    BY <1>1, <2>1
<1> QED
  BY <1>2, <1>3, OpenDraftKeeps, BackfillKeeps, BeginActivateKeeps, EndActivateKeeps, BeginDeleteKeeps,
     EndDeleteKeeps DEF Next

-----------------------------------------------------------------------------
(* The indexes.                                                              *)

LEMMA DocsFinite ==
  ASSUME UpTyped, NEW u \in Uploads, up[u].at # "none"
  PROVE  IsFiniteSet(DocsOf(u))
<1> DEFINE f == [c \in 1 .. up[u].chunks |-> [upload |-> u, chunk |-> c]]
<1>1. up[u].chunks \in Int
  BY SubmittedType, BoundsAreNumbers DEF Submitted
<1>2. IsFiniteSet(1 .. up[u].chunks)
  BY <1>1, FS_Interval
<1>3. f \in Surjection(1 .. up[u].chunks, DocsOf(u))
  BY DEF Surjection, DocsOf
<1> QED
  BY <1>2, <1>3, FS_Surjection

\* No guide is ever removed from the store.
LEMMA GuidesGrow ==
  ASSUME UploadInv, IsFiniteSet(store.guidelines), Next
  PROVE  store.guidelines \subseteq store'.guidelines /\ IsFiniteSet(store'.guidelines)
<1>1. CASE store' = store
  BY <1>1
<1>2. ASSUME NEW u \in Uploads, DeleteOld(u)
      PROVE  store'.guidelines = store.guidelines
  BY <1>2 DEF DeleteOld, UploadInv, StoresTyped, Kinds
<1>3. ASSUME NEW u \in Uploads, Upsert(u)
      PROVE  store'.guidelines = store.guidelines \/
               (store'.guidelines = store.guidelines \union DocsOf(u) /\ up[u].at # "none")
  BY <1>3 DEF Upsert, UploadInv, StoresTyped, Kinds
<1>4. ASSUME NEW u \in Uploads, Upsert(u)
      PROVE  store.guidelines \subseteq store'.guidelines /\ IsFiniteSet(store'.guidelines)
  <2>1. CASE store'.guidelines = store.guidelines
    BY <2>1
  <2>2. CASE store'.guidelines = store.guidelines \union DocsOf(u) /\ up[u].at # "none"
    <3>1. IsFiniteSet(DocsOf(u))
      BY <2>2, DocsFinite DEF UploadInv
    <3> QED
      BY <2>2, <3>1, FS_Union
  <2> QED
    BY <1>3, <1>4, <2>1, <2>2
<1>5. ASSUME SeedStore
      PROVE  store'.guidelines = store.guidelines \union {[upload |-> Seed, chunk |-> 1]}
  BY <1>5 DEF SeedStore, Kinds
<1>6. ASSUME SeedStore
      PROVE  store.guidelines \subseteq store'.guidelines /\ IsFiniteSet(store'.guidelines)
  BY <1>5, <1>6, FS_AddElement
<1>7. ASSUME NEW u \in Uploads,
             \/ \E k \in Kinds, v \in Versions, n \in 1 .. MaxChunks : Submit(u, k, v, n)
             \/ JudgeGuide(u) \/ JudgeSegments(u) \/ Begin(u)
             \/ CommitGuide(u) \/ CommitSegments(u) \/ OpenDraft(u) \/ Fail(u)
      PROVE  store' = store
  BY <1>7 DEF Submit, JudgeGuide, JudgeSegments, Begin, CommitGuide, CommitSegments, OpenDraft, Fail
<1>8. ASSUME \/ \E r \in Readers, p \in Processes, k \in Kinds : AskStore(r, p, k)
             \/ \E r \in Readers : ReadStore(r) \/ UseIndex(r)
             \/ \E p \in Processes : Restart(p)
             \/ Backfill
             \/ \E set \in Sets : BeginActivate(set) \/ EndActivate(set) \/ BeginDelete(set) \/ EndDelete(set)
      PROVE  store' = store
  BY <1>8 DEF AskStore, ReadStore, UseIndex, Restart, Backfill, BeginActivate, EndActivate, BeginDelete, EndDelete, uploading
<1> QED
  BY <1>1, <1>2, <1>4, <1>6, <1>7, <1>8 DEF Next

\* Of two stages of a finite store that have as many documents, each is the other.
LEMMA CountTells ==
  ASSUME NEW a, NEW b, IsFiniteSet(a), IsFiniteSet(b), Nested(a, b), SameCount(a, b)
  PROVE  a = b
  BY FS_Subset DEF Nested, SameCount

LEMMA AskKeeps ==
  ASSUME IndexInv, NEW r \in Readers, NEW p \in Processes, NEW kind \in Kinds, AskStore(r, p, kind)
  PROVE  IndexInv' /\ mem' = mem
<1> DEFINE x == [at |-> "asked", process |-> p, kind |-> kind, docs |-> {}]
<1>1. reader' = [reader EXCEPT ![r] = x] /\ UNCHANGED <<disk, mem, store>>
  BY DEF AskStore, uploading
<1>2. x \in [at : {"asked", "read"}, process : Processes, kind : Kinds, docs : SUBSET Docs] /\ x.at = "asked"
  OBVIOUS
<1> HIDE DEF x
<1>3. IndexTypes' /\ \A q \in HasRead' : q \in HasRead /\ reader'[q] = reader[q]
  BY <1>1, <1>2 DEF IndexInv, IndexTypes, HasRead
<1> QED
  BY <1>1, <1>3 DEF IndexInv

LEMMA ReadKeeps ==
  ASSUME UploadInv, IndexInv, NEW r \in Readers, ReadStore(r)
  PROVE  IndexInv' /\ mem' = mem
<1>1. UNCHANGED <<disk, mem, store>> /\ reader[r].at = "asked"
  BY DEF ReadStore, uploading
<1>2. CASE reader' = [reader EXCEPT ![r] = Returned]
  <2>1. Returned.at = "done"
    BY DEF Returned
  <2>2. IndexTypes' /\ \A q \in HasRead' : q \in HasRead /\ reader'[q] = reader[q]
    BY <1>1, <1>2, <2>1 DEF IndexInv, IndexTypes, HasRead
  <2> QED
    BY <1>1, <2>2 DEF IndexInv
<1>3. CASE reader' = [reader EXCEPT ![r].at = "read", ![r].docs = store[reader[r].kind]]
  <2> DEFINE x == [reader[r] EXCEPT !.at = "read", !.docs = store[reader[r].kind]]
  <2>1. reader' = [reader EXCEPT ![r] = x]
    BY <1>3
  <2>2. reader[r] \in [at : {"asked", "read"}, process : Processes, kind : Kinds, docs : SUBSET Docs]
    BY <1>1 DEF IndexInv, IndexTypes, Away, Returned
  <2>3. store[reader[r].kind] \subseteq Docs
    BY <2>2 DEF UploadInv, StoresTyped
  <2>4. /\ x \in [at : {"asked", "read"}, process : Processes, kind : Kinds, docs : SUBSET Docs]
        /\ x.kind = "guidelines" => x.docs = store.guidelines
    BY <2>2, <2>3
  <2> HIDE DEF x
  <2>5. IndexTypes'
    BY <1>1, <2>1, <2>4 DEF IndexInv, IndexTypes
  <2>6. \A q \in HasRead' : reader'[q].docs = store.guidelines \/ (q \in HasRead /\ reader'[q] = reader[q])
    BY <2>1, <2>4 DEF IndexInv, IndexTypes, HasRead
  <2> QED
    BY <1>1, <2>5, <2>6 DEF IndexInv, Nested
<1> QED
  BY <1>2, <1>3 DEF ReadStore

\* An index of the guides is put to use as it was read.
IndexStep ==
  \A p \in Processes :
    LET index == mem'[p].guidelines
    IN index # mem[p].guidelines /\ index # {} =>
         /\ index \subseteq store.guidelines
         /\ \E r \in Readers :
              /\ reader[r].at = "read" /\ reader[r].process = p /\ reader[r].kind = "guidelines"
              /\ index = reader[r].docs

LEMMA UseKeeps ==
  ASSUME IndexInv, NEW r \in Readers, UseIndex(r)
  PROVE  IndexInv' /\ IndexStep
<1> DEFINE p == reader[r].process
           kind == reader[r].kind
           index == IndexFor(kind, reader[r].docs)
<1>1. /\ reader[r].at = "read" /\ mem' = [mem EXCEPT ![p][kind] = index] /\ store' = store
      /\ UNCHANGED disk \/ \E left \in {index, {}} : disk' = [disk EXCEPT ![kind] = left]
      /\ reader' = [reader EXCEPT ![r] = Returned]
  BY DEF UseIndex, uploading
<1>2. p \in Processes /\ kind \in Kinds /\ reader[r].docs \subseteq Docs
  BY <1>1 DEF IndexInv, IndexTypes, Away, Returned
<1>3. index = reader[r].docs \/ (index = disk[kind] /\ SameCount(disk[kind], reader[r].docs))
  BY DEF IndexFor
<1>4. kind = "guidelines" => r \in HasRead
  BY <1>1 DEF HasRead
<1>5. kind = "guidelines" => index = reader[r].docs
  <2>1. CASE kind = "guidelines" /\ SameCount(disk.guidelines, reader[r].docs)
    <3>1. IsFiniteSet(disk.guidelines) /\ IsFiniteSet(reader[r].docs) /\ Nested(disk.guidelines, reader[r].docs)
      BY <1>4, <2>1, FS_Subset DEF IndexInv
    <3>2. disk.guidelines = reader[r].docs
      BY <2>1, <3>1, CountTells
    <3> QED
      BY <1>3, <2>1, <3>2
  <2> QED
    BY <1>3, <2>1
<1>6. index \subseteq Docs
  BY <1>2, <1>3 DEF IndexInv, IndexTypes
<1>7. kind = "guidelines" =>
        index \subseteq store.guidelines /\ \A q \in HasRead : Nested(index, reader[q].docs)
  BY <1>4, <1>5 DEF IndexInv
<1> HIDE DEF index, p, kind
<1>8. disk' \in [Kinds -> SUBSET Docs] /\ (disk'.guidelines \in {disk.guidelines, {}}
        \/ (kind = "guidelines" /\ disk'.guidelines = index))
  BY <1>1, <1>2, <1>6 DEF IndexInv, IndexTypes, Kinds
<1>9. /\ disk'.guidelines \subseteq store.guidelines
      /\ \A q \in HasRead : Nested(disk'.guidelines, reader[q].docs)
  BY <1>7, <1>8 DEF IndexInv, Nested
<1>10. mem[p] \in [Kinds -> SUBSET Docs] /\ mem' = [mem EXCEPT ![p] = [mem[p] EXCEPT ![kind] = index]]
  BY <1>1, <1>2 DEF IndexInv, IndexTypes
<1>11. [mem[p] EXCEPT ![kind] = index] \in [Kinds -> SUBSET Docs]
  BY <1>6, <1>10
<1>12. mem' \in [Processes -> [Kinds -> SUBSET Docs]]
  BY <1>10, <1>11 DEF IndexInv, IndexTypes
<1>13. Returned.at = "done"
  BY DEF Returned
<1>14. IndexTypes'
  BY <1>1, <1>8, <1>12 DEF IndexInv, IndexTypes
<1>15. \A q \in HasRead' : q \in HasRead /\ reader'[q] = reader[q]
  BY <1>1, <1>13 DEF IndexInv, IndexTypes, HasRead
<1>16. IndexInv'
  BY <1>1, <1>9, <1>14, <1>15 DEF IndexInv
<1>17. mem'[p].guidelines = mem[p].guidelines \/ (kind = "guidelines" /\ mem'[p].guidelines = index)
  BY <1>2, <1>10 DEF IndexInv, IndexTypes, Kinds
<1>18. \A q \in Processes : q # p => mem'[q] = mem[q]
  BY <1>10 DEF IndexInv, IndexTypes
<1>19. kind = "guidelines" =>
         /\ reader[r].at = "read" /\ reader[r].process = p /\ reader[r].kind = "guidelines"
         /\ index = reader[r].docs
  BY <1>1, <1>5 DEF p, kind
<1>20. IndexStep
  BY <1>7, <1>17, <1>18, <1>19 DEF IndexStep
<1> QED
  BY <1>16, <1>20

LEMMA RestartKeeps ==
  ASSUME IndexInv, NEW p \in Processes, Restart(p)
  PROVE  IndexInv' /\ IndexStep
<1>1. /\ mem' = [mem EXCEPT ![p] = [k \in Kinds |-> {}]] /\ UNCHANGED <<disk, store>>
      /\ reader' = [r \in Readers |-> IF reader[r].at \in {"asked", "read"} /\ reader[r].process = p
                                        THEN Returned ELSE reader[r]]
  BY DEF Restart, uploading
<1>2. Returned.at = "done"
  BY DEF Returned
<1>3. mem' \in [Processes -> [Kinds -> SUBSET Docs]]
      /\ \A q \in Processes : mem'[q].guidelines = mem[q].guidelines \/ mem'[q].guidelines = {}
  BY <1>1 DEF IndexInv, IndexTypes, Kinds
<1>4. DOMAIN reader' = Readers /\ \A r \in Readers : reader'[r] = Returned \/ reader'[r] = reader[r]
  BY <1>1
<1>5. IndexTypes'
  BY <1>1, <1>3, <1>4 DEF IndexInv, IndexTypes
<1>6. \A q \in HasRead' : q \in HasRead /\ reader'[q] = reader[q]
  BY <1>2, <1>4 DEF HasRead
<1> QED
  BY <1>1, <1>3, <1>5, <1>6 DEF IndexInv, IndexStep

LEMMA IndexesKeep ==
  ASSUME UploadInv, IndexInv, Next
  PROVE  IndexInv' /\ IndexStep
<1>1. store.guidelines \subseteq store'.guidelines /\ IsFiniteSet(store'.guidelines)
  BY GuidesGrow DEF IndexInv
<1>2. ASSUME UNCHANGED indexes
      PROVE  IndexInv' /\ IndexStep
  <2>1. UNCHANGED <<disk, mem, reader>>
    BY <1>2 DEF indexes
  <2>2. IndexTypes' /\ HasRead' = HasRead
    BY <2>1 DEF IndexInv, IndexTypes, HasRead
  <2> QED
    BY <1>1, <2>1, <2>2 DEF IndexInv, IndexStep
<1>3. ASSUME NEW u \in Uploads,
             \/ \E k \in Kinds, v \in Versions, n \in 1 .. MaxChunks : Submit(u, k, v, n)
             \/ JudgeGuide(u) \/ JudgeSegments(u) \/ DeleteOld(u) \/ Upsert(u) \/ Begin(u)
             \/ CommitGuide(u) \/ CommitSegments(u) \/ OpenDraft(u) \/ Fail(u)
      PROVE  IndexInv' /\ IndexStep
  <2>1. UNCHANGED indexes
    BY <1>3 DEF Submit, JudgeGuide, JudgeSegments, DeleteOld, Upsert, Begin, CommitGuide, CommitSegments, OpenDraft, Fail
  <2> QED
    BY <1>2, <2>1
<1>4. ASSUME \/ SeedStore \/ Backfill
             \/ \E set \in Sets : BeginActivate(set) \/ EndActivate(set) \/ BeginDelete(set) \/ EndDelete(set)
      PROVE  IndexInv' /\ IndexStep
  <2>1. UNCHANGED indexes
    BY <1>4 DEF SeedStore, Backfill, BeginActivate, EndActivate, BeginDelete, EndDelete
  <2> QED
    BY <1>2, <2>1
<1>5. ASSUME NEW r \in Readers,
             (\E p \in Processes, k \in Kinds : AskStore(r, p, k)) \/ ReadStore(r)
      PROVE  IndexInv' /\ IndexStep
  BY <1>5, AskKeeps, ReadKeeps DEF IndexStep
<1> QED
  BY <1>3, <1>4, <1>5, UseKeeps, RestartKeeps DEF Next

-----------------------------------------------------------------------------
(* The invariant and the theorems.                                           *)

LEMMA InitIInv == Init => IInv
<1> SUFFICES ASSUME Init
             PROVE  IInv
  OBVIOUS
<1>1. \A u \in Uploads : up[u] = Fresh /\ up[u].at = "none"
  BY DEF Init, Fresh
<1>2. \A k \in Kinds : store[k] = {} /\ disk[k] = {}
  BY DEF Init
<1>3. rows = {} /\ last = None /\ tidy = TRUE /\ met = FALSE /\ first = FALSE /\ raced = FALSE
  BY DEF Init
<1>4. UpTyped /\ StoresTyped
  BY <1>1, <1>3 DEF Init, UpTyped, StoresTyped
<1>5. Registered /\ Upserted /\ Replacing /\ GuidesServed /\ OneGuide
  BY <1>1, <1>2, <1>3 DEF Registered, Upserted, Replacing, GuidesServed, OneGuide, Committing
<1>6. SegmentsFollow
  BY <1>1, <1>3 DEF SegmentsFollow, SegmentsInStore, InStore
<1>7. GoldenInv
  <2>1. Active = {}
    BY SetTypes DEF Init, Active
  <2> QED
    BY <1>3, <2>1, IdleType DEF Init, GoldenInv
<1>8. IndexInv
  <2>1. IndexTypes
    BY <1>2 DEF Init, IndexTypes
  <2>2. HasRead = {}
    BY DEF Init, HasRead, Away
  <2> QED
    BY <1>2, <2>1, <2>2, FS_EmptySet DEF IndexInv, Kinds
<1> QED
  BY <1>4, <1>5, <1>6, <1>7, <1>8 DEF IInv, UploadInv

LEMMA NextIInv == IInv /\ [Next]_vars => IInv'
<1>1. ASSUME IInv, Next
      PROVE  IInv'
  BY <1>1, UploadsKeep, SetsKeep, IndexesKeep DEF IInv
<1>2. ASSUME IInv, UNCHANGED vars
      PROVE  IInv'
  <2>1. UNCHANGED <<up, store, rows, last, tidy, met>> /\ UNCHANGED <<sets, change, deleting, first, raced, clients>> /\ UNCHANGED <<disk, mem, reader>>
    BY <1>2 DEF vars
  <2>2. UpTyped' /\ StoresTyped' /\ Registered' /\ Replacing'
    BY <1>2, <2>1 DEF IInv, UploadInv, UpTyped, StoresTyped, Registered, Replacing
  <2>3. Upserted' /\ GuidesServed'
    BY <1>2, <2>1 DEF IInv, UploadInv, Upserted, GuidesServed, DocsOf, IsActiveGuide
  <2>4. OneGuide'
    BY <1>2, <2>1 DEF IInv, UploadInv, OneGuide, Committing, IsActiveGuide
  <2>5. SegmentsInStore' = SegmentsInStore /\ Uploaded' = Uploaded /\ \A v : DocsOf(v)' = DocsOf(v) /\ RowsOf(v)' = RowsOf(v)
    BY <2>1 DEF SegmentsInStore, InStore, Uploaded, DocsOf, RowsOf
  <2>6. SegmentsFollow'
    BY <1>2, <2>1, <2>5 DEF IInv, UploadInv, SegmentsFollow
  <2>7. Active' = Active
    BY <2>1 DEF Active
  <2>8. GoldenInv'
    BY <1>2, <2>1, <2>7 DEF IInv, GoldenInv
  <2>9. IndexTypes' /\ HasRead' = HasRead
    BY <1>2, <2>1 DEF IInv, IndexInv, IndexTypes, HasRead
  <2>10. IndexInv'
    BY <1>2, <2>1, <2>9 DEF IInv, IndexInv
  <2> QED
    BY <2>2, <2>3, <2>4, <2>6, <2>8, <2>10 DEF IInv, UploadInv
<1> QED
  BY <1>1, <1>2

LEMMA Invariance == Spec => []IInv
  BY InitIInv, NextIInv, PTL DEF Spec

\* Whatever uploads, retrievers, restarts and calls on the sets do, in any order,
\* the store, the rows, the sets and the indexes stay of their types (ingest_brand_guide,
\* ingest_customer_segments, _get_bm25, golden_dataset_service).
THEOREM TypeCorrect == Spec => []TypeOK
<1>1. IInv => TypeOK
  <2> SUFFICES ASSUME IInv
               PROVE  TypeOK
    OBVIOUS
  <2>1. \A u \in Uploads : up[u].at \in {"none", "judge", "delete", "upsert", "begin", "commit", "draft", "done", "failed"}
    BY DEF IInv, UploadInv, UpTyped, Submitted, Places, Fresh
  <2>2. tidy \in BOOLEAN /\ met \in BOOLEAN /\ first \in BOOLEAN /\ raced \in BOOLEAN
    BY DEF IInv, UploadInv, StoresTyped, GoldenInv
  <2> QED
    BY <2>1, <2>2 DEF IInv, UploadInv, StoresTyped, Rows, GoldenInv, IndexInv, IndexTypes, TypeOK
<1> QED
  BY <1>1, Invariance, PTL

\* From the first guide on there is an active one, and no two unless two uploads
\* registered at once; what the API lists is in the store in full and not quarantined
\* (ingest_brand_guide, list_guides).
THEOREM OneGuideIsActive == Spec => []OneActiveGuide
<1>1. IInv => OneActiveGuide
  <2> SUFFICES ASSUME IInv
               PROVE  OneActiveGuide
    OBVIOUS
  <2>1. \A g : g \in Guides <=> g \in rows /\ g.kind = "guidelines"
    BY DEF Guides
  <2>2. \A u : u \in ActiveGuides <=> \E r \in rows : IsActiveGuide(r) /\ r.upload = u
    BY <2>1 DEF ActiveGuides, IsActiveGuide
  <2>3. (\E g \in Guides : g.status = "active") => ActiveGuides # {}
    BY <2>1, <2>2 DEF IInv, UploadInv, GuidesServed
  <2>4. ~met => Cardinality(ActiveGuides) <= 1
    <3> SUFFICES ASSUME ~met
                 PROVE  Cardinality(ActiveGuides) <= 1
      OBVIOUS
    <3>1. \A u, v \in ActiveGuides : u = v
      BY <2>2 DEF IInv, UploadInv, OneGuide
    <3>2. CASE ActiveGuides = {}
      BY <3>2, FS_EmptySet
    <3>3. CASE ActiveGuides # {}
      <4>1. PICK u : ActiveGuides = {u}
        BY <3>1, <3>3
      <4> QED
        BY <4>1, FS_Singleton
    <3> QED
      BY <3>2, <3>3
  <2>5. ASSUME NEW u \in ListedGuides \ {Seed}
        PROVE  DocsOf(u) \subseteq store.guidelines /\ ~\E g \in Guides : g.upload = u /\ g.status = "quarantined"
    <3>1. CASE ActiveGuides # {}
      <4>1. PICK r \in rows : IsActiveGuide(r) /\ r.upload = u
        BY <2>2, <2>5, <3>1 DEF ListedGuides
      <4>2. r.kind = "guidelines" /\ r.active /\ r.status \in {"active", "quarantined"}
        BY <4>1 DEF IsActiveGuide, IInv, UploadInv, StoresTyped, Rows
      <4>3. r.status = "active"
        BY <4>2 DEF IInv, UploadInv, GuidesServed
      <4> QED
        BY <2>1, <4>1, <4>2, <4>3 DEF IInv, UploadInv, GuidesServed
    <3>2. CASE ActiveGuides = {}
      <4>1. PICK d \in store.guidelines : d.upload = u
        BY <2>5, <3>2 DEF ListedGuides, GuidesInStore
      <4>2. DocsOf(u) \subseteq store.guidelines
        BY <2>5, <4>1 DEF IInv, UploadInv, Upserted, Kinds
      <4> QED
        BY <2>1, <4>1, <4>2 DEF IInv, UploadInv, GuidesServed
    <3> QED
      BY <3>1, <3>2
  <2> QED
    BY <2>3, <2>4, <2>5 DEF OneActiveGuide
<1> QED
  BY <1>1, Invariance, PTL

\* When no upload of segments is under way, and none met another one or failed
\* half-way, the store holds those of the last one, and the API lists these for their
\* version (ingest_customer_segments, list_segments).
THEOREM SegmentsAreTheLast == Spec => []SegmentsMatch
<1>1. IInv => SegmentsMatch
  <2> SUFFICES ASSUME IInv, SegmentsInStore = {}, tidy, last # None
               PROVE  /\ {d \in store.segments : d.upload # Seed} = DocsOf(last)
                      /\ ListedSegments(up[last].version) = {last}
    BY DEF SegmentsMatch
  <2>1. Uploaded = DocsOf(last) /\ {s.upload : s \in RowsOf(up[last].version)} = {last}
    BY DEF IInv, UploadInv, SegmentsFollow
  <2>2. {r \in rows : r.kind = "segments" /\ r.version \in {up[last].version}} = RowsOf(up[last].version)
    BY DEF RowsOf
  <2>3. SegmentsOf({up[last].version}) = {last}
    BY <2>1, <2>2 DEF SegmentsOf
  <2> QED
    BY <2>1, <2>3 DEF ListedSegments, Uploaded
<1> QED
  BY <1>1, Invariance, PTL

\* Once a set of examples is active there is exactly one, while another one takes its
\* place, too, unless a set was deleted while it was being activated
\* (golden_dataset_service: activate and delete).
THEOREM OneSetIsActive == Spec => []OneActiveSet
<1>1. IInv => OneActiveSet
  <2> SUFFICES ASSUME IInv, first, ~raced
               PROVE  Cardinality(Active) = 1
    BY DEF OneActiveSet
  <2>1. Active # {} /\ \A s, t \in Active : s = t
    BY DEF IInv, GoldenInv
  <2>2. PICK s \in Active : TRUE
    BY <2>1
  <2>3. Active = {s}
    BY <2>1, <2>2
  <2> QED
    BY <2>3, FS_Singleton
<1> QED
  BY <1>1, Invariance, PTL

\* An index of the guides that a process puts to use has what one of its calls has
\* read, though only the number of documents is compared with the one on disk, and
\* the store still has all of it, whatever uploads and other calls came in between
\* (_get_bm25).
THEOREM IndexesAreCurrent == Spec => IndexIsCurrent
<1>1. IInv /\ [Next]_vars => [IndexStep]_vars
  BY IndexesKeep DEF IInv
<1> QED
  BY <1>1, Invariance, PTL DEF Spec, IndexIsCurrent, IndexStep
=============================================================================
