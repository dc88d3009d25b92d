-------------------------- MODULE Embeddings_proofs --------------------------
(***************************************************************************)
(* The safety invariants of Embeddings, for any threads, runs of the batch,*)
(* properties, models and bound.                                           *)
(***************************************************************************)
EXTENDS Embeddings, TLAPS

\* Only the holder of the lock loads, and only while there is no encoder.
LoadsLocked ==
    \A t \in Threads : At(t, "load") => _embedder_lock = t /\ _embedder = None

\* A score other than 0.0 compares vectors of one length.
ScoresComparable ==
    \A t \in Threads : \A p \in DOMAIN threads[t].scores :
        threads[t].scores[p] # None =>
            Length(threads[t].scores[p][1].space) = Length(threads[t].scores[p][2].space)

\* What a batch has read of one property it has read of all: they were active,
\* and what has changed since is newer than anything read.
ReadTogether(b) ==
    \A p \in ActiveProperties, q \in DOMAIN batches[b].rows :
        properties[p].version < batches[b].rows[q] =>
            /\ p \in DOMAIN batches[b].rows
            /\ batches[b].rows[p] = properties[p].version

\* A batch that no commit has overtaken has read each active property as it is,
\* or the property is newer than anything stored.
ReadAfterStored(b) ==
    batches[b].pc = "upsert" /\ ~batches[b].stale =>
        \A p \in ActiveProperties, q \in DOMAIN property_embeddings :
            \/ /\ p \in DOMAIN batches[b].rows
               /\ batches[b].rows[p] = properties[p].version
            \/ property_embeddings[q].version < properties[p].version

BatchesInOrder == \A b \in Batches : ReadTogether(b) /\ ReadAfterStored(b)

ServingInv == TypeOK /\ OneEmbedder /\ LoadsLocked /\ ScoresComparable

StoreInv == StoredTogether /\ BatchesInOrder
-----------------------------------------------------------------------------
LEMMA LoadedEmbedders ==
    ASSUME NEW name \in Models, NEW e \in Loaded(name)
    PROVE  e \in Embedders /\ e.model_name = name
BY DEF Loaded, Embedders

LEMMA EmptyRow == NoThread \in ThreadStates /\ NoBatch \in BatchStates
<1>1. [p \in {} |-> None] \in [{} -> {}]
  OBVIOUS
<1>2. [p \in {} |-> 0] \in UNION {[ps -> 0 .. edits] : ps \in SUBSET Properties}
  <2>1. [p \in {} |-> 0] \in [{} -> 0 .. edits] /\ {} \in SUBSET Properties
    OBVIOUS
  <2> QED  BY <2>1
<1> QED  BY <1>1, <1>2 DEF NoThread, NoBatch, ThreadStates, BatchStates

\* What Scored makes of a query vector.
LEMMA ScoresTyped ==
    ASSUME TypeOK, NEW vector \in Embedders \cup {None}
    PROVE  /\ Scored(vector) \in [Properties -> (Embedders \X Embedders) \cup {None}]
           /\ \A p \in Properties : Scored(vector)[p] # None =>
                Length(Scored(vector)[p][1].space) = Length(Scored(vector)[p][2].space)
<1>1. PICK ps \in SUBSET Properties :
          property_embeddings \in [ps -> [embedder : Embedders, version : 0 .. edits]]
  BY DEF TypeOK
<1>2. SUFFICES ASSUME NEW p \in Properties
               PROVE  /\ Scored(vector)[p] \in (Embedders \X Embedders) \cup {None}
                      /\ Scored(vector)[p] # None =>
                            Length(Scored(vector)[p][1].space) = Length(Scored(vector)[p][2].space)
  BY DEF Scored
<1>3. CASE vector = None \/ p \notin DOMAIN property_embeddings
  <2>1. Scored(vector)[p] = None
    BY <1>3 DEF Scored
  <2> QED  BY <2>1
<1>4. CASE vector # None /\ p \in DOMAIN property_embeddings
  <2>1. Scored(vector)[p] = Cosine(vector, property_embeddings[p].embedder)
    BY <1>4 DEF Scored
  <2>2. vector \in Embedders /\ property_embeddings[p].embedder \in Embedders
    BY <1>1, <1>4
  <2> QED  BY <2>1, <2>2 DEF Cosine
<1> QED  BY <1>3, <1>4

LEMMA ThreadMoves ==
    ASSUME TypeOK, NEW t \in Threads, NEW phase \in {"idle", "lock", "load", "rerank", "scored"}
    PROVE  [threads EXCEPT ![t].pc = phase] \in [Threads -> ThreadStates]
<1>1. threads[t] \in ThreadStates /\ threads \in [Threads -> ThreadStates]
  BY DEF TypeOK
<1>2. [threads[t] EXCEPT !.pc = phase] \in ThreadStates
  BY <1>1 DEF ThreadStates
<1> QED  BY <1>1, <1>2

LEMMA ThreadEncodes ==
    ASSUME TypeOK, NEW t \in Threads, NEW e \in Embedders
    PROVE  [threads EXCEPT ![t].pc = "rerank", ![t].vector = e] \in [Threads -> ThreadStates]
<1>1. threads[t] \in ThreadStates /\ threads \in [Threads -> ThreadStates]
  BY DEF TypeOK
<1>2. [threads[t] EXCEPT !.pc = "rerank", !.vector = e] \in ThreadStates
  BY <1>1 DEF ThreadStates
<1> QED  BY <1>1, <1>2

LEMMA ThreadScores ==
    ASSUME TypeOK, NEW t \in Threads
    PROVE  [threads EXCEPT ![t].pc = "scored", ![t].scores = Scored(threads[t].vector)]
              \in [Threads -> ThreadStates]
<1>1. threads[t] \in ThreadStates /\ threads \in [Threads -> ThreadStates]
  BY DEF TypeOK
<1>2. threads[t].vector \in Embedders \cup {None}
  BY <1>1 DEF ThreadStates
<1>3. Scored(threads[t].vector) \in [Properties -> (Embedders \X Embedders) \cup {None}]
  BY <1>2, ScoresTyped
<1>4. [threads[t] EXCEPT !.pc = "scored", !.scores = Scored(threads[t].vector)] \in ThreadStates
  BY <1>1, <1>3 DEF ThreadStates
<1> QED  BY <1>1, <1>4

\* The steps of the API keep what they do not name.
LEMMA ApiTyped ==
    ASSUME TypeOK, UNCHANGED <<config, batches, store>>,
           env' \in Models, _embedder' \in Embedders \cup {None},
           _embedder_lock' \in Threads \cup {None},
           threads' \in [Threads -> ThreadStates]
    PROVE  TypeOK'
BY DEF TypeOK, config, store, ThreadStates, BatchStates

LEMMA ThreadTyped ==
    ASSUME TypeOK, NEW t \in Threads, Search(t) \/ Go(t)
    PROVE  TypeOK'
<1> USE DEF TypeOK
<1>1. CASE Search(t)
  <2>1. threads' \in [Threads -> ThreadStates]
    <3>1. CASE threads' = [threads EXCEPT ![t].pc = "rerank", ![t].vector = _embedder]
               /\ _embedder # None
      BY <3>1, ThreadEncodes
    <3>2. CASE \E phase \in {"lock", "load", "rerank"} :
                  threads' = [threads EXCEPT ![t].pc = phase]
      <4>1. PICK phase \in {"lock", "load", "rerank"} :
                threads' = [threads EXCEPT ![t].pc = phase]
        BY <3>2
      <4> QED  BY <4>1, ThreadMoves
    <3> QED  BY <1>1, <3>1, <3>2 DEF Search, Goto, Encoded
  <2> QED  BY <1>1, <2>1, ApiTyped DEF Search
<1>2. CASE LockEmbedder(t)
  <2>1. threads' \in [Threads -> ThreadStates]
    <3>1. CASE threads' = [threads EXCEPT ![t].pc = "rerank", ![t].vector = _embedder]
               /\ _embedder # None
      BY <3>1, ThreadEncodes
    <3>2. CASE \E phase \in {"lock", "load", "rerank"} :
                  threads' = [threads EXCEPT ![t].pc = phase]
      <4>1. PICK phase \in {"lock", "load", "rerank"} :
                threads' = [threads EXCEPT ![t].pc = phase]
        BY <3>2
      <4> QED  BY <4>1, ThreadMoves
    <3> QED  BY <1>2, <3>1, <3>2 DEF LockEmbedder, Goto, Encoded
  <2> QED  BY <1>2, <2>1, ApiTyped DEF LockEmbedder
<1>3. CASE LoadEmbedder(t)
  <2>1. PICK e \in Loaded(env) : _embedder' = e /\ Encoded(t, e)
    BY <1>3 DEF LoadEmbedder
  <2>2. e \in Embedders
    BY LoadedEmbedders
  <2>3. threads' \in [Threads -> ThreadStates]
    BY <2>1, <2>2, ThreadEncodes DEF Encoded
  <2> QED  BY <1>3, <2>1, <2>2, <2>3, ApiTyped DEF LoadEmbedder
<1>4. CASE Rerank(t)
  BY <1>4, ThreadScores, ApiTyped DEF Rerank
<1>5. CASE Finish(t)
  BY <1>5, EmptyRow, ApiTyped DEF Finish
<1> QED  BY <1>1, <1>2, <1>3, <1>4, <1>5 DEF Go

LEMMA RestartTyped == ASSUME TypeOK, Restart PROVE TypeOK'
BY EmptyRow, ApiTyped DEF Restart, TypeOK

LEMMA BatchesTyped ==
    ASSUME TypeOK, UNCHANGED <<config, api, properties, edits>>,
           batches' \in [Batches -> BatchStates],
           property_embeddings' \in
              UNION {[ps -> [embedder : Embedders, version : 0 .. edits]] : ps \in SUBSET Properties},
           overtaken' \in BOOLEAN
    PROVE  TypeOK'
BY DEF TypeOK, config, api, ThreadStates, BatchStates

\* What a batch reads.
LEMMA RowsTyped ==
    ASSUME TypeOK, NEW found \in SUBSET Properties
    PROVE  [p \in found |-> properties[p].version] \in
              UNION {[ps -> 0 .. edits] : ps \in SUBSET Properties}
<1>1. [p \in found |-> properties[p].version] \in [found -> 0 .. edits]
  BY DEF TypeOK
<1> QED  BY <1>1

\* What a batch stores.
LEMMA WrittenTyped ==
    ASSUME TypeOK, NEW b \in Batches, NEW e \in Embedders,
           NEW written \in SUBSET DOMAIN batches[b].rows
    PROVE  [p \in DOMAIN property_embeddings \cup written |->
              IF p \in written THEN [embedder |-> e, version |-> batches[b].rows[p]]
              ELSE property_embeddings[p]]
           \in UNION {[ps -> [embedder : Embedders, version : 0 .. edits]] : ps \in SUBSET Properties}
<1>1. PICK ps \in SUBSET Properties :
          property_embeddings \in [ps -> [embedder : Embedders, version : 0 .. edits]]
  BY DEF TypeOK
<1>2. batches[b].rows \in UNION {[qs -> 0 .. edits] : qs \in SUBSET Properties}
  BY DEF TypeOK, BatchStates
<1>3. PICK qs \in SUBSET Properties : batches[b].rows \in [qs -> 0 .. edits]
  BY <1>2
<1>4. DOMAIN property_embeddings \cup written \in SUBSET Properties
  BY <1>1, <1>3
<1>5. [p \in DOMAIN property_embeddings \cup written |->
          IF p \in written THEN [embedder |-> e, version |-> batches[b].rows[p]]
          ELSE property_embeddings[p]]
      \in [DOMAIN property_embeddings \cup written -> [embedder : Embedders, version : 0 .. edits]]
  BY <1>1, <1>3
<1> QED  BY <1>4, <1>5

LEMMA BatchTyped ==
    ASSUME TypeOK, NEW b \in Batches,
           StartBatch(b) \/ FetchActive(b) \/ Upsert(b) \/ FailBatch(b)
    PROVE  TypeOK'
<1>1. batches \in [Batches -> BatchStates] /\ batches[b] \in BatchStates
  BY DEF TypeOK
<1>2. CASE StartBatch(b)
  <2>1. [batches[b] EXCEPT !.pc = "fetch", !.model_name = ME5_MODEL_NAME] \in BatchStates
    BY <1>1, EmbeddingConstants DEF BatchStates, TypeOK
  <2> QED  BY <1>1, <1>2, <2>1, BatchesTyped DEF StartBatch, store, TypeOK
<1>3. CASE FetchActive(b)
  <2>1. PICK row : row = [p \in ActiveProperties |-> properties[p].version]
    OBVIOUS
  <2>2. row \in UNION {[ps -> 0 .. edits] : ps \in SUBSET Properties}
    BY <2>1, RowsTyped DEF ActiveProperties
  <2>3. [batches[b] EXCEPT !.pc = "upsert", !.rows = row] \in BatchStates
    BY <1>1, <1>3, <2>2 DEF FetchActive, Read, BatchStates
  <2>4. batches' \in [Batches -> BatchStates]
    BY <1>1, <1>3, <2>1, <2>3, EmptyRow DEF FetchActive, Read
  <2> QED  BY <1>3, <2>4, BatchesTyped DEF FetchActive, Read, store, TypeOK
<1>4. CASE Upsert(b)
  <2>1. PICK e \in Loaded(batches[b].model_name) :
            property_embeddings' = [p \in DOMAIN property_embeddings \cup DOMAIN batches[b].rows |->
              IF p \in DOMAIN batches[b].rows
              THEN [embedder |-> e, version |-> batches[b].rows[p]]
              ELSE property_embeddings[p]]
    BY <1>4 DEF Upsert, Wrote
  <2>2. e \in Embedders
    <3>1. batches[b].model_name \in Models
      BY <1>1, <1>4 DEF Upsert, Wrote, BatchStates
    <3> QED  BY <3>1, LoadedEmbedders
  <2>3. property_embeddings' \in
          UNION {[ps -> [embedder : Embedders, version : 0 .. edits]] : ps \in SUBSET Properties}
    <3> HIDE DEF BatchStates
    <3> QED  BY <2>1, <2>2, WrittenTyped
  <2>4. batches' \in [Batches -> BatchStates] /\ overtaken' \in BOOLEAN
    <3>1. ASSUME NEW c \in Batches
          PROVE  [batches[c] EXCEPT !.stale = batches[c].pc = "upsert"] \in BatchStates
      BY <1>1 DEF BatchStates
    <3>2. batches[b].stale \in BOOLEAN
      BY <1>1 DEF BatchStates
    <3> QED  BY <1>4, <3>1, <3>2, EmptyRow DEF Upsert, Wrote
  <2> QED  BY <1>4, <2>3, <2>4, BatchesTyped DEF Upsert, Wrote
<1>5. CASE FailBatch(b)
  BY <1>1, <1>5, EmptyRow, BatchesTyped DEF FailBatch, store, TypeOK
<1> QED  BY <1>2, <1>3, <1>4, <1>5

LEMMA EditTyped == ASSUME TypeOK, NEW p \in Properties, Edit(p) PROVE TypeOK'
<1>1. edits \in Nat /\ edits' = edits + 1 /\ renames' = renames
      /\ edits + renames < MaxChanges /\ renames \in Nat
  BY DEF Edit, TypeOK, config
<1>2. 0 .. edits \subseteq 0 .. edits' /\ edits' \in Nat /\ renames' + edits' <= MaxChanges
  BY <1>1, EmbeddingConstants
<1>3. properties' \in [Properties -> [is_active : BOOLEAN, version : 0 .. edits']]
  <2>1. edits + 1 \in 0 .. edits'
    BY <1>1
  <2> QED  BY <1>2, <2>1 DEF Edit, TypeOK
<1>4. batches' \in [Batches -> BatchStates']
  <2>1. ASSUME NEW ps \in SUBSET Properties PROVE [ps -> 0 .. edits] \subseteq [ps -> 0 .. edits']
    BY <1>2
  <2>2. UNION {[ps -> 0 .. edits] : ps \in SUBSET Properties}
            \subseteq UNION {[ps -> 0 .. edits'] : ps \in SUBSET Properties}
    BY <2>1
  <2>3. BatchStates \subseteq BatchStates'
    BY <2>2 DEF BatchStates
  <2> QED  BY <2>3 DEF Edit, TypeOK
<1>5. property_embeddings' \in
          UNION {[ps -> [embedder : Embedders, version : 0 .. edits']] : ps \in SUBSET Properties}
  <2>1. PICK ps \in SUBSET Properties :
            property_embeddings \in [ps -> [embedder : Embedders, version : 0 .. edits]]
    BY DEF TypeOK
  <2>2. property_embeddings \in [ps -> [embedder : Embedders, version : 0 .. edits']]
    BY <1>2, <2>1
  <2> QED  BY <2>1, <2>2 DEF Edit
<1> QED  BY <1>1, <1>2, <1>3, <1>4, <1>5 DEF Edit, TypeOK, config, api, ThreadStates

LEMMA RenameTyped == ASSUME TypeOK, Rename PROVE TypeOK'
<1>1. renames' \in Nat /\ edits \in Nat /\ renames' + edits <= MaxChanges /\ ME5_MODEL_NAME' \in Models
  BY EmbeddingConstants DEF Rename, TypeOK
<1> QED  BY <1>1 DEF Rename, TypeOK, api, store, ThreadStates, BatchStates

LEMMA TypeStep == ASSUME TypeOK, [Next]_vars PROVE TypeOK'
<1>1. CASE UNCHANGED vars
  BY <1>1 DEF vars, config, api, store, TypeOK, ThreadStates, BatchStates
<1> QED  BY <1>1, ThreadTyped, RestartTyped, BatchTyped, EditTyped, RenameTyped DEF Next
-----------------------------------------------------------------------------
\* A step of thread t leaves the local state of the others alone.
LEMMA OthersKept ==
    ASSUME TypeOK, NEW t \in Threads, Search(t) \/ Go(t), NEW u \in Threads, u # t
    PROVE  threads'[u] = threads[u]
<1> USE DEF TypeOK
<1>1. CASE Search(t)
  BY <1>1 DEF Search, Goto, Encoded
<1>2. CASE LockEmbedder(t)
  BY <1>2 DEF LockEmbedder, Goto, Encoded
<1>3. CASE LoadEmbedder(t)
  BY <1>3 DEF LoadEmbedder, Encoded
<1>4. CASE Rerank(t)
  BY <1>4 DEF Rerank
<1>5. CASE Finish(t)
  BY <1>5 DEF Finish
<1> QED  BY <1>1, <1>2, <1>3, <1>4, <1>5 DEF Go

\* While a thread loads, no thread has an encoder's vector.
LEMMA NoVectorYet ==
    ASSUME ServingInv, _embedder = None, NEW u \in Threads
    PROVE  threads[u].vector = None
BY DEF ServingInv, OneEmbedder

LEMMA OneEmbedderStep ==
    ASSUME ServingInv, NEW t \in Threads, Search(t) \/ Go(t), NEW u \in Threads,
           threads'[u].vector # None
    PROVE  threads'[u].vector = _embedder'
<1> USE DEF ServingInv
<1>1. threads \in [Threads -> ThreadStates] /\ threads[t] \in ThreadStates
  BY DEF TypeOK
<1>2. CASE LoadEmbedder(t)
  <2>1. _embedder = None
    BY <1>2 DEF LoadEmbedder, LoadsLocked
  <2>2. CASE u = t
    BY <1>1, <1>2, <2>2 DEF LoadEmbedder, Encoded, ThreadStates
  <2>3. CASE u # t
    BY <2>1, <2>3, NoVectorYet, OthersKept
  <2> QED  BY <2>2, <2>3
<1>3. CASE ~LoadEmbedder(t)
  <2>1. _embedder' = _embedder
    BY <1>3 DEF Go, Search, LockEmbedder, Rerank, Finish
  <2>2. CASE u # t
    BY <2>1, <2>2, OthersKept DEF OneEmbedder
  <2>3. CASE u = t
    <3>1. threads'[t].vector \in {threads[t].vector, _embedder, None}
      <4>1. CASE Search(t)
        BY <1>1, <4>1 DEF Search, Goto, Encoded, ThreadStates
      <4>2. CASE LockEmbedder(t)
        BY <1>1, <4>2 DEF LockEmbedder, Goto, Encoded, ThreadStates
      <4>3. CASE Rerank(t)
        BY <1>1, <4>3 DEF Rerank, ThreadStates
      <4>4. CASE Finish(t)
        BY <1>1, <4>4 DEF Finish, NoThread
      <4> QED  BY <1>3, <4>1, <4>2, <4>3, <4>4 DEF Go
    <3> QED  BY <2>1, <2>3, <3>1 DEF OneEmbedder
  <2> QED  BY <2>2, <2>3
<1> QED  BY <1>2, <1>3

LEMMA LoadsLockedStep ==
    ASSUME ServingInv, NEW t \in Threads, Search(t) \/ Go(t), NEW u \in Threads, At(u, "load")'
    PROVE  _embedder_lock' = u /\ _embedder' = None
<1> USE DEF ServingInv, At
<1>1. threads \in [Threads -> ThreadStates] /\ threads[t] \in ThreadStates
  BY DEF TypeOK
<1>2. CASE u # t
  <2>1. At(u, "load") /\ _embedder_lock = u /\ _embedder = None
    BY <1>2, OthersKept DEF LoadsLocked
  <2>2. ~LockEmbedder(t) /\ ~LoadEmbedder(t)
    BY <1>2, <2>1, EmbeddingConstants DEF LockEmbedder, LoadEmbedder, LoadsLocked
  <2> QED  BY <2>1, <2>2 DEF Go, Search, Rerank, Finish
<1>3. CASE u = t
  <2>1. CASE LockEmbedder(t)
    BY <1>1, <1>3, <2>1 DEF LockEmbedder, Encoded, Goto, ThreadStates
  <2>2. CASE ~LockEmbedder(t)
    <3>1. threads'[t].pc # "load"
      <4>1. CASE Search(t)
        BY <1>1, <4>1 DEF Search, Goto, Encoded, ThreadStates
      <4>2. CASE LoadEmbedder(t)
        BY <1>1, <4>2 DEF LoadEmbedder, Encoded, ThreadStates
      <4>3. CASE Rerank(t)
        BY <1>1, <4>3 DEF Rerank, ThreadStates
      <4>4. CASE Finish(t)
        BY <1>1, <4>4 DEF Finish, NoThread
      <4> QED  BY <2>2, <4>1, <4>2, <4>3, <4>4 DEF Go
    <3> QED  BY <1>3, <3>1
  <2> QED  BY <2>1, <2>2
<1> QED  BY <1>2, <1>3

LEMMA ScoresStep ==
    ASSUME ServingInv, NEW t \in Threads, Search(t) \/ Go(t),
           NEW u \in Threads, NEW p \in DOMAIN threads'[u].scores, threads'[u].scores[p] # None
    PROVE  Length(threads'[u].scores[p][1].space) = Length(threads'[u].scores[p][2].space)
<1> USE DEF ServingInv
<1>1. threads \in [Threads -> ThreadStates] /\ threads[t] \in ThreadStates
  BY DEF TypeOK
<1>2. CASE threads'[u].scores = threads[u].scores
  BY <1>2 DEF ScoresComparable
<1>3. CASE threads'[u].scores # threads[u].scores
  <2>1. u = t
    BY <1>3, OthersKept
  <2>2. CASE Rerank(t)
    <3>1. threads[t].vector \in Embedders \cup {None}
      BY <1>1 DEF ThreadStates
    <3>2. threads'[t].scores = Scored(threads[t].vector)
      BY <1>1, <2>2 DEF Rerank, ThreadStates
    <3>3. p \in Properties
      BY <2>1, <3>2 DEF Scored
    <3> QED  BY <2>1, <3>1, <3>2, <3>3, ScoresTyped
  <2>3. CASE Finish(t)
    BY <1>1, <2>1, <2>3 DEF Finish, NoThread
  <2>4. CASE Search(t)
    BY <1>1, <1>3, <2>1, <2>4 DEF Search, Goto, Encoded, ThreadStates
  <2>5. CASE LockEmbedder(t)
    BY <1>1, <1>3, <2>1, <2>5 DEF LockEmbedder, Goto, Encoded, ThreadStates
  <2>6. CASE LoadEmbedder(t)
    BY <1>1, <1>3, <2>1, <2>6 DEF LoadEmbedder, Encoded, ThreadStates
  <2> QED  BY <2>2, <2>3, <2>4, <2>5, <2>6 DEF Go
<1> QED  BY <1>2, <1>3

LEMMA ServingStep == ASSUME ServingInv, [Next]_vars PROVE ServingInv'
<1>1. TypeOK'
  BY TypeStep DEF ServingInv
<1>2. CASE \E t \in Threads : Search(t) \/ Go(t)
  BY <1>1, <1>2, OneEmbedderStep, LoadsLockedStep, ScoresStep
     DEF ServingInv, OneEmbedder, LoadsLocked, ScoresComparable
<1>3. CASE Restart
  <2>1. threads' = [t \in Threads |-> NoThread]
    BY <1>3 DEF Restart
  <2> QED  BY <1>1, <2>1 DEF ServingInv, OneEmbedder, LoadsLocked, ScoresComparable, NoThread, At
<1>4. CASE UNCHANGED api
  BY <1>1, <1>4 DEF api, ServingInv, OneEmbedder, LoadsLocked, ScoresComparable, At
<1>5. [Next]_vars => \/ \E t \in Threads : Search(t) \/ Go(t)
                     \/ Restart \/ UNCHANGED api
  BY DEF Next, StartBatch, FetchActive, Read, Upsert, Wrote, FailBatch, Edit, Rename, vars
<1> QED  BY <1>2, <1>3, <1>4, <1>5
-----------------------------------------------------------------------------
\* Versions are numbers, and none is later than the latest edit.
LEMMA Versions ==
    ASSUME TypeOK
    PROVE  /\ edits \in Nat
           /\ \A p \in Properties : properties[p].version \in 0 .. edits
           /\ DOMAIN property_embeddings \subseteq Properties
           /\ \A q \in DOMAIN property_embeddings : property_embeddings[q].version \in 0 .. edits
           /\ \A b \in Batches : /\ DOMAIN batches[b].rows \subseteq Properties
                                 /\ batches[b].rows \in [DOMAIN batches[b].rows -> 0 .. edits]
<1>1. edits \in Nat /\ \A p \in Properties : properties[p].version \in 0 .. edits
  BY DEF TypeOK
<1>2. PICK ps \in SUBSET Properties :
          property_embeddings \in [ps -> [embedder : Embedders, version : 0 .. edits]]
  BY DEF TypeOK
<1>3. ASSUME NEW b \in Batches
      PROVE  /\ DOMAIN batches[b].rows \subseteq Properties
             /\ batches[b].rows \in [DOMAIN batches[b].rows -> 0 .. edits]
  <2>1. batches[b].rows \in UNION {[read -> 0 .. edits] : read \in SUBSET Properties}
    BY DEF TypeOK, BatchStates
  <2>2. PICK read \in SUBSET Properties : batches[b].rows \in [read -> 0 .. edits]
    BY <2>1
  <2> QED  BY <2>2
<1> QED  BY <1>1, <1>2, <1>3

LEMMA FetchKeepsOrder ==
    ASSUME TypeOK, StoreInv, NEW b \in Batches, FetchActive(b)
    PROVE  StoreInv'
<1>1. batches \in [Batches -> BatchStates] /\ batches[b] \in BatchStates
  BY DEF TypeOK
<1>2. UNCHANGED <<properties, property_embeddings, overtaken>>
  BY DEF FetchActive, Read, store
<1>3. ASSUME NEW c \in Batches, c # b
      PROVE  ReadTogether(c)' /\ ReadAfterStored(c)'
  <2>1. batches'[c] = batches[c]
    BY <1>1, <1>3 DEF FetchActive, Read
  <2> QED  BY <1>2, <2>1 DEF StoreInv, BatchesInOrder, ReadTogether, ReadAfterStored, ActiveProperties
<1>4. ReadTogether(b)' /\ ReadAfterStored(b)'
  <2>1. CASE ActiveProperties = {}
    <3>1. ActiveProperties' = {}
      BY <1>2, <2>1 DEF ActiveProperties
    <3> QED  BY <3>1 DEF ReadTogether, ReadAfterStored
  <2>2. CASE ActiveProperties # {}
    <3>1. batches'[b].rows = [p \in ActiveProperties |-> properties[p].version]
      BY <1>1, <2>2 DEF FetchActive, Read, BatchStates
    <3> QED  BY <1>2, <3>1 DEF ReadTogether, ReadAfterStored, ActiveProperties
  <2> QED  BY <2>1, <2>2
<1> QED  BY <1>2, <1>3, <1>4 DEF StoreInv, StoredTogether, BatchesInOrder, ActiveProperties

\* Batches that start or fail have nothing to store.
LEMMA IdleKeepsOrder ==
    ASSUME TypeOK, StoreInv, NEW b \in Batches, StartBatch(b) \/ FailBatch(b)
    PROVE  StoreInv'
<1>1. batches \in [Batches -> BatchStates] /\ batches[b] \in BatchStates
  BY DEF TypeOK
<1>2. UNCHANGED <<properties, property_embeddings, overtaken>>
  BY DEF StartBatch, FailBatch, store
<1>3. ASSUME NEW c \in Batches, c # b
      PROVE  ReadTogether(c)' /\ ReadAfterStored(c)'
  <2>1. batches'[c] = batches[c]
    BY <1>1, <1>3 DEF StartBatch, FailBatch
  <2> QED  BY <1>2, <2>1 DEF StoreInv, BatchesInOrder, ReadTogether, ReadAfterStored, ActiveProperties
<1>4. ReadTogether(b)' /\ ReadAfterStored(b)'
  <2>1. batches'[b].pc # "upsert"
    BY <1>1 DEF StartBatch, FailBatch, NoBatch, BatchStates
  <2>2. batches'[b].rows = batches[b].rows \/ DOMAIN batches'[b].rows = {}
    BY <1>1 DEF StartBatch, FailBatch, NoBatch, BatchStates
  <2> QED  BY <1>2, <2>1, <2>2 DEF StoreInv, BatchesInOrder, ReadTogether, ReadAfterStored, ActiveProperties
<1> QED  BY <1>2, <1>3, <1>4 DEF StoreInv, StoredTogether, BatchesInOrder

LEMMA UpsertKeepsOrder ==
    ASSUME TypeOK, StoreInv, NEW b \in Batches, Upsert(b)
    PROVE  StoreInv'
<1>1. batches \in [Batches -> BatchStates] /\ batches[b] \in BatchStates
  BY DEF TypeOK
<1>2. PICK e :
          property_embeddings' = [p \in DOMAIN property_embeddings \cup DOMAIN batches[b].rows |->
              IF p \in DOMAIN batches[b].rows
              THEN [embedder |-> e, version |-> batches[b].rows[p]]
              ELSE property_embeddings[p]]
  BY DEF Upsert, Wrote
<1>3. /\ UNCHANGED properties
      /\ overtaken' = batches[b].stale
      /\ batches[b].pc = "upsert"
      /\ batches' = [c \in Batches |->
            IF c = b THEN NoBatch
            ELSE [batches[c] EXCEPT !.stale = batches[c].pc = "upsert"]]
  BY DEF Upsert, Wrote
<1>4. StoredTogether'
  <2>1. SUFFICES ASSUME ~batches[b].stale,
                        NEW p \in ActiveProperties, NEW q \in DOMAIN property_embeddings',
                        properties[p].version < property_embeddings'[q].version
                 PROVE  /\ p \in DOMAIN property_embeddings'
                        /\ property_embeddings'[p].version = properties[p].version
    BY <1>3 DEF StoredTogether, ActiveProperties
  <2>2. p \in DOMAIN batches[b].rows /\ batches[b].rows[p] = properties[p].version
    <3>1. CASE q \in DOMAIN batches[b].rows
      <4>1. property_embeddings'[q].version = batches[b].rows[q]
        BY <1>2, <3>1
      <4> QED  BY <2>1, <3>1, <4>1 DEF StoreInv, BatchesInOrder, ReadTogether
    <3>2. CASE q \notin DOMAIN batches[b].rows
      <4>1. q \in DOMAIN property_embeddings /\ property_embeddings'[q] = property_embeddings[q]
        BY <1>2, <3>2
      <4>2. ~(property_embeddings[q].version < properties[p].version)
        BY <2>1, <4>1, Versions DEF ActiveProperties
      <4> QED  BY <1>3, <2>1, <4>1, <4>2 DEF StoreInv, BatchesInOrder, ReadAfterStored
    <3> QED  BY <3>1, <3>2
  <2> QED  BY <1>2, <2>2
<1>5. ASSUME NEW c \in Batches
      PROVE  ReadTogether(c)' /\ ReadAfterStored(c)'
  <2>1. CASE c = b
    <3>1. batches'[c].pc = "idle" /\ DOMAIN batches'[c].rows = {}
      BY <1>3, <2>1 DEF NoBatch
    <3> QED  BY <3>1 DEF ReadTogether, ReadAfterStored
  <2>2. CASE c # b
    <3>1. /\ batches'[c].rows = batches[c].rows
          /\ batches'[c].pc = batches[c].pc
          /\ batches'[c].stale = (batches[c].pc = "upsert")
      BY <1>1, <1>3, <2>2 DEF TypeOK, BatchStates
    <3>2. ReadTogether(c)'
      BY <1>3, <3>1 DEF StoreInv, BatchesInOrder, ReadTogether, ActiveProperties
    <3>3. ReadAfterStored(c)'
      BY <3>1 DEF ReadAfterStored
    <3> QED  BY <3>2, <3>3
  <2> QED  BY <2>1, <2>2
<1> QED  BY <1>4, <1>5 DEF StoreInv, BatchesInOrder

\* An edited property is newer than whatever was read or stored before.
LEMMA EditKeepsOrder ==
    ASSUME TypeOK, StoreInv, NEW p \in Properties, Edit(p)
    PROVE  StoreInv'
<1>1. UNCHANGED <<batches, property_embeddings, overtaken>>
  BY DEF Edit
<1>2. /\ properties'[p].version = edits + 1
      /\ \A q \in Properties : q # p => properties'[q] = properties[q]
  BY DEF Edit, TypeOK
<1>3. ASSUME NEW q \in ActiveProperties', q # p
      PROVE  q \in ActiveProperties /\ properties'[q] = properties[q]
  BY <1>2, <1>3 DEF ActiveProperties
<1>4. StoredTogether'
  <2>1. SUFFICES ASSUME ~overtaken,
                        NEW q \in ActiveProperties', NEW r \in DOMAIN property_embeddings,
                        properties'[q].version < property_embeddings[r].version
                 PROVE  /\ q \in DOMAIN property_embeddings
                        /\ property_embeddings[q].version = properties'[q].version
    BY <1>1 DEF StoredTogether, ActiveProperties
  <2>2. q # p
    BY <1>2, <2>1, Versions
  <2>3. /\ q \in Properties /\ r \in Properties /\ properties[q].is_active
        /\ properties[q] = properties'[q]
    BY <1>3, <2>1, <2>2, Versions DEF ActiveProperties
  <2> QED  BY <2>1, <2>3 DEF StoreInv, StoredTogether
<1>5. ASSUME NEW b \in Batches PROVE ReadTogether(b)'
  <2>1. SUFFICES ASSUME NEW q \in ActiveProperties', NEW r \in DOMAIN batches[b].rows,
                        properties'[q].version < batches[b].rows[r]
                 PROVE  /\ q \in DOMAIN batches[b].rows
                        /\ batches[b].rows[q] = properties'[q].version
    BY <1>1 DEF ReadTogether
  <2>2. q # p
    BY <1>2, <2>1, Versions
  <2> QED  BY <1>3, <2>1, <2>2 DEF StoreInv, BatchesInOrder, ReadTogether
<1>6. ASSUME NEW b \in Batches PROVE ReadAfterStored(b)'
  <2>1. SUFFICES ASSUME batches[b].pc = "upsert", ~batches[b].stale,
                        NEW q \in ActiveProperties', NEW r \in DOMAIN property_embeddings
                 PROVE  \/ /\ q \in DOMAIN batches[b].rows
                           /\ batches[b].rows[q] = properties'[q].version
                        \/ property_embeddings[r].version < properties'[q].version
    BY <1>1 DEF ReadAfterStored
  <2>2. CASE q = p
    BY <1>2, <2>2, Versions
  <2>3. CASE q # p
    BY <1>3, <2>1, <2>3 DEF StoreInv, BatchesInOrder, ReadAfterStored
  <2> QED  BY <2>2, <2>3
<1> QED  BY <1>4, <1>5, <1>6 DEF StoreInv, BatchesInOrder

LEMMA StoreStep == ASSUME TypeOK, StoreInv, [Next]_vars PROVE StoreInv'
<1>1. CASE UNCHANGED <<batches, store>>
  BY <1>1 DEF store, StoreInv, StoredTogether, BatchesInOrder, ReadTogether, ReadAfterStored,
              ActiveProperties
<1>2. [Next]_vars =>
          \/ UNCHANGED <<batches, store>>
          \/ \E b \in Batches : StartBatch(b) \/ FetchActive(b) \/ Upsert(b) \/ FailBatch(b)
          \/ \E p \in Properties : Edit(p)
  BY DEF Next, Search, Go, LockEmbedder, LoadEmbedder, Rerank, Finish, Restart, Rename, vars
<1> QED  BY <1>1, <1>2, FetchKeepsOrder, IdleKeepsOrder, UpsertKeepsOrder, EditKeepsOrder
-----------------------------------------------------------------------------
LEMMA Start == Init => ServingInv /\ StoreInv
<1> SUFFICES ASSUME Init PROVE ServingInv /\ StoreInv
  OBVIOUS
<1>1. TypeOK
  <2>1. property_embeddings \in
            UNION {[ps -> [embedder : Embedders, version : 0 .. edits]] : ps \in SUBSET Properties}
    <3>1. property_embeddings \in [{} -> [embedder : Embedders, version : 0 .. edits]]
          /\ {} \in SUBSET Properties
      BY DEF Init
    <3> QED  BY <3>1
  <2>2. threads \in [Threads -> ThreadStates] /\ batches \in [Batches -> BatchStates]
    BY EmptyRow DEF Init
  <2>3. properties \in [Properties -> [is_active : BOOLEAN, version : 0 .. edits]]
    BY DEF Init
  <2>4. renames \in Nat /\ edits \in Nat /\ renames + edits <= MaxChanges
    BY EmbeddingConstants DEF Init
  <2> QED  BY <2>1, <2>2, <2>3, <2>4 DEF Init, TypeOK
<1>2. OneEmbedder /\ LoadsLocked /\ ScoresComparable
  BY DEF Init, OneEmbedder, LoadsLocked, ScoresComparable, NoThread, At
<1>3. StoreInv
  BY DEF Init, StoreInv, StoredTogether, BatchesInOrder, ReadTogether, ReadAfterStored, NoBatch
<1> QED  BY <1>1, <1>2, <1>3 DEF ServingInv

\* All states of the API, the batches and the table satisfy the two invariants.
THEOREM Invariance == Spec => [](ServingInv /\ StoreInv)
<1>1. ServingInv /\ StoreInv /\ [Next]_vars => (ServingInv /\ StoreInv)'
  BY ServingStep, StoreStep DEF ServingInv
<1> QED  BY Start, <1>1, PTL DEF Spec

\* Type correctness of the encoders, threads, batches and rows.
THEOREM Types == Spec => []TypeOK
<1>1. ServingInv => TypeOK
  BY DEF ServingInv
<1> QED  BY Invariance, <1>1, PTL

\* get_embedder gives every search of an API process the same encoder.
THEOREM SingleEmbedder == Spec => []OneEmbedder
<1>1. ServingInv => OneEmbedder
  BY DEF ServingInv
<1> QED  BY Invariance, <1>1, PTL

\* cosine_similarity compares no hash with a model's vector of the same name.
THEOREM OneSpace == Spec => []ScoresOfOneSpace
<1>1. ASSUME ServingInv PROVE ScoresOfOneSpace
  <2>1. SUFFICES ASSUME NEW t \in Threads, NEW p \in DOMAIN threads[t].scores,
                        threads[t].scores[p] # None,
                        threads[t].scores[p][1].model_name = threads[t].scores[p][2].model_name
                 PROVE  threads[t].scores[p][1].space = threads[t].scores[p][2].space
    BY DEF ScoresOfOneSpace
  <2>2. threads[t].scores[p] \in Embedders \X Embedders
    BY <1>1, <2>1 DEF ServingInv, TypeOK, ThreadStates
  <2>3. PICK e \in Embedders, f \in Embedders : threads[t].scores[p] = <<e, f>>
    BY <2>2
  <2>4. Length(e.space) = Length(f.space) /\ e.model_name = f.model_name
    <3>1. Length(threads[t].scores[p][1].space) = Length(threads[t].scores[p][2].space)
      BY <1>1, <2>1 DEF ServingInv, ScoresComparable
    <3> QED  BY <2>1, <2>3, <3>1
  <2>5. /\ e.space \in {e.model_name, Fallback} /\ f.space \in {e.model_name, Fallback}
        /\ e.model_name \in Models
    BY <2>4 DEF Embedders
  <2>6. e.space = f.space
    BY <2>4, <2>5, EmbeddingConstants DEF Length
  <2> QED  BY <2>3, <2>6
<1> QED  BY Invariance, <1>1, PTL

\* Runs of the batch that do not overlap leave the vectors of one moment.
THEOREM StoredAtOnce == Spec => []StoredTogether
<1>1. StoreInv => StoredTogether
  BY DEF StoreInv
<1> QED  BY Invariance, <1>1, PTL
=============================================================================
