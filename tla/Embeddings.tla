----------------------------- MODULE Embeddings -----------------------------
(***************************************************************************)
(* Where me5_score comes from.  A batch, run daily and when properties are *)
(* added, embeds the active properties and stores the vectors; the API     *)
(* embeds each query and compares the two.  Every process loads its own    *)
(* encoder when it is first needed, and a load that fails leaves it, until *)
(* it ends, with a hash in the place of the model.                         *)
(*                                                                         *)
(* A vector is what made it: its encoder, and for a property the version   *)
(* of the row its text was taken from.  Nothing in src edits properties or *)
(* the environment: others do.                                             *)
(***************************************************************************)
EXTENDS Naturals, FiniteSets

CONSTANTS
    Threads,        \* worker threads of the API
    Batches,        \* runs of the batch that may overlap
    Properties,
    Models,         \* values of ME5_MODEL_NAME
    Dimension,      \* [a model -> the length of its vectors]
    None,
    MaxChanges      \* bound on the changes of properties and of ME5_MODEL_NAME

Fallback == "fallback"

\* An Embedder: the name it was given, and whether its vectors are the model's
\* or the hash's.
Embedders == {e \in [model_name : Models, space : Models \cup {Fallback}] :
                 e.space \in {e.model_name, Fallback}}

ASSUME EmbeddingConstants ==
    /\ Fallback \notin Models
    /\ None \notin Threads /\ None \notin Models /\ None \notin Embedders
    /\ Dimension \in [Models -> Nat \ {0}]
    /\ \A m \in Models : Dimension[m] # 128
    /\ MaxChanges \in Nat

VARIABLES
    ME5_MODEL_NAME,         \* for the processes that start from now on
    renames,                \* its changes so far (for the bound)
    env,                    \* its value in the API
    _embedder,              \* the API's global; a batch has one of its own
    _embedder_lock,         \* its holder, or None
    threads,                \* local state of each thread
    batches,                \* local state of each batch
    properties,             \* [is_active, version]: which change was its latest
    edits,                  \* changes of properties so far
    property_embeddings,    \* committed rows, by property
    overtaken               \* the latest commit was of rows read before another's
                            \* commit (no variable of the program)

config == <<ME5_MODEL_NAME, renames>>
api == <<env, _embedder, _embedder_lock, threads>>
store == <<properties, edits, property_embeddings, overtaken>>
vars == <<config, api, batches, store>>

NoThread == [pc |-> "idle", vector |-> None, scores |-> [p \in {} |-> None]]

NoBatch == [pc |-> "idle", model_name |-> None, rows |-> [p \in {} |-> 0], stale |-> FALSE]

Init ==
    /\ ME5_MODEL_NAME \in Models
    /\ renames = 0
    /\ env = ME5_MODEL_NAME
    /\ _embedder = None
    /\ _embedder_lock = None
    /\ threads = [t \in Threads |-> NoThread]
    /\ batches = [b \in Batches |-> NoBatch]
    /\ properties = [p \in Properties |-> [is_active |-> TRUE, version |-> 0]]
    /\ edits = 0
    /\ property_embeddings = [p \in {} |-> None]
    /\ overtaken = FALSE
-----------------------------------------------------------------------------
\* A fault: the name is set after the load, in the try.
LoadedUnnamed(name) ==
    {[model_name |-> name, space |-> name], [model_name |-> None, space |-> Fallback]}

\* What Embedder(model_name) may turn out to be: the model, or, after any
\* exception, the hash.  It keeps the name either way.
Loaded(name) == {[model_name |-> name, space |-> s] : s \in {name, Fallback}}

Length(space) == IF space = Fallback THEN 128 ELSE Dimension[space]

\* A fault: zip() in the place of the comparison of lengths.
CosineUnchecked(query, document) == <<query, document>>

\* cosine_similarity: vectors of different lengths score 0.0, which is None here.
Cosine(query, document) ==
    IF Length(query.space) = Length(document.space) THEN <<query, document>> ELSE None

\* A property scores 0.0 without a query vector and without a row of its own.
Scored(vector) ==
    [p \in Properties |->
        IF vector = None \/ p \notin DOMAIN property_embeddings THEN None
        ELSE Cosine(vector, property_embeddings[p].embedder)]
-----------------------------------------------------------------------------
At(t, phase) == threads[t].pc = phase

Goto(t, phase) == threads' = [threads EXCEPT ![t].pc = phase]

Encoded(t, e) == threads' = [threads EXCEPT ![t].pc = "rerank", ![t].vector = e]

\* A search for no text has no vector.  For others, get_embedder tests outside
\* the lock whether there is an encoder, and encode calls it.
Search(t) ==
    /\ At(t, "idle")
    /\ \/ Goto(t, "rerank")
       \/ _embedder = None /\ Goto(t, "lock")
       \/ _embedder # None /\ Encoded(t, _embedder)
    /\ UNCHANGED <<config, env, _embedder, _embedder_lock, batches, store>>

\* A fault: the test is not repeated under the lock.
LockEmbedderOnly(t) ==
    /\ At(t, "lock") /\ _embedder_lock = None
    /\ Goto(t, "load") /\ _embedder_lock' = t
    /\ UNCHANGED <<config, env, _embedder, batches, store>>

\* The test under the lock,
LockEmbedder(t) ==
    /\ At(t, "lock") /\ _embedder_lock = None
    /\ IF _embedder # None
       THEN Encoded(t, _embedder) /\ UNCHANGED _embedder_lock
       ELSE Goto(t, "load") /\ _embedder_lock' = t
    /\ UNCHANGED <<config, env, _embedder, batches, store>>

\* A fault: a load that fails raises, with the lock acquired by hand.
LoadEmbedderKept(t) ==
    /\ At(t, "load")
    /\ \E e \in Loaded(env) :
          IF e.space = Fallback
          THEN Goto(t, "idle") /\ UNCHANGED <<_embedder, _embedder_lock>>
          ELSE _embedder' = e /\ _embedder_lock' = None /\ Encoded(t, e)
    /\ UNCHANGED <<config, env, batches, store>>

\* and the load, which never raises.
LoadEmbedder(t) ==
    /\ At(t, "load")
    /\ \E e \in Loaded(env) : _embedder' = e /\ Encoded(t, e)
    /\ _embedder_lock' = None
    /\ UNCHANGED <<config, env, batches, store>>

\* One SELECT fetches the vectors of all candidates (here, of all properties).
Rerank(t) ==
    /\ At(t, "rerank")
    /\ threads' = [threads EXCEPT ![t].pc = "scored", ![t].scores = Scored(threads[t].vector)]
    /\ UNCHANGED <<config, env, _embedder, _embedder_lock, batches, store>>

\* The search goes on with its scores, or the encoding or the SELECT raises.
Finish(t) ==
    /\ threads[t].pc \in {"rerank", "scored"}
    /\ threads' = [threads EXCEPT ![t] = NoThread]
    /\ UNCHANGED <<config, env, _embedder, _embedder_lock, batches, store>>

\* The API dies and is started again.
Restart ==
    /\ env' = ME5_MODEL_NAME
    /\ _embedder' = None
    /\ _embedder_lock' = None
    /\ threads' = [t \in Threads |-> NoThread]
    /\ UNCHANGED <<config, batches, store>>
-----------------------------------------------------------------------------
\* A process of its own.
StartBatch(b) ==
    /\ batches[b].pc = "idle"
    /\ batches' = [batches EXCEPT ![b].pc = "fetch", ![b].model_name = ME5_MODEL_NAME]
    /\ UNCHANGED <<config, api, store>>

Read(b, found) ==
    /\ batches[b].pc = "fetch"
    /\ batches' = [batches EXCEPT ![b] =
          IF found = {} THEN NoBatch
          ELSE [@ EXCEPT !.pc = "upsert", !.rows = [p \in found |-> properties[p].version]]]
    /\ UNCHANGED <<config, api, store>>

ActiveProperties == {p \in Properties : properties[p].is_active}

\* A fault: only properties that have no vector yet.
FetchNew(b) == Read(b, ActiveProperties \ DOMAIN property_embeddings)

\* fetch_active_properties, whose connection is given back before anything is
\* encoded.  Without an active property there is nothing to do.
FetchActive(b) == Read(b, ActiveProperties)

Wrote(b, written) ==
    /\ batches[b].pc = "upsert"
    /\ \E e \in Loaded(batches[b].model_name) :
          property_embeddings' = [p \in DOMAIN property_embeddings \cup written |->
              IF p \in written THEN [embedder |-> e, version |-> batches[b].rows[p]]
              ELSE property_embeddings[p]]
    /\ overtaken' = batches[b].stale
    /\ batches' = [c \in Batches |->
          IF c = b THEN NoBatch
          ELSE [batches[c] EXCEPT !.stale = batches[c].pc = "upsert"]]
    /\ UNCHANGED <<config, api, properties, edits>>

\* A fault: a commit after each record, and an end among them.
UpsertSome(b) == \E written \in SUBSET DOMAIN batches[b].rows : Wrote(b, written)

\* The records, encoded by whatever the process has loaded, are one transaction.
Upsert(b) == Wrote(b, DOMAIN batches[b].rows)

\* A batch raises or dies before its commit.
FailBatch(b) ==
    /\ batches[b].pc # "idle"
    /\ batches' = [batches EXCEPT ![b] = NoBatch]
    /\ UNCHANGED <<config, api, store>>
-----------------------------------------------------------------------------
\* External: a property is edited, taken off the market or put on it again.
Edit(p) ==
    /\ edits + renames < MaxChanges
    /\ edits' = edits + 1
    /\ \E active \in BOOLEAN :
          properties' = [properties EXCEPT ![p] = [is_active |-> active, version |-> edits + 1]]
    /\ UNCHANGED <<config, api, batches, property_embeddings, overtaken>>

\* External: another model is configured.
Rename ==
    /\ edits + renames < MaxChanges
    /\ renames' = renames + 1
    /\ ME5_MODEL_NAME' \in Models \ {ME5_MODEL_NAME}
    /\ UNCHANGED <<api, batches, store>>
-----------------------------------------------------------------------------
Go(t) == LockEmbedder(t) \/ LoadEmbedder(t) \/ Rerank(t) \/ Finish(t)

Next ==
    \/ \E t \in Threads : Search(t) \/ Go(t)
    \/ \E b \in Batches : StartBatch(b) \/ FetchActive(b) \/ Upsert(b) \/ FailBatch(b)
    \/ \E p \in Properties : Edit(p)
    \/ Rename \/ Restart

Spec == Init /\ [][Next]_vars

\* Threads run.  The batch is run again and again (docs: daily), and a step that
\* it comes to again and again succeeds some time.
Fairness ==
    /\ \A t \in Threads : WF_vars(Go(t))
    /\ \A b \in Batches :
          WF_vars(StartBatch(b)) /\ SF_vars(FetchActive(b)) /\ SF_vars(Upsert(b))

FairSpec == Spec /\ Fairness
-----------------------------------------------------------------------------
ThreadStates ==
    [pc : {"idle", "lock", "load", "rerank", "scored"},
     vector : Embedders \cup {None},
     scores : [{} -> {}] \cup [Properties -> (Embedders \X Embedders) \cup {None}]]

BatchStates ==
    {s \in [pc : {"idle", "fetch", "upsert"},
            model_name : Models \cup {None},
            rows : UNION {[ps -> 0 .. edits] : ps \in SUBSET Properties},
            stale : BOOLEAN] : s.pc # "idle" => s.model_name # None}

TypeOK ==
    /\ ME5_MODEL_NAME \in Models /\ env \in Models
    /\ renames \in Nat /\ edits \in Nat /\ renames + edits <= MaxChanges
    /\ _embedder \in Embedders \cup {None}
    /\ _embedder_lock \in Threads \cup {None}
    /\ threads \in [Threads -> ThreadStates]
    /\ batches \in [Batches -> BatchStates]
    /\ properties \in [Properties -> [is_active : BOOLEAN, version : 0 .. edits]]
    /\ property_embeddings \in
          UNION {[ps -> [embedder : Embedders, version : 0 .. edits]] : ps \in SUBSET Properties}
    /\ overtaken \in BOOLEAN

\* Whatever threads ask first at once, and whatever their loads come to, all
\* queries of an API process are embedded by one encoder (get_embedder).
OneEmbedder ==
    \A t \in Threads :
        threads[t].vector # None => threads[t].vector = _embedder

\* A score other than 0.0 compares vectors of one space as long as the row's
\* model_name is the API's: the docstring's mixing of hash and model ends at 0.0.
\* (The code does not look at model_name: after a change of ME5_MODEL_NAME to
\* a model of the same dimension, scores do compare different models.)
ScoresOfOneSpace ==
    \A t \in Threads : \A p \in DOMAIN threads[t].scores :
        LET score == threads[t].scores[p] IN
        score # None => \/ score[1].space = score[2].space
                        \/ score[1].model_name # score[2].model_name

\* The stored vectors that know of a change of properties know of every earlier
\* change of a property that is active: a batch reads them all at once and
\* stores all or none.  Only a run that overlaps another's can break this,
\* and the next one that does not repairs it.
StoredTogether ==
    overtaken \/ \A p, q \in Properties :
        /\ properties[p].is_active
        /\ q \in DOMAIN property_embeddings
        /\ properties[p].version < property_embeddings[q].version
        => /\ p \in DOMAIN property_embeddings
           /\ property_embeddings[p].version = properties[p].version

\* Every search ends, however the load of the model does.
SearchesEnd == \A t \in Threads : ~At(t, "idle") ~> At(t, "idle")

\* Once properties and configuration rest, the active ones have vectors of
\* their present text under the present name, whatever runs overlapped or failed.
EmbeddingsCatchUp ==
    <>[] \A p \in ActiveProperties :
            /\ p \in DOMAIN property_embeddings
            /\ property_embeddings[p].version = properties[p].version
            /\ property_embeddings[p].embedder.model_name = ME5_MODEL_NAME
=============================================================================
