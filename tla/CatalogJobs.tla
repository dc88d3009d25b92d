---------------------------- MODULE CatalogJobs ----------------------------
(***************************************************************************)
(* The jobs that carry the table properties to where searches look: the    *)
(* sync writes active rows to Meilisearch, the daily job derives           *)
(* property_features and removes inactive documents.  Meanwhile the API     *)
(* changes property_stats and an operator edits properties; no job notices *)
(* either.                                                                 *)
(*                                                                         *)
(* A step is one statement, one commit or one request.  The daily job's    *)
(* statements run under READ COMMITTED: each sees what was committed when  *)
(* it began, and the rows of property_stats it has updated stay locked     *)
(* until it commits.                                                       *)
(***************************************************************************)
EXTENDS MeiliTasks, StatsTable

CONSTANTS MaxEdits, MaxImpressions

ASSUME CatalogConstants ==
    /\ {"sync", "daily"} \subseteq Clients
    /\ None \notin Clients \cup {"success"}
    /\ MaxTasks \in Nat /\ MaxEdits \in Nat

VARIABLES
    properties,             \* [Properties -> activity and columns]
    edits,                  \* edits so far, to bound them
    property_stats,         \* committed rows (see StatsTable)
    property_features,      \* committed rows
    batch_job_logs,         \* status of the latest daily run, None before
    sync, daily,            \* local state of the jobs
    edited                  \* properties edited since the daily job last read
                            \* them into features (no variable of the program)

tables == <<property_stats, property_features, batch_job_logs>>
catalog == <<properties, edits, edited>>
vars == <<meili, tables, catalog, sync, daily>>

\* Features: the columns copied from the property and the rates, which stand
\* for popularity_score as well; me5_score is left out.
Features == [content : Contents, rate : [Actions -> Nat \X (Nat \ {0})]]

IsFeatureTable(f) == DOMAIN f \subseteq Properties /\ f \in [DOMAIN f -> Features]

NoFeatures == [p \in {} |-> None]

SyncPhases == {"idle", "create", "create_wait", "settings", "settings_wait",
               "fetch", "add", "add_wait", "done"}
DailyPhases == {"idle", "recalculate", "upsert", "remove", "commit", "select",
                "delete", "delete_wait", "finish", "failed"}

NoSync == [pc |-> "idle", documents |-> NoDocuments]

NoDaily == [pc |-> "idle", recalculated |-> {}, features |-> NoFeatures, ids |-> {}]

Init ==
    /\ MeiliInit
    /\ properties \in [Properties -> [is_active : BOOLEAN, content : Contents]]
    /\ edits = 0
    /\ property_stats = [p \in {} |-> NoStats]
    /\ property_features = NoFeatures
    /\ batch_job_logs = None
    /\ sync = NoSync
    /\ daily = NoDaily
    /\ edited = {}

Active == {p \in Properties : properties[p].is_active}

\* A fault: the query does not ask for active rows.
FetchEverything == [p \in Properties |-> properties[p].content]

\* fetch_properties: the active rows, as they are now.
FetchActive == [p \in Active |-> properties[p].content]
-----------------------------------------------------------------------------
\* An operator lists, delists or changes a property (no code here does).
Edit(p) ==
    /\ edits < MaxEdits
    /\ edits' = edits + 1
    /\ \E row \in [is_active : BOOLEAN, content : Contents] \ {properties[p]} :
           properties' = [properties EXCEPT ![p] = row]
    /\ edited' = edited \cup {p}
    /\ UNCHANGED <<meili, tables, sync, daily>>

\* A fault: a commit of its own after the first statement.
LockedByStatement == {}

\* Rows of property_stats that the daily job has updated and not committed.
Locked == IF daily.pc \in {"upsert", "remove", "commit"} THEN daily.recalculated ELSE {}

\* A search or a feedback commits (SearchServing says how); it waits for the
\* rows that the daily job holds.  (No more actions than impressions, and no
\* more impressions than MaxImpressions: bounds.)
Serve(p) ==
    /\ p \notin Locked
    /\ LET row == RowOf(property_stats, p) IN
       \/ /\ row.impression < MaxImpressions
          /\ property_stats' = Impress(property_stats, {p})
       \/ \E a \in Actions :
              /\ row.count[a] < row.impression
              /\ property_stats' = Act(property_stats, p, a)
    /\ UNCHANGED <<meili, catalog, property_features, batch_job_logs, sync, daily>>
-----------------------------------------------------------------------------
\* sync_properties_to_meilisearch.main
SyncGoto(phase) == sync' = [sync EXCEPT !.pc = phase]

SyncBegin ==
    /\ sync.pc = "idle"
    /\ SyncGoto(IF index_exists THEN "settings" ELSE "create")
    /\ UNCHANGED <<meili, tables, catalog, daily>>

SyncRequest(op, docs, next) ==
    /\ sync.pc = op
    /\ \/ Submit("sync", op, docs) /\ SyncGoto(next)
       \/ SubmitLost("sync", op, docs) /\ sync' = NoSync
    /\ UNCHANGED <<tables, catalog, daily>>

SyncWaited(phase, next) ==
    /\ sync.pc = phase
    /\ Succeeded("sync")
    /\ SyncGoto(next)
    /\ UNCHANGED <<meili, tables, catalog, daily>>

\* An empty list is not sent.
SyncFetch ==
    /\ sync.pc = "fetch"
    /\ sync' = [pc |-> IF FetchActive = NoDocuments THEN "done" ELSE "add",
                documents |-> FetchActive]
    /\ UNCHANGED <<meili, tables, catalog, daily>>

\* It has reported success, or has raised or been killed.
SyncEnd ==
    /\ sync.pc # "idle"
    /\ Forget("sync")
    /\ sync' = NoSync
    /\ UNCHANGED <<tables, catalog, daily>>

Sync ==
    \/ SyncRequest("create", NoDocuments, "create_wait")
    \/ SyncWaited("create_wait", "settings")
    \/ SyncRequest("settings", NoDocuments, "settings_wait")
    \/ SyncWaited("settings_wait", "fetch")
    \/ SyncFetch
    \/ SyncRequest("add", sync.documents, "add_wait")
    \/ SyncWaited("add_wait", "done")
    \/ SyncEnd
-----------------------------------------------------------------------------
\* run_daily_jobs
DailyGoto(phase) == daily' = [daily EXCEPT !.pc = phase]

DailyBegin ==
    /\ daily.pc = "idle"
    /\ batch_job_logs' = "running"
    /\ DailyGoto("recalculate")
    /\ UNCHANGED <<meili, catalog, property_stats, property_features, sync>>

\* recalculate_property_stats: every row there is.
Recalculate ==
    /\ daily.pc = "recalculate"
    /\ daily' = [daily EXCEPT !.pc = "upsert", !.recalculated = DOMAIN property_stats]
    /\ UNCHANGED <<meili, tables, catalog, sync>>

\* property_stats as the job's transaction sees it.
StatsSeen ==
    [p \in DOMAIN property_stats |->
        IF p \in daily.recalculated THEN RecalculatedRow(property_stats[p]) ELSE property_stats[p]]

\* Faults: a row that is there is kept; a missing row of stats gives NULLs.
UpsertedOnce ==
    [p \in DOMAIN property_features \cup Active |->
        IF p \in DOMAIN property_features THEN property_features[p]
        ELSE [content |-> properties[p].content, rate |-> RowOf(StatsSeen, p).rate]]

UpsertedNull ==
    [p \in DOMAIN property_features \cup Active |->
        IF p \in Active
        THEN [content |-> properties[p].content,
              rate |-> IF p \in DOMAIN StatsSeen THEN StatsSeen[p].rate ELSE None]
        ELSE property_features[p]]

\* A row for every active property, its rates 0 where property_stats has none.
Upserted ==
    [p \in DOMAIN property_features \cup Active |->
        IF p \in Active
        THEN [content |-> properties[p].content, rate |-> RowOf(StatsSeen, p).rate]
        ELSE property_features[p]]

\* upsert_property_features
UpsertFeatures ==
    /\ daily.pc = "upsert"
    /\ daily' = [daily EXCEPT !.pc = "remove", !.features = Upserted]
    /\ edited' = {}
    /\ UNCHANGED <<meili, tables, properties, edits, sync>>

\* remove_inactive_features
RemoveFeatures ==
    /\ daily.pc = "remove"
    /\ daily' = [daily EXCEPT !.pc = "commit",
                              !.features = Restrict(@, DOMAIN @ \cap Active)]
    /\ UNCHANGED <<meili, tables, catalog, sync>>

CommitFeatures ==
    /\ daily.pc = "commit"
    /\ property_stats' = StatsSeen
    /\ property_features' = daily.features
    /\ daily' = [NoDaily EXCEPT !.pc = "select"]
    /\ UNCHANGED <<meili, catalog, batch_job_logs, sync>>

\* cleanup_inactive_from_meili, on a connection of its own.
SelectInactive ==
    /\ daily.pc = "select"
    /\ daily' = [daily EXCEPT !.pc = IF Active = Properties THEN "finish" ELSE "delete",
                              !.ids = Properties \ Active]
    /\ UNCHANGED <<meili, tables, catalog, sync>>

DeleteInactive ==
    /\ daily.pc = "delete"
    /\ LET docs == [p \in daily.ids |-> None] IN
       \/ Submit("daily", "delete", docs) /\ DailyGoto("delete_wait")
       \/ SubmitLost("daily", "delete", docs) /\ daily' = [NoDaily EXCEPT !.pc = "failed"]
    /\ UNCHANGED <<tables, catalog, sync>>

DeleteWaited ==
    /\ daily.pc = "delete_wait"
    /\ Succeeded("daily")
    /\ DailyGoto("finish")
    /\ UNCHANGED <<meili, tables, catalog, sync>>

\* A statement, a commit or a request raises, or the process is killed: what
\* it had not committed is rolled back, and it may be that a commit was done
\* and only its acknowledgement lost.  A run that raises goes on to log that it
\* has failed, unless that fails as well.
DailyRaise ==
    /\ daily.pc # "idle"
    /\ \/ UNCHANGED <<property_stats, property_features, batch_job_logs>>
       \/ /\ daily.pc = "commit"
          /\ property_stats' = StatsSeen
          /\ property_features' = daily.features
          /\ UNCHANGED batch_job_logs
       \/ /\ daily.pc = "finish"
          /\ batch_job_logs' = "success"
          /\ UNCHANGED <<property_stats, property_features>>
    /\ Forget("daily")
    /\ \E phase \in {"failed", "idle"} \ {daily.pc} : daily' = [NoDaily EXCEPT !.pc = phase]
    /\ UNCHANGED <<catalog, sync>>

\* A fault: a run that has raised is logged like any other.
DailyFinishAlways ==
    /\ daily.pc \in {"finish", "failed"}
    /\ batch_job_logs' = "success"
    /\ Forget("daily")
    /\ daily' = NoDaily
    /\ UNCHANGED <<catalog, property_stats, property_features, sync>>

\* finish_log, and the commit after it.
DailyFinish ==
    /\ daily.pc \in {"finish", "failed"}
    /\ batch_job_logs' = IF daily.pc = "finish" THEN "success" ELSE "failed"
    /\ Forget("daily")
    /\ daily' = NoDaily
    /\ UNCHANGED <<catalog, property_stats, property_features, sync>>

Daily ==
    \/ Recalculate \/ UpsertFeatures \/ RemoveFeatures \/ CommitFeatures
    \/ SelectInactive \/ DeleteInactive \/ DeleteWaited
    \/ DailyRaise \/ DailyFinish
-----------------------------------------------------------------------------
Meilisearch ==
    /\ ProcessTask
    /\ UNCHANGED <<tables, catalog, sync, daily>>

Next ==
    \/ \E p \in Properties : Edit(p) \/ Serve(p)
    \/ SyncBegin \/ Sync
    \/ DailyBegin \/ Daily
    \/ Meilisearch

Spec == Init /\ [][Next]_vars

\* A job that has begun goes on, or ends: requests and polls have timeouts.
\* Meilisearch works its queue off.
FairSpec ==
    Spec /\ WF_vars(Sync) /\ WF_vars(Daily) /\ WF_vars(Meilisearch)
-----------------------------------------------------------------------------
TypeOK ==
    /\ MeiliTypeOK
    /\ properties \in [Properties -> [is_active : BOOLEAN, content : Contents]]
    /\ edits \in 0 .. MaxEdits
    /\ DOMAIN property_stats \subseteq Properties
    /\ property_stats \in [DOMAIN property_stats -> StatsRows]
    /\ IsFeatureTable(property_features)
    /\ batch_job_logs \in {None, "running", "success", "failed"}
    /\ sync \in [pc : SyncPhases, documents : Documents]
    /\ daily = [pc |-> daily.pc, recalculated |-> daily.recalculated,
                features |-> daily.features, ids |-> daily.ids]
    /\ daily.pc \in DailyPhases
    /\ daily.recalculated \subseteq DOMAIN property_stats
    /\ daily.ids \subseteq Properties
    /\ IsFeatureTable(daily.features)
    /\ edited \subseteq Properties

\* A job that reports success has changed the index as it meant to: what it
\* wrote or deleted is there or gone, but for the properties that a task
\* enqueued behind its own is about.  A task of a client that gave up is no
\* excuse when it was in the queue already: it must have come first.
\* _wait_for_task owes this to its polling and to the order of the queue.
JobsAwaited ==
    /\ sync.pc = "done" =>
           \A p \in DOMAIN sync.documents \ touched["sync"] :
               p \in DOMAIN index /\ index[p] = sync.documents[p]
    /\ daily.pc = "finish" =>
           \A p \in daily.ids \ touched["daily"] : p \notin DOMAIN index

\* The three statements of the daily job see three snapshots; yet what it is
\* about to commit as rates are the rates property_stats will have at that
\* moment, because the first statement locks the rows the second one reads.
\* Rows created in between, and properties edited, are excepted.
RatesHeld ==
    daily.pc = "commit" =>
        \A p \in (DOMAIN daily.features \cap daily.recalculated) \ edited :
            daily.features[p].rate = StatsSeen[p].rate

\* When the latest run is logged as a success, property_features has exactly the
\* active properties, with their columns, but for those edited since the run
\* read them.  A failure logged as a success, a rollback too many or a row left
\* behind by an earlier run would break it.
SuccessMeansFeatures ==
    batch_job_logs = "success" =>
        \A p \in Properties \ edited :
            /\ p \in DOMAIN property_features <=> properties[p].is_active
            /\ p \in DOMAIN property_features =>
                   property_features[p].content = properties[p].content

\* Jobs that keep succeeding repair what overlapping edits, stale reads, given
\* up tasks and killed runs have left behind.  (Edits are finite: MaxEdits.)
IndexCurrent ==
    \A p \in Properties :
        IF properties[p].is_active
        THEN p \in DOMAIN index /\ index[p] = properties[p].content
        ELSE p \notin DOMAIN index

\* The index comes to hold exactly the active rows, and stays so, if the sync
\* and the daily job succeed again and again.
IndexConverges ==
    ([]<>(sync.pc = "done") /\ []<>(daily.pc = "finish")) => <>[]IndexCurrent

\* property_features comes to hold exactly the active rows with the current
\* rates if the daily job succeeds again and again and serving comes to rest
\* (MaxImpressions): rates that go on changing are only followed.
FeaturesCurrent ==
    /\ DOMAIN property_features = Active
    /\ \A p \in Active :
           property_features[p] = [content |-> properties[p].content,
                                   rate |-> RowOf(property_stats, p).rate]

FeaturesConverge == []<>(daily.pc = "finish") => <>[]FeaturesCurrent
=============================================================================
