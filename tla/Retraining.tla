----------------------------- MODULE Retraining -----------------------------
(***************************************************************************)
(* From logs to model: the weekly retraining, which the latest adoption    *)
(* decision permits, and its two halves, which are also commands of their  *)
(* own: build the training file, and train on whatever file there is.      *)
(* Searches, feedback, the daily job and new decisions go on meanwhile.    *)
(* The file is truncated and written in pieces, so a killed job leaves a   *)
(* part of it for the next one.  One of the commands runs at a time.       *)
(***************************************************************************)
EXTENDS RankMetrics

CONSTANTS
    HitSets,        \* sets of properties that a search may find
    MaxLogs         \* bound

ASSUME RetrainingConstants == MaxLogs \in Nat /\ None \notin Nat

VARIABLES
    search_logs,        \* rows by id
    property_features,  \* properties that have a row
    adopt_lgbm,         \* of the latest decision, None without one
    train_csv,          \* complete rows in the file, None before there is one
    model,              \* what the model was trained on, None before there is one
    retrain             \* local state of the job

inputs == <<search_logs, property_features, adopt_lgbm>>
vars == <<inputs, train_csv, model, retrain>>

\* Duplicate-free lists, as SearchServing has results.
Lists == UNION {Injection(1 .. n, Properties) : n \in 0 .. Cardinality(Properties)}

Idle == [pc |-> "idle", by |-> None, rows |-> <<>>, group_sizes |-> <<>>]

Init ==
    /\ search_logs = <<>>
    /\ property_features \in SUBSET Properties
    /\ adopt_lgbm = None
    /\ train_csv = None
    /\ model = None
    /\ retrain = Idle
-----------------------------------------------------------------------------
\* SearchServing commits a search.
Search ==
    /\ Len(search_logs) < MaxLogs
    /\ \E s \in {t \in Lists : Range(t) \in HitSets} :
           search_logs' = Append(search_logs,
               [result_ids |-> s, actioned_id |-> None, action_type |-> None])
    /\ UNCHANGED <<property_features, adopt_lgbm, train_csv, model, retrain>>

\* A feedback labels a log with any property, shown or not.
Feedback(i, p, a) ==
    /\ search_logs' = [search_logs EXCEPT ![i].actioned_id = p, ![i].action_type = a]
    /\ UNCHANGED <<property_features, adopt_lgbm, train_csv, model, retrain>>

\* The daily job adds and removes rows.
DailyFeatures ==
    /\ property_features' \in SUBSET Properties
    /\ UNCHANGED <<search_logs, adopt_lgbm, train_csv, model, retrain>>

\* A weekly evaluation saves its decision.
Decide ==
    /\ adopt_lgbm' \in BOOLEAN
    /\ UNCHANGED <<search_logs, property_features, train_csv, model, retrain>>
-----------------------------------------------------------------------------
\* run_weekly_retrain: skipped without a decision, or if it is against.
Permitted ==
    /\ retrain.pc = "idle"
    /\ adopt_lgbm = TRUE
    /\ retrain' = [Idle EXCEPT !.pc = "fetch", !.by = "weekly"]
    /\ UNCHANGED <<inputs, train_csv, model>>

\* training_dataset_builder.main
Generate ==
    /\ retrain.pc = "idle"
    /\ retrain' = [Idle EXCEPT !.pc = "fetch", !.by = "builder"]
    /\ UNCHANGED <<inputs, train_csv, model>>

\* lgbm_trainer.main
Fit ==
    /\ retrain.pc = "idle"
    /\ retrain' = [Idle EXCEPT !.pc = "load", !.by = "trainer"]
    /\ UNCHANGED <<inputs, train_csv, model>>

\* fetch_training_rows, one statement.
FetchTrainingRows ==
    /\ retrain.pc = "fetch"
    /\ retrain' = [retrain EXCEPT !.pc = "open",
                                  !.rows = TrainingRows(search_logs, property_features)]
    /\ UNCHANGED <<inputs, train_csv, model>>

OpenCsv ==
    /\ retrain.pc = "open"
    /\ train_csv' = <<>>
    /\ retrain' = [retrain EXCEPT !.pc = "write"]
    /\ UNCHANGED <<inputs, model>>

\* A buffer is written out.
FlushRows ==
    /\ retrain.pc = "write"
    /\ \E n \in Len(train_csv) + 1 .. Len(retrain.rows) :
           train_csv' = SubSeq(retrain.rows, 1, n)
    /\ UNCHANGED <<inputs, model, retrain>>

\* The file is complete and closed.
CloseCsv ==
    /\ retrain.pc = "write"
    /\ train_csv = retrain.rows
    /\ retrain' = IF retrain.by = "weekly" THEN [retrain EXCEPT !.pc = "load", !.rows = <<>>]
                  ELSE Idle
    /\ UNCHANGED <<inputs, train_csv, model>>

\* A fault: the rows are only counted.
LoadUnchecked ==
    /\ retrain.pc = "load"
    /\ train_csv # None
    /\ train_csv # <<>>
    /\ retrain' = [retrain EXCEPT !.pc = "save", !.rows = train_csv,
                                  !.group_sizes = GroupSizes(train_csv)]
    /\ UNCHANGED <<inputs, train_csv, model>>

\* load_training_data and the checks after it: no file, no rows or no positive
\* label raises (RetrainEnd), and so does a row that was cut off.
LoadTrainingData ==
    /\ retrain.pc = "load"
    /\ train_csv # None
    /\ PositiveCount(train_csv) > 0
    /\ retrain' = [retrain EXCEPT !.pc = "save", !.rows = train_csv,
                                  !.group_sizes = GroupSizes(train_csv)]
    /\ UNCHANGED <<inputs, train_csv, model>>

\* lgb.train and save_model, with what the metadata file will say.
SaveModel ==
    /\ retrain.pc = "save"
    /\ model' = [rows |-> Len(retrain.rows), queries |-> Len(retrain.group_sizes),
                 positive_rows |-> PositiveCount(retrain.rows)]
    /\ retrain' = Idle
    /\ UNCHANGED <<inputs, train_csv>>

\* It raises or is killed, leaving the file as it is.
RetrainEnd ==
    /\ retrain.pc # "idle"
    /\ retrain' = Idle
    /\ UNCHANGED <<inputs, train_csv, model>>
-----------------------------------------------------------------------------
Next ==
    \/ Search
    \/ \E i \in DOMAIN search_logs, p \in Properties, a \in Actions : Feedback(i, p, a)
    \/ DailyFeatures \/ Decide
    \/ Permitted \/ Generate \/ Fit
    \/ FetchTrainingRows \/ OpenCsv \/ FlushRows \/ CloseCsv
    \/ LoadTrainingData \/ SaveModel \/ RetrainEnd

Spec == Init /\ [][Next]_vars
-----------------------------------------------------------------------------
Rows == [search_log_id : 1 .. MaxLogs, property_id : Properties, label : 0 .. 3]

TypeOK ==
    /\ search_logs \in Seq([result_ids : Lists, actioned_id : Properties \cup {None},
                            action_type : Actions \cup {None}])
    /\ Len(search_logs) <= MaxLogs
    /\ property_features \subseteq Properties
    /\ adopt_lgbm \in BOOLEAN \cup {None}
    /\ train_csv = None \/ train_csv \in Seq(Rows)
    /\ model = None \/ model \in [rows : Nat \ {0}, queries : 1 .. LogLimit,
                                  positive_rows : 1 .. LogLimit]
    /\ retrain.pc \in {"idle", "fetch", "open", "write", "load", "save"}
    /\ retrain.by \in {None, "weekly", "builder", "trainer"}
    /\ retrain.rows \in Seq(Rows)
    /\ retrain.group_sizes \in Seq(Nat \ {0})

\* LightGBM cuts the rows into groups by their sizes alone.  Each group is all
\* the rows of one search and nothing else, for the first search and the last
\* one too, and even if a killed job has left only a part of the file.
GroupOf(i) ==
    Cardinality({g \in DOMAIN retrain.group_sizes :
                    Sum([h \in 1 .. g |-> retrain.group_sizes[h]]) < i})

GroupsMatchLogs ==
    retrain.pc = "save" =>
        /\ Sum(retrain.group_sizes) = Len(retrain.rows)
        /\ \A i, j \in DOMAIN retrain.rows :
               GroupOf(i) = GroupOf(j) <=>
               retrain.rows[i].search_log_id = retrain.rows[j].search_log_id

\* The training file gives a search one positive row at most, for a result that
\* it had, and none to a search that has no label: whatever has been searched,
\* labelled anew, or lost its features since the rows were fetched.
LabelsReachTraining ==
    \A rows \in {retrain.rows, IF train_csv = None THEN <<>> ELSE train_csv} :
        \A i \in DOMAIN rows :
            LET id == rows[i].search_log_id IN
            /\ rows[i].property_id \in Range(search_logs[id].result_ids)
            /\ rows[i].label > 0 =>
                   /\ search_logs[id].actioned_id # None
                   /\ \A j \in DOMAIN rows \ {i} :
                          rows[j].search_log_id = id => rows[j].label = 0

\* No step replaces the model by one that has learned from no choice of a user,
\* or from more searches than were logged.
ModelLearned ==
    [][model' # model =>
           /\ model'.positive_rows \in 1 .. model'.queries
           /\ model'.queries <= model'.rows
           /\ model'.queries <=
                  Cardinality({i \in DOMAIN search_logs : search_logs[i].result_ids # <<>>})]_vars
=============================================================================
