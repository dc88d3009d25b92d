---------------------------- MODULE RankMetrics ----------------------------
(***************************************************************************)
(* What the evaluation and training jobs compute from the logs: the        *)
(* offline metrics of both rankings, the KPI counts, the decision, the     *)
(* training rows with their labels, and the group sizes that LightGBM      *)
(* needs.  Floats are millionths: every metric is rounded to six digits    *)
(* before it is stored or compared.                                        *)
(*                                                                         *)
(* A log is a row of search_logs.                                          *)
(***************************************************************************)
EXTENDS Integers, Sequences, FiniteSets, Functions, SequencesExt

CONSTANTS
    Properties,
    Actions,        \* kinds of feedback that occur
    None,
    NdcgCut,        \* 10 in the code, but for the length of lists checked
    RecallCut,      \* 20
    LogLimit,       \* 5000
    MinQueries,     \* PHASE6_MIN_EVAL_QUERIES, 10 by default
    MinNdcgGain,    \* PHASE6_MIN_NDCG_GAIN in millionths, 20000 by default
    MinMapGain      \* PHASE6_MIN_MAP_GAIN in millionths, 10000 by default

ASSUME MetricConstants ==
    /\ NdcgCut \in 1 .. 10 /\ RecallCut \in Nat \ {0} /\ NdcgCut <= RecallCut
    /\ LogLimit \in Nat \ {0} /\ MinQueries \in Nat
    /\ MinNdcgGain \in Int /\ MinMapGain \in Int
    /\ Actions \subseteq {"click", "favorite", "inquiry"}
    /\ None \notin {"click", "favorite", "inquiry"}
    /\ IsFiniteSet(Properties) /\ None \notin Properties

Million == 1000000

ActionTypes == {"click", "favorite", "inquiry"}

\* A fault: the sum is not divided.
MeanSummed(sum, n) == sum

\* round(sum / n, 6) of a sum of millionths.
Mean(sum, n) == (2 * sum + n) \div (2 * n)

Sum(f) == SumFunction(f)

\* ORDER BY id DESC LIMIT n.
Newest(ids, n) == {i \in ids : Cardinality({j \in ids : j > i}) < n}
-----------------------------------------------------------------------------
\* The position of target among the first k ids, 0 for None.
FindRank(ids, target, k) ==
    LET found == {i \in DOMAIN ids : i <= k /\ ids[i] = target}
    IN  IF found = {} THEN 0 ELSE CHOOSE i \in found : \A j \in found : i <= j

\* 1 / log2(rank + 1).  The gain of the action is in the DCG and in the ideal
\* DCG, and cancels.
Discount == <<1000000, 630930, 500000, 430677, 386853,
              356207, 333333, 315465, 301030, 289065>>

Ndcg(rank) == IF rank = 0 THEN 0 ELSE Discount[rank]

AvgPrecision(rank) == IF rank = 0 THEN 0 ELSE Million \div rank

Recall(rank) == IF rank = 0 THEN 0 ELSE Million

MetricNames == {"ndcg10", "map", "recall20"}

\* The three metrics of one ranking of one query.
MetricsOf(ids, target) ==
    [m \in MetricNames |->
        CASE m = "ndcg10"   -> Ndcg(FindRank(ids, target, NdcgCut))
          [] m = "map"      -> AvgPrecision(FindRank(ids, target, RecallCut))
          [] m = "recall20" -> Recall(FindRank(ids, target, RecallCut))]

\* A comparison joined with its log: is there a label?  (A feedback sets
\* actioned_id and action_type.)
Evaluated(row) == row.action_type # None

\* compute_offline_metrics, of the joined rows in the order of the comparisons'
\* ids: averages over the newest, 0 without any.
OfflineMetrics(rows) ==
    LET recent == Newest({i \in DOMAIN rows : Evaluated(rows[i])}, LogLimit)
        average(value) == IF recent = {} THEN 0 ELSE Mean(Sum(value), Cardinality(recent))
    IN  [evaluated_queries |-> Cardinality(recent),
         meili |-> [m \in MetricNames |->
                       average([i \in recent |->
                           MetricsOf(rows[i].meili_ids, rows[i].actioned_id)[m]])],
         lgbm  |-> [m \in MetricNames |->
                       average([i \in recent |->
                           MetricsOf(rows[i].reranked_ids, rows[i].actioned_id)[m]])]]
-----------------------------------------------------------------------------
\* The aggregate of one day's logs, by their latest action.
KpiCounts(logs, day) ==
    LET ids == {i \in DOMAIN logs : logs[i].day = day}
    IN  [impressions |-> Sum([i \in ids |-> Len(logs[i].result_ids)]),
         actions |-> [a \in ActionTypes |-> Cardinality({i \in ids : logs[i].action_type = a})]]

\* A rate of compute_kpi_metrics.
KpiRate(count, of) == IF of > 0 THEN Mean(count * Million, of) ELSE 0

\* compute_kpi_metrics: ctr, favorite_rate and inquiry_rate, and cvr.
KpiRates(counts) ==
    [rate |-> [a \in ActionTypes |-> KpiRate(counts.actions[a], counts.impressions)],
     cvr  |-> KpiRate(counts.actions["inquiry"], counts.actions["click"])]

\* The columns of kpi_daily_stats.
KpiRow(counts) == [counts |-> counts, rates |-> KpiRates(counts)]

\* summarize_weekly_kpi: sums over the stored days, rates of the sums.
WeeklySummary(rows) ==
    LET counts ==
            [impressions |-> Sum([d \in DOMAIN rows |-> rows[d].counts.impressions]),
             actions |-> [a \in ActionTypes |->
                             Sum([d \in DOMAIN rows |-> rows[d].counts.actions[a]])]]
    IN  [days |-> Cardinality(DOMAIN rows), kpi |-> KpiRow(counts)]
-----------------------------------------------------------------------------
\* A fault: the rankings change places.
AdoptsSwapped(offline, weekly) ==
    /\ offline.evaluated_queries >= MinQueries
    /\ offline.meili["ndcg10"] - offline.lgbm["ndcg10"] >= MinNdcgGain
    /\ offline.meili["map"] - offline.lgbm["map"] >= MinMapGain
    /\ weekly.kpi.counts.impressions # 0

\* evaluate_adoption: no reason against.
Adopts(offline, weekly) ==
    /\ offline.evaluated_queries >= MinQueries
    /\ offline.lgbm["ndcg10"] - offline.meili["ndcg10"] >= MinNdcgGain
    /\ offline.lgbm["map"] - offline.meili["map"] >= MinMapGain
    /\ offline.lgbm["recall20"] >= offline.meili["recall20"]
    /\ weekly.kpi.counts.impressions # 0
-----------------------------------------------------------------------------
Grade == [click |-> 1, favorite |-> 2, inquiry |-> 3]

\* A fault: the property of the action is not compared.
LabelOfLog(log, p) == IF log.action_type # None THEN Grade[log.action_type] ELSE 0

\* The CASE of the training query.
Label(log, p) == IF log.actioned_id = p THEN Grade[log.action_type] ELSE 0

\* The training query's rows of the log with this id: one for each of its
\* results that has features.
RowsOfLog(log, id, features) ==
    FlattenSeq([n \in DOMAIN log.result_ids |->
        LET p == log.result_ids[n]
        IN  IF p \in features
            THEN <<[search_log_id |-> id, property_id |-> p, label |-> Label(log, p)]>>
            ELSE <<>>])

\* fetch_training_rows: the newest logs that have results, in the order of
\* their ids and then of their ranking.
RecentIds(logs) == Newest({i \in DOMAIN logs : logs[i].result_ids # <<>>}, LogLimit)

TrainingRows(logs, features) ==
    FlattenSeq([i \in DOMAIN logs |->
        IF i \in RecentIds(logs) THEN RowsOfLog(logs[i], i, features) ELSE <<>>])

\* The loop of load_training_data after n rows: the group it is in, how many
\* rows that has so far, and the sizes of the groups before it.
Scan(rows) ==
    LET after[n \in 0 .. Len(rows)] ==
            IF n = 0 THEN [current_qid |-> None, size |-> 0, group_sizes |-> <<>>]
            ELSE LET s == after[n - 1]
                     qid == rows[n].search_log_id
                 IN  IF s.current_qid \in {None, qid}
                     THEN [s EXCEPT !.current_qid = qid, !.size = @ + 1]
                     ELSE [current_qid |-> qid, size |-> 1,
                           group_sizes |-> Append(s.group_sizes, s.size)]
    IN  after[Len(rows)]

\* A fault: the last group is forgotten.
GroupSizesButLast(rows) == Scan(rows).group_sizes

GroupSizes(rows) ==
    LET s == Scan(rows)
    IN  IF s.size > 0 THEN Append(s.group_sizes, s.size) ELSE s.group_sizes

PositiveCount(rows) == Cardinality({n \in DOMAIN rows : rows[n].label > 0})
=============================================================================
