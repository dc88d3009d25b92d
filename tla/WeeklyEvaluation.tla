-------------------------- MODULE WeeklyEvaluation --------------------------
(***************************************************************************)
(* The daily KPI and the weekly evaluation: what they read from the logs,  *)
(* the rows they write, and the adoption decision.  Both are processes of  *)
(* their own; searches and feedback go on while they run, and each of      *)
(* their statements sees the tables as they are then.  A step is one       *)
(* statement or one commit, and a job may raise or be killed after any.    *)
(***************************************************************************)
EXTENDS RankMetrics

CONSTANTS
    HitSets,        \* sets of properties that a search may find
    KpiDays,        \* 7: rows of the weekly summary
    MaxDay, MaxLogs, MaxReports     \* bounds

ASSUME EvaluationConstants ==
    KpiDays \in Nat \ {0} /\ MaxDay \in Nat \ {0} /\ MaxLogs \in Nat /\ MaxReports \in Nat

VARIABLES
    today,
    search_logs,                \* rows by id
    ranking_compare_logs,       \* rows by id, which need not be the order of
                                \* their searches
    kpi_daily_stats,            \* [days with a row -> counts and rates]
    offline_eval_reports,       \* rows by id
    model_adoption_decisions,   \* rows by id
    kpi, report                 \* local state of the jobs

serving == <<today, search_logs, ranking_compare_logs>>
results == <<kpi_daily_stats, offline_eval_reports, model_adoption_decisions>>
vars == <<serving, results, kpi, report>>

\* Duplicate-free lists, as SearchServing has results and candidates.
Lists == UNION {Injection(1 .. n, Properties) : n \in 0 .. Cardinality(Properties)}

Logs == [day : 1 .. MaxDay, result_ids : Lists,
         actioned_id : Properties \cup {None}, action_type : Actions \cup {None}]

Compares == [search_log_id : Nat, meili_ids : Lists, reranked_ids : Lists]

\* The comparisons with the labels that their searches have now.
Joined ==
    [k \in DOMAIN ranking_compare_logs |->
        LET r == ranking_compare_logs[k]
            log == search_logs[r.search_log_id]
        IN  [meili_ids |-> r.meili_ids, reranked_ids |-> r.reranked_ids,
             actioned_id |-> log.actioned_id, action_type |-> log.action_type]]

NoKpi == [pc |-> "idle", day |-> 0, row |-> None]
NoReport == [pc |-> "idle", offline |-> None, weekly |-> None]

Init ==
    /\ today = 1
    /\ search_logs = <<>>
    /\ ranking_compare_logs = <<>>
    /\ kpi_daily_stats = [d \in {} |-> None]
    /\ offline_eval_reports = <<>>
    /\ model_adoption_decisions = <<>>
    /\ kpi = NoKpi /\ report = NoReport
-----------------------------------------------------------------------------
\* SearchServing commits a search,
Search ==
    /\ Len(search_logs) < MaxLogs
    /\ \E s \in {t \in Lists : Range(t) \in HitSets} :
           search_logs' = Append(search_logs,
               [day |-> today, result_ids |-> s, actioned_id |-> None, action_type |-> None])
    /\ UNCHANGED <<today, ranking_compare_logs, results, kpi, report>>

\* and then, unless it fails, the comparison with the order before reranking;
\* another search may come between.
Compare(i) ==
    /\ \A k \in DOMAIN ranking_compare_logs : ranking_compare_logs[k].search_log_id # i
    /\ \E c \in {t \in Lists : Range(t) = Range(search_logs[i].result_ids)} :
           ranking_compare_logs' = Append(ranking_compare_logs,
               [search_log_id |-> i, meili_ids |-> c, reranked_ids |-> search_logs[i].result_ids])
    /\ UNCHANGED <<today, search_logs, results, kpi, report>>

\* A feedback labels a log, of today or not, with any property.
Feedback(i, p, a) ==
    /\ search_logs' = [search_logs EXCEPT ![i].actioned_id = p, ![i].action_type = a]
    /\ UNCHANGED <<today, ranking_compare_logs, results, kpi, report>>

NextDay ==
    /\ today < MaxDay
    /\ today' = today + 1
    /\ UNCHANGED <<search_logs, ranking_compare_logs, results, kpi, report>>
-----------------------------------------------------------------------------
\* upsert_kpi_for_day: of today, or of the --date given.
KpiSelect ==
    /\ kpi.pc = "idle"
    /\ \E d \in 1 .. today :
           kpi' = [pc |-> "upsert", day |-> d, row |-> KpiRow(KpiCounts(search_logs, d))]
    /\ UNCHANGED <<serving, results, report>>

\* Faults: on conflict each count keeps the larger of its values, or the rates
\* are not written.
Upserted(row) ==
    /\ kpi.pc = "upsert"
    /\ kpi_daily_stats' = [d \in DOMAIN kpi_daily_stats \cup {kpi.day} |->
                               IF d # kpi.day THEN kpi_daily_stats[d]
                               ELSE IF d \in DOMAIN kpi_daily_stats THEN row ELSE kpi.row]
    /\ kpi' = NoKpi
    /\ UNCHANGED <<serving, offline_eval_reports, model_adoption_decisions, report>>

KpiUpsertGreatest ==
    LET greatest(m, n) == IF m > n THEN m ELSE n
        old == kpi_daily_stats[kpi.day].counts
        new == kpi.row.counts
    IN  Upserted(KpiRow([impressions |-> greatest(old.impressions, new.impressions),
                         actions |-> [a \in ActionTypes |-> greatest(old.actions[a], new.actions[a])]]))

KpiUpsertCounts == Upserted([kpi.row EXCEPT !.rates = kpi_daily_stats[kpi.day].rates])

KpiUpsert ==
    /\ kpi.pc = "upsert"
    /\ kpi_daily_stats' = [d \in DOMAIN kpi_daily_stats \cup {kpi.day} |->
                               IF d = kpi.day THEN kpi.row ELSE kpi_daily_stats[d]]
    /\ kpi' = NoKpi
    /\ UNCHANGED <<serving, offline_eval_reports, model_adoption_decisions, report>>

KpiEnd ==
    /\ kpi.pc # "idle"
    /\ kpi' = NoKpi
    /\ UNCHANGED <<serving, results, report>>
-----------------------------------------------------------------------------
\* create_offline_eval_report, whose rows the metrics are computed from.
Evaluate ==
    /\ report.pc = "idle"
    /\ Len(offline_eval_reports) < MaxReports
    /\ report' = [pc |-> "insert", offline |-> OfflineMetrics(Joined), weekly |-> None]
    /\ UNCHANGED <<serving, results, kpi>>

InsertReport ==
    /\ report.pc = "insert"
    /\ offline_eval_reports' = Append(offline_eval_reports, report.offline)
    /\ report' = [report EXCEPT !.pc = "kpi"]
    /\ UNCHANGED <<serving, kpi_daily_stats, model_adoption_decisions, kpi>>

\* load_weekly_kpi: the latest KpiDays rows, of whatever days they are.
LatestDays == Newest(DOMAIN kpi_daily_stats, KpiDays)

LoadWeeklyKpi ==
    /\ report.pc = "kpi"
    /\ report' = [report EXCEPT !.pc = "decide",
                                !.weekly = WeeklySummary(Restrict(kpi_daily_stats, LatestDays))]
    /\ UNCHANGED <<serving, results, kpi>>

\* A fault: the decision is about metrics computed afresh.
SaveDecisionAfresh ==
    /\ report.pc = "decide"
    /\ LET offline == OfflineMetrics(Joined) IN
       model_adoption_decisions' = Append(model_adoption_decisions,
           [adopt_lgbm |-> Adopts(offline, report.weekly), offline |-> offline])
    /\ report' = NoReport
    /\ UNCHANGED <<serving, kpi_daily_stats, offline_eval_reports, kpi>>

\* evaluate_adoption and save_decision.  The report files come after it.
SaveDecision ==
    /\ report.pc = "decide"
    /\ model_adoption_decisions' = Append(model_adoption_decisions,
           [adopt_lgbm |-> Adopts(report.offline, report.weekly), offline |-> report.offline])
    /\ report' = NoReport
    /\ UNCHANGED <<serving, kpi_daily_stats, offline_eval_reports, kpi>>

\* It raises, is killed, or was run_offline_evaluation, which stops here.
ReportEnd ==
    /\ report.pc # "idle"
    /\ report' = NoReport
    /\ UNCHANGED <<serving, results, kpi>>
-----------------------------------------------------------------------------
Next ==
    \/ Search
    \/ \E i \in DOMAIN search_logs : Compare(i)
    \/ \E i \in DOMAIN search_logs, p \in Properties, a \in Actions : Feedback(i, p, a)
    \/ NextDay
    \/ KpiSelect \/ KpiUpsert \/ KpiEnd
    \/ Evaluate \/ InsertReport \/ LoadWeeklyKpi \/ SaveDecision \/ ReportEnd

Spec == Init /\ [][Next]_vars
-----------------------------------------------------------------------------
OfflineRows == [evaluated_queries : 0 .. LogLimit,
                meili : [MetricNames -> 0 .. Million], lgbm : [MetricNames -> 0 .. Million]]

\* The rates are those of the counts they are stored with, as compute_kpi_metrics
\* has them: its cvr is inquiries per click, that of docs/03:290 per impression.
IsKpiRow(row) ==
    /\ row = KpiRow(row.counts)
    /\ row.counts \in [impressions : Nat, actions : [ActionTypes -> Nat]]

TypeOK ==
    /\ today \in 1 .. MaxDay
    /\ search_logs \in Seq(Logs) /\ Len(search_logs) <= MaxLogs
    /\ ranking_compare_logs \in Seq(Compares)
    /\ \A k \in DOMAIN ranking_compare_logs :
           ranking_compare_logs[k].search_log_id \in DOMAIN search_logs
    /\ DOMAIN kpi_daily_stats \subseteq 1 .. today
    /\ \A d \in DOMAIN kpi_daily_stats : IsKpiRow(kpi_daily_stats[d])
    /\ offline_eval_reports \in Seq(OfflineRows)
    /\ model_adoption_decisions \in Seq([adopt_lgbm : BOOLEAN, offline : OfflineRows])
    /\ kpi.pc \in {"idle", "upsert"} /\ kpi.day \in 0 .. today
    /\ kpi.pc = "upsert" => IsKpiRow(kpi.row)
    /\ report.pc \in {"idle", "insert", "kpi", "decide"}
    /\ report.pc # "idle" => report.offline \in OfflineRows

\* The KPI of a day is a snapshot: searches of that day and feedback on them go
\* on after it, days later too.  What is stored, or about to be, may lag behind
\* the logs but never shows impressions or labels that are not in them, although
\* a later action moves a log from one column to another.
KpiBehind ==
    LET within(row, d) ==
            LET ofday == {i \in DOMAIN search_logs : search_logs[i].day = d} IN
            /\ row.counts.impressions <= Sum([i \in ofday |-> Len(search_logs[i].result_ids)])
            /\ Sum(row.counts.actions) <=
                   Cardinality({i \in ofday : search_logs[i].actioned_id # None})
    IN  /\ \A d \in DOMAIN kpi_daily_stats : within(kpi_daily_stats[d], d)
        /\ kpi.pc = "upsert" => within(kpi.row, kpi.day)

\* Every decision is about metrics that a stored report shows, whatever feedback
\* came in between the job's steps, and those are not of more compared searches
\* than have labels now.
DecisionsReported ==
    \A i \in DOMAIN model_adoption_decisions :
        LET offline == model_adoption_decisions[i].offline IN
        /\ offline \in Range(offline_eval_reports)
        /\ offline.evaluated_queries <=
               Cardinality({k \in DOMAIN Joined : Evaluated(Joined[k])})

\* A reranking is only adopted if it put some property that a user chose before
\* the place Meilisearch gave it: thresholds, cut-offs, averages and rounding
\* together never turn a reranking that moved no choice up into a gain.
AdoptionNeedsAGain ==
    \/ \E k \in DOMAIN Joined :
           LET row == Joined[k]
               place(ids) == FindRank(ids, row.actioned_id, RecallCut)
           IN  /\ Evaluated(row)
               /\ place(row.reranked_ids) # 0
               /\ place(row.meili_ids) = 0 \/ place(row.reranked_ids) < place(row.meili_ids)
    \/ ~Adopts(OfflineMetrics(Joined), WeeklySummary(Restrict(kpi_daily_stats, LatestDays)))
=============================================================================
