------------------------- MODULE MCWeeklyEvaluation -------------------------
(***************************************************************************)
(* A small instance of WeeklyEvaluation.                                   *)
(***************************************************************************)
EXTENDS WeeklyEvaluation, TLC

Symmetry == Permutations(Properties)

\* A bound: inquiries, and KPI rows that count them, only without a report.
\* Reports do not read the kinds of labels, the KPI does.
KindsOrReports ==
    \/ report = NoReport /\ offline_eval_reports = <<>>
    \/ /\ \A i \in DOMAIN search_logs : search_logs[i].action_type # "inquiry"
       /\ \A d \in DOMAIN kpi_daily_stats : kpi_daily_stats[d].counts.actions["inquiry"] = 0
       /\ kpi.pc = "upsert" => kpi.row.counts.actions["inquiry"] = 0

BoundedSpec == Init /\ [][Next /\ KindsOrReports']_vars
=============================================================================
