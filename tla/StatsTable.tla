----------------------------- MODULE StatsTable -----------------------------
(***************************************************************************)
(* Rows of property_stats, and what the two UPSERT statements of           *)
(* repositories/search_log_repository.py do to them.  A rate column is a   *)
(* pair <<numerator, denominator>>: the double the database computes is    *)
(* determined by it.  updated_at is left out.                              *)
(***************************************************************************)
EXTENDS Naturals

\* Values of FeedbackAction: "click", "favorite" and "inquiry".  Each has a
\* counter and a rate column (click/ctr, favorite/fav_rate,
\* inquiry/inquiry_rate); the statements treat the three alike.
CONSTANT Actions

Zero == <<0, 1>>

StatsRows == [impression : Nat,
              count      : [Actions -> Nat],
              rate       : [Actions -> Nat \X (Nat \ {0})]]

\* A fault the properties must notice: the CASE is missing.
RateUnguarded(count, impression) == <<count, impression>>

\* The CASE of both statements: no impression, no rate.
Rate(count, impression) == IF impression > 0 THEN <<count, impression>> ELSE Zero

\* What a property without a row counts as: the VALUES of an insert, less
\* the increment it brings.
NoStats == [impression |-> 0,
            count      |-> [a \in Actions |-> 0],
            rate       |-> [a \in Actions |-> Zero]]

\* A fault: the rates are divided by the impressions before the statement.
ImpressedRowStale(row) ==
    [impression |-> row.impression + 1,
     count      |-> row.count,
     rate       |-> [a \in Actions |-> Rate(row.count[a], row.impression)]]

\* One more impression.  The insert branch writes impression 1 and rates 0;
\* the update branch divides the old counters by the new impression count.
ImpressedRow(row) ==
    [impression |-> row.impression + 1,
     count      |-> row.count,
     rate       |-> [a \in Actions |-> Rate(row.count[a], row.impression + 1)]]

\* A fault: the counter is set to EXCLUDED's instead of raised by it.
ActedRowExcluded(row, action) ==
    LET count == [a \in Actions |-> IF a = action THEN 1 ELSE 0]
    IN  [impression |-> row.impression,
         count      |-> count,
         rate       |-> [a \in Actions |-> Rate(count[a], row.impression)]]

\* One more action.  EXCLUDED holds 1 for the action and 0 for the others, so
\* every rate is recomputed.
ActedRow(row, action) ==
    LET count == [row.count EXCEPT ![action] = @ + 1]
    IN  [impression |-> row.impression,
         count      |-> count,
         rate       |-> [a \in Actions |-> Rate(count[a], row.impression)]]

\* The daily job's recalculation of the rates.
RecalculatedRow(row) ==
    [row EXCEPT !.rate = [a \in Actions |-> Rate(row.count[a], row.impression)]]

\* What a statement of each kind does to a row: a search's, the daily job's, or
\* a feedback's, which is known by its action.
EffectOn(kind, row) ==
    CASE kind = "search" -> ImpressedRow(row)
      [] kind = "daily"  -> RecalculatedRow(row)
      [] OTHER           -> ActedRow(row, kind)

\* UPSERT on a table that is a function from the properties that have a row:
\* the insert branch starts from NoStats.
RowOf(table, p) == IF p \in DOMAIN table THEN table[p] ELSE NoStats

\* A fault: an UPDATE in the place of an UPSERT, which misses the properties
\* that have no row yet.
ActKnown(table, p, action) ==
    [q \in DOMAIN table |-> IF q = p THEN ActedRow(table[q], action) ELSE table[q]]

\* A fault: a feedback inserts what the impressions' statement inserts.
ActImpressed(table, p, action) ==
    [q \in DOMAIN table \cup {p} |->
        IF q # p THEN table[q]
        ELSE ActedRow(IF p \in DOMAIN table THEN table[p] ELSE ImpressedRow(NoStats), action)]

Impress(table, shown) ==
    [p \in DOMAIN table \cup shown |->
        IF p \in shown THEN ImpressedRow(RowOf(table, p)) ELSE table[p]]

Act(table, p, action) ==
    [q \in DOMAIN table \cup {p} |->
        IF q = p THEN ActedRow(RowOf(table, p), action) ELSE table[q]]
=============================================================================
