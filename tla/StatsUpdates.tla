---------------------------- MODULE StatsUpdates ----------------------------
(***************************************************************************)
(* What the writers of property_stats may rely on: each change they ask    *)
(* for happens to all its rows at once, to the rows as they are then, and  *)
(* happens once or not at all.  SearchServing and CatalogJobs take their   *)
(* transactions in this way; DatabaseAccess shows that the statements, the *)
(* row locks and the pool provide it.                                      *)
(***************************************************************************)
EXTENDS StatsTable

CONSTANTS Clients, Properties, None

VARIABLES
    property_stats,     \* the rows there are, by property
    asked               \* the update each client has begun, or None

vars == <<property_stats, asked>>

Kinds == Actions \cup {"search", "daily"}

Updates == [kind : Kinds, rows : SUBSET Properties]

Updated(table, update) ==
    [p \in DOMAIN table \cup update.rows |->
        IF p \in update.rows THEN EffectOn(update.kind, RowOf(table, p)) ELSE table[p]]
-----------------------------------------------------------------------------
Init ==
    /\ property_stats = [p \in {} |-> NoStats]
    /\ asked = [c \in Clients |-> None]

Ask(c) ==
    /\ asked[c] = None
    /\ \E update \in Updates : asked' = [asked EXCEPT ![c] = update]
    /\ UNCHANGED property_stats

Do(c) ==
    /\ asked[c] # None
    /\ property_stats' = Updated(property_stats, asked[c])
    /\ asked' = [asked EXCEPT ![c] = None]

\* Any number of updates may come to nothing at once: a process dies.
GiveUp ==
    /\ \E dead \in SUBSET Clients :
           asked' = [c \in Clients |-> IF c \in dead THEN None ELSE asked[c]]
    /\ UNCHANGED property_stats

Next == GiveUp \/ \E c \in Clients : Ask(c) \/ Do(c)

Spec == Init /\ [][Next]_vars
-----------------------------------------------------------------------------
TypeOK ==
    /\ DOMAIN property_stats \subseteq Properties
    /\ property_stats \in [DOMAIN property_stats -> StatsRows]
    /\ asked \in [Clients -> Updates \cup {None}]

\* No update ever leaves a rate that does not belong to its counters.
RatesFresh ==
    \A p \in DOMAIN property_stats, a \in Actions :
        property_stats[p].rate[a] =
            Rate(property_stats[p].count[a], property_stats[p].impression)
=============================================================================
