---------------------------- MODULE SearchLedger ----------------------------
(***************************************************************************)
(* What the search API owes to those who read its tables afterwards (the   *)
(* KPI job, the feature job, the trainer, the offline evaluation) and to   *)
(* its clients: searches, impressions and actions are entered together and *)
(* once, entries are never withdrawn, and a client is only ever shown a    *)
(* search whose entry and ranking comparison exist.  Threads, caching,     *)
(* sequences and failures do not appear.                                   *)
(***************************************************************************)
EXTENDS Naturals, FiniteSets

CONSTANTS Clients, Properties, Actions, Ids

VARIABLES
    shown,          \* [search ids so far -> the properties it showed]
    label,          \* its latest action, {} or {<<property, action>>}
    clicked,        \* its latest click, {} or {property}
    impressions,    \* per property
    acted,          \* per property and action
    compared,       \* the searches with a ranking comparison
    served          \* the search each client is looking at, or 0

vars == <<shown, label, clicked, impressions, acted, compared, served>>

TypeOK ==
    /\ IsFiniteSet(DOMAIN shown) /\ DOMAIN shown \subseteq Ids
    /\ shown \in [DOMAIN shown -> SUBSET Properties]
    /\ label \in [DOMAIN shown -> SUBSET (Properties \X Actions)]
    /\ clicked \in [DOMAIN shown -> SUBSET Properties]
    /\ impressions \in [Properties -> Nat]
    /\ acted \in [Properties -> [Actions -> Nat]]
    /\ compared \subseteq DOMAIN shown
    /\ served \in [Clients -> Ids \cup {0}]

Init ==
    /\ shown = [i \in {} |-> {}]
    /\ label = [i \in {} |-> {}]
    /\ clicked = [i \in {} |-> {}]
    /\ impressions = [p \in Properties |-> 0]
    /\ acted = [p \in Properties |-> [a \in Actions |-> 0]]
    /\ compared = {}
    /\ served = [c \in Clients |-> 0]

Extend(f, i, v) == [j \in DOMAIN f \cup {i} |-> IF j = i THEN v ELSE f[j]]

EnterSearch(i, ps) ==
    /\ i \notin DOMAIN shown
    /\ shown' = Extend(shown, i, ps)
    /\ label' = Extend(label, i, {})
    /\ clicked' = Extend(clicked, i, {})
    /\ impressions' = [p \in Properties |-> impressions[p] + (IF p \in ps THEN 1 ELSE 0)]
    /\ UNCHANGED <<acted, compared, served>>

EnterComparison(i) ==
    /\ i \in DOMAIN shown \ compared
    /\ compared' = compared \cup {i}
    /\ UNCHANGED <<shown, label, clicked, impressions, acted, served>>

\* An action that names no search is only counted, and so is one that names
\* a search without an entry.
EnterAction(p, a) ==
    /\ acted' = [acted EXCEPT ![p][a] = @ + 1]
    /\ UNCHANGED <<shown, label, clicked, impressions, compared, served>>

EnterLabel(i, p, a) ==
    /\ i \in DOMAIN shown
    /\ acted' = [acted EXCEPT ![p][a] = @ + 1]
    /\ label' = [label EXCEPT ![i] = {<<p, a>>}]
    /\ clicked' = [clicked EXCEPT ![i] = IF a = "click" THEN {p} ELSE @]
    /\ UNCHANGED <<shown, impressions, compared, served>>

\* A client is shown a search, or turns away from it.
Look(c, i) ==
    /\ i \in compared \cup {0}
    /\ served' = [served EXCEPT ![c] = i]
    /\ UNCHANGED <<shown, label, clicked, impressions, acted, compared>>

\* All clients lose what they were shown.
Disperse ==
    /\ served' = [c \in Clients |-> 0]
    /\ UNCHANGED <<shown, label, clicked, impressions, acted, compared>>

Next ==
    \/ \E i \in Ids, ps \in SUBSET Properties : EnterSearch(i, ps)
    \/ \E i \in Ids : EnterComparison(i)
    \/ \E p \in Properties, a \in Actions : EnterAction(p, a)
    \/ \E i \in Ids, p \in Properties, a \in Actions : EnterLabel(i, p, a)
    \/ \E c \in Clients, i \in Ids \cup {0} : Look(c, i)
    \/ Disperse

Spec == Init /\ [][Next]_vars
-----------------------------------------------------------------------------
Showing(p) == {i \in DOMAIN shown : p \in shown[i]}

\* Impressions are exactly the entered searches that showed the property.
ImpressionsAccounted == \A p \in Properties : impressions[p] = Cardinality(Showing(p))

\* Every label a search carries was paid for by a counted action of its own:
\* no action labels two searches, no label appears without one.
Labelled(p, a) == {i \in DOMAIN shown : label[i] = {<<p, a>>}}

LabelsPaid ==
    \A p \in Properties, a \in Actions : Cardinality(Labelled(p, a)) <= acted[p][a]

\* The same for the clicked property, which outlives later labels.
Clicked(p) == {i \in DOMAIN shown : clicked[i] = {p}}

ClicksPaid ==
    "click" \in Actions =>
        \A p \in Properties : Cardinality(Clicked(p)) <= acted[p]["click"]

\* What a client looks at has been entered and compared.
ServedCompared == \A c \in Clients : served[c] \in compared \cup {0}
=============================================================================
