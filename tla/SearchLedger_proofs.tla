------------------------ MODULE SearchLedger_proofs ------------------------
(***************************************************************************)
(* The ledger's accounts balance, for any clients, properties, actions and *)
(* ids.                                                                    *)
(***************************************************************************)
EXTENDS SearchLedger, FiniteSetTheorems, TLAPS

\* Adding one element to a finite set, or at most one, or none.
LEMMA Grown ==
    ASSUME NEW S, IsFiniteSet(S), NEW T, NEW x, T \subseteq S \cup {x}
    PROVE  /\ IsFiniteSet(S) /\ IsFiniteSet(T)
           /\ Cardinality(S) \in Nat /\ Cardinality(T) \in Nat
           /\ Cardinality(T) <= Cardinality(S) + 1
           /\ T \subseteq S => Cardinality(T) <= Cardinality(S)
           /\ T = S \cup {x} /\ x \notin S => Cardinality(T) = Cardinality(S) + 1
<1>1. /\ IsFiniteSet(S \cup {x})
      /\ Cardinality(S \cup {x}) = IF x \in S THEN Cardinality(S) ELSE Cardinality(S) + 1
  BY FS_AddElement
<1>2. IsFiniteSet(T) /\ Cardinality(T) <= Cardinality(S \cup {x})
  BY <1>1, FS_Subset
<1>3. Cardinality(S) \in Nat /\ Cardinality(T) \in Nat
  BY <1>2, FS_CardinalityType
<1>4. T \subseteq S => Cardinality(T) <= Cardinality(S)
  BY FS_Subset
<1>5. Cardinality(T) <= Cardinality(S) + 1
  BY <1>1, <1>2, <1>3
<1>6. ASSUME T = S \cup {x}, x \notin S PROVE Cardinality(T) = Cardinality(S) + 1
  BY <1>1, <1>6
<1> QED  BY <1>2, <1>3, <1>4, <1>5, <1>6

\* The entered searches are finitely many and every table has the type it
\* declares: the base of the counting arguments below.
THEOREM TypeCorrect == Spec => []TypeOK
<1>1. Init => TypeOK
  BY FS_EmptySet DEF Init, TypeOK
<1>2. TypeOK /\ [Next]_vars => TypeOK'
  <2> SUFFICES ASSUME TypeOK, [Next]_vars PROVE TypeOK'
    OBVIOUS
  <2> USE DEF TypeOK
  <2>1. ASSUME NEW i \in Ids, NEW ps \in SUBSET Properties, EnterSearch(i, ps)
        PROVE  TypeOK'
    <3>1. DOMAIN shown' = DOMAIN shown \cup {i} /\ IsFiniteSet(DOMAIN shown')
      BY <2>1, FS_AddElement DEF EnterSearch, Extend
    <3> QED  BY <2>1, <3>1 DEF EnterSearch, Extend
  <2>2. ASSUME NEW i \in Ids, EnterComparison(i) PROVE TypeOK'
    BY <2>2 DEF EnterComparison
  <2>3. ASSUME NEW p \in Properties, NEW a \in Actions, EnterAction(p, a) PROVE TypeOK'
    BY <2>3 DEF EnterAction
  <2>4. ASSUME NEW i \in Ids, NEW p \in Properties, NEW a \in Actions, EnterLabel(i, p, a)
        PROVE  TypeOK'
    BY <2>4 DEF EnterLabel
  <2>5. ASSUME NEW c \in Clients, NEW i \in Ids \cup {0}, Look(c, i) PROVE TypeOK'
    BY <2>5 DEF Look
  <2>6. CASE Disperse
    BY <2>6 DEF Disperse
  <2>7. CASE UNCHANGED vars
    BY <2>7 DEF vars
  <2> QED  BY <2>1, <2>2, <2>3, <2>4, <2>5, <2>6, <2>7 DEF Next
<1> QED  BY <1>1, <1>2, PTL DEF Spec

\* An impression is counted for a property exactly when a search that shows
\* it is entered.
THEOREM ImpressionsAlwaysAccounted == Spec => []ImpressionsAccounted
<1>1. Init => ImpressionsAccounted
  BY FS_EmptySet DEF Init, ImpressionsAccounted, Showing
<1>2. TypeOK /\ ImpressionsAccounted /\ [Next]_vars => ImpressionsAccounted'
  <2> SUFFICES ASSUME TypeOK, ImpressionsAccounted, [Next]_vars,
                      NEW p \in Properties
               PROVE  impressions'[p] = Cardinality(Showing(p)')
    BY DEF ImpressionsAccounted
  <2>1. IsFiniteSet(Showing(p)) /\ impressions[p] = Cardinality(Showing(p))
    BY FS_Subset DEF TypeOK, Showing, ImpressionsAccounted
  <2>2. ASSUME NEW i \in Ids, NEW ps \in SUBSET Properties, EnterSearch(i, ps)
        PROVE  impressions'[p] = Cardinality(Showing(p)')
    <3>1. i \notin Showing(p)
          /\ Showing(p)' = IF p \in ps THEN Showing(p) \cup {i} ELSE Showing(p)
      BY <2>2 DEF EnterSearch, Extend, Showing
    <3>2. Cardinality(Showing(p) \cup {i}) = Cardinality(Showing(p)) + 1
      BY <3>1, <2>1, FS_AddElement
    <3>3. impressions'[p] = impressions[p] + (IF p \in ps THEN 1 ELSE 0)
      BY <2>2 DEF EnterSearch
    <3> QED  BY <3>1, <3>2, <3>3, <2>1 DEF TypeOK
  <2>3. CASE UNCHANGED <<shown, impressions>>
    BY <2>1, <2>3 DEF Showing
  <2> QED
    BY <2>2, <2>3 DEF Next, EnterComparison, EnterAction, EnterLabel, Look, Disperse, vars
<1> QED  BY <1>1, <1>2, TypeCorrect, PTL DEF Spec

\* The step of LabelsPaid and ClicksPaid: a set of searches may grow by one
\* element only when the counter it is bounded by grows.
LEMMA Paid ==
    ASSUME NEW S, IsFiniteSet(S), NEW T, NEW i, NEW n \in Nat, NEW m \in Nat,
           Cardinality(S) <= n,
           \/ T \subseteq S /\ m >= n
           \/ T \subseteq S \cup {i} /\ m = n + 1
    PROVE  Cardinality(T) <= m
<1>1. T \subseteq S \cup {i}
  OBVIOUS
<1> QED  BY <1>1, Grown

\* No label without its own counted action.
THEOREM LabelsAlwaysPaid == Spec => []LabelsPaid
<1>1. Init => LabelsPaid
  <2> SUFFICES ASSUME Init, NEW p \in Properties, NEW a \in Actions
               PROVE  Cardinality(Labelled(p, a)) <= acted[p][a]
    BY DEF LabelsPaid
  <2>1. Labelled(p, a) = {} /\ acted[p][a] = 0
    BY DEF Init, Labelled
  <2> QED  BY <2>1, FS_EmptySet
<1>2. TypeOK /\ TypeOK' /\ LabelsPaid /\ [Next]_vars => LabelsPaid'
  <2> SUFFICES ASSUME TypeOK, TypeOK', LabelsPaid, [Next]_vars,
                      NEW p \in Properties, NEW a \in Actions
               PROVE  Cardinality(Labelled(p, a)') <= acted'[p][a]
    BY DEF LabelsPaid
  <2>1. /\ IsFiniteSet(Labelled(p, a))
        /\ acted[p][a] \in Nat /\ acted'[p][a] \in Nat
        /\ Cardinality(Labelled(p, a)) <= acted[p][a]
    <3>1. Labelled(p, a) \subseteq DOMAIN shown
      BY DEF Labelled
    <3>2. IsFiniteSet(Labelled(p, a))
      BY <3>1, FS_Subset DEF TypeOK
    <3>3. acted[p][a] \in Nat /\ acted'[p][a] \in Nat
      BY DEF TypeOK
    <3> QED  BY <3>2, <3>3 DEF LabelsPaid
  <2>2. ASSUME NEW i \in Ids, NEW q \in Properties, NEW b \in Actions, EnterLabel(i, q, b)
        PROVE  Cardinality(Labelled(p, a)') <= acted'[p][a]
    <3>1. CASE q = p /\ b = a
      <4>1. Labelled(p, a)' \subseteq Labelled(p, a) \cup {i}
        BY <2>2 DEF EnterLabel, Labelled, TypeOK
      <4>2. acted'[p][a] = acted[p][a] + 1
        BY <2>2, <3>1 DEF EnterLabel, TypeOK
      <4> QED  BY <4>1, <4>2, <2>1, Paid
    <3>2. CASE ~(q = p /\ b = a)
      <4>1. Labelled(p, a)' \subseteq Labelled(p, a)
        BY <2>2, <3>2 DEF EnterLabel, Labelled, TypeOK
      <4>2. acted'[p][a] = acted[p][a]
        BY <2>2, <3>2 DEF EnterLabel, TypeOK
      <4> QED  BY <4>1, <4>2, <2>1, Paid
    <3> QED  BY <3>1, <3>2
  <2>3. ASSUME NEW q \in Properties, NEW b \in Actions, EnterAction(q, b)
        PROVE  Cardinality(Labelled(p, a)') <= acted'[p][a]
    <3>1. Labelled(p, a)' = Labelled(p, a)
      BY <2>3 DEF EnterAction, Labelled
    <3>2. acted'[p][a] >= acted[p][a]
      BY <2>3, <2>1 DEF EnterAction, TypeOK
    <3> QED  BY <3>1, <3>2, <2>1, Paid
  <2>4. ASSUME NEW i \in Ids, NEW ps \in SUBSET Properties, EnterSearch(i, ps)
        PROVE  Cardinality(Labelled(p, a)') <= acted'[p][a]
    <3>1. Labelled(p, a)' \subseteq Labelled(p, a)
      BY <2>4 DEF EnterSearch, Extend, Labelled, TypeOK
    <3>2. acted'[p][a] >= acted[p][a]
      BY <2>4, <2>1 DEF EnterSearch
    <3> QED  BY <3>1, <3>2, <2>1, Paid
  <2>5. CASE UNCHANGED <<shown, label, acted>>
    BY <2>5, <2>1 DEF Labelled
  <2> QED
    BY <2>2, <2>3, <2>4, <2>5 DEF Next, EnterComparison, Look, Disperse, vars
<1> QED  BY <1>1, <1>2, TypeCorrect, PTL DEF Spec

\* No clicked property without its own counted click, whatever labels follow.
THEOREM ClicksAlwaysPaid == Spec => []ClicksPaid
<1>1. Init => ClicksPaid
  <2> SUFFICES ASSUME Init, "click" \in Actions, NEW p \in Properties
               PROVE  Cardinality(Clicked(p)) <= acted[p]["click"]
    BY DEF ClicksPaid
  <2>1. Clicked(p) = {} /\ acted[p]["click"] = 0
    BY DEF Init, Clicked
  <2> QED  BY <2>1, FS_EmptySet
<1>2. TypeOK /\ TypeOK' /\ ClicksPaid /\ [Next]_vars => ClicksPaid'
  <2> SUFFICES ASSUME TypeOK, TypeOK', ClicksPaid, [Next]_vars,
                      "click" \in Actions, NEW p \in Properties
               PROVE  Cardinality(Clicked(p)') <= acted'[p]["click"]
    BY DEF ClicksPaid
  <2>1. /\ IsFiniteSet(Clicked(p))
        /\ acted[p]["click"] \in Nat /\ acted'[p]["click"] \in Nat
        /\ Cardinality(Clicked(p)) <= acted[p]["click"]
    <3>1. Clicked(p) \subseteq DOMAIN shown
      BY DEF Clicked
    <3>2. IsFiniteSet(Clicked(p))
      BY <3>1, FS_Subset DEF TypeOK
    <3>3. acted[p]["click"] \in Nat /\ acted'[p]["click"] \in Nat
      BY DEF TypeOK
    <3> QED  BY <3>2, <3>3 DEF ClicksPaid
  <2>2. ASSUME NEW i \in Ids, NEW q \in Properties, NEW b \in Actions, EnterLabel(i, q, b)
        PROVE  Cardinality(Clicked(p)') <= acted'[p]["click"]
    <3>1. CASE q = p /\ b = "click"
      <4>1. Clicked(p)' \subseteq Clicked(p) \cup {i}
        BY <2>2 DEF EnterLabel, Clicked, TypeOK
      <4>2. acted'[p]["click"] = acted[p]["click"] + 1
        BY <2>2, <3>1 DEF EnterLabel, TypeOK
      <4> QED  BY <4>1, <4>2, <2>1, Paid
    <3>2. CASE ~(q = p /\ b = "click")
      <4>1. Clicked(p)' \subseteq Clicked(p)
        BY <2>2, <3>2 DEF EnterLabel, Clicked, TypeOK
      <4>2. acted'[p]["click"] = acted[p]["click"]
        BY <2>2, <3>2 DEF EnterLabel, TypeOK
      <4> QED  BY <4>1, <4>2, <2>1, Paid
    <3> QED  BY <3>1, <3>2
  <2>3. ASSUME NEW q \in Properties, NEW b \in Actions, EnterAction(q, b)
        PROVE  Cardinality(Clicked(p)') <= acted'[p]["click"]
    <3>1. Clicked(p)' = Clicked(p)
      BY <2>3 DEF EnterAction, Clicked
    <3>2. acted'[p]["click"] >= acted[p]["click"]
      BY <2>3, <2>1 DEF EnterAction, TypeOK
    <3> QED  BY <3>1, <3>2, <2>1, Paid
  <2>4. ASSUME NEW i \in Ids, NEW ps \in SUBSET Properties, EnterSearch(i, ps)
        PROVE  Cardinality(Clicked(p)') <= acted'[p]["click"]
    <3>1. Clicked(p)' \subseteq Clicked(p)
      BY <2>4 DEF EnterSearch, Extend, Clicked, TypeOK
    <3>2. acted'[p]["click"] >= acted[p]["click"]
      BY <2>4, <2>1 DEF EnterSearch
    <3> QED  BY <3>1, <3>2, <2>1, Paid
  <2>5. CASE UNCHANGED <<shown, clicked, acted>>
    BY <2>5, <2>1 DEF Clicked
  <2> QED
    BY <2>2, <2>3, <2>4, <2>5 DEF Next, EnterComparison, Look, Disperse, vars
<1> QED  BY <1>1, <1>2, TypeCorrect, PTL DEF Spec

\* A client is only ever shown an entered and compared search.
THEOREM AlwaysServedCompared == Spec => []ServedCompared
<1>1. Init => ServedCompared
  BY DEF Init, ServedCompared
<1>2. TypeOK /\ ServedCompared /\ [Next]_vars => ServedCompared'
  BY DEF TypeOK, ServedCompared, Next, vars, EnterSearch, EnterComparison, EnterAction,
         EnterLabel, Look, Disperse
<1> QED  BY <1>1, <1>2, TypeCorrect, PTL DEF Spec
=============================================================================
