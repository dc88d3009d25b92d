------------------------ MODULE SearchServing_proofs ------------------------
(***************************************************************************)
(* Proofs about SearchServing for any number of threads, users, conditions *)
(* and properties, and any bounds: the inductive invariant, what clients   *)
(* and later readers may rely on, and that SearchServing implements        *)
(* SearchLedger, so that the accounts proved for the ledger are those of   *)
(* the tables.                                                             *)
(***************************************************************************)
EXTENDS SearchServing, FiniteSetTheorems, SequenceTheorems, TLAPS

-----------------------------------------------------------------------------
(* What the data operators return.                                         *)

\* Candidates are a duplicate-free sequence of properties.
LEMMA HitsAreSequences ==
    ASSUME NEW k \in Conditions, NEW s \in Hits(k)
    PROVE  /\ s \in Seq(Properties)
           /\ DOMAIN s = 1 .. Len(s)
           /\ IsInjective(s)
           /\ Range(s) \subseteq Properties
<1>1. PICK n \in 0 .. k.candidate_limit : s \in Injection(1 .. n, Properties)
  BY DEF Hits
<1>2. n \in Nat
  BY ServingConstants
<1>3. s \in [1 .. n -> Properties] /\ IsInjective(s)
  BY <1>1 DEF Injection
<1> QED  BY <1>2, <1>3 DEF Range

\* The reranked items are a permutation of the candidates.
LEMMA RankingsPermute ==
    ASSUME NEW k \in Conditions, NEW c \in Hits(k), NEW s \in Rankings(c)
    PROVE  /\ s \in Seq(Properties)
           /\ Len(s) = Len(c)
           /\ DOMAIN s = 1 .. Len(c)
           /\ IsInjective(s)
           /\ \A i \in DOMAIN s : s[i] \in Range(c)
           /\ Range(s) \subseteq Properties
<1>1. c \in Seq(Properties) /\ Range(c) \subseteq Properties
  BY HitsAreSequences
<1>2. s \in [1 .. Len(c) -> Range(c)] /\ IsInjective(s)
  BY DEF Rankings, Injection
<1>3. Len(c) \in Nat
  BY <1>1
<1>4. s \in [1 .. Len(c) -> Properties]
  BY <1>1, <1>2
<1>5. s \in Seq(Properties) /\ Len(s) = Len(c)
  BY <1>3, <1>4
<1>6. Range(s) \subseteq Properties
  BY <1>4 DEF Range
<1> QED  BY <1>2, <1>5, <1>6

\* How many positions differ is a number, at most the shorter length.
LEMMA ChangedCountType ==
    ASSUME NEW m \in Seq(Properties), NEW r \in Seq(Properties), Len(m) = Len(r)
    PROVE  /\ IsFiniteSet(ChangedPositions(m, r))
           /\ ChangedPositions(m, r) = {i \in 1 .. Len(r) : m[i] # r[i]}
           /\ ChangedCount(m, r) \in Nat
           /\ ChangedCount(m, r) <= Len(r)
<1>1. ChangedPositions(m, r) = {i \in 1 .. Len(r) : m[i] # r[i]}
  BY DEF ChangedPositions
<1>2. IsFiniteSet(1 .. Len(r)) /\ Cardinality(1 .. Len(r)) = Len(r)
  <2>1. \A n \in Nat : IsFiniteSet(1 .. n) /\ Cardinality(1 .. n) = n
    <3> SUFFICES ASSUME NEW n \in Nat
                 PROVE  IsFiniteSet(1 .. n) /\ Cardinality(1 .. n) = n
      OBVIOUS
    <3>1. /\ IsFiniteSet(1 .. n)
          /\ Cardinality(1 .. n) = IF 1 > n THEN 0 ELSE n - 1 + 1
      BY FS_Interval
    <3> QED  BY <3>1
  <2> QED  BY <2>1
<1>3. ChangedPositions(m, r) \in SUBSET (1 .. Len(r))
  BY <1>1
<1>4. IsFiniteSet(ChangedPositions(m, r))
      /\ Cardinality(ChangedPositions(m, r)) <= Cardinality(1 .. Len(r))
  BY <1>2, <1>3, FS_Subset
<1>5. Cardinality(ChangedPositions(m, r)) \in Nat
  BY <1>4, FS_CardinalityType
<1> QED  BY <1>1, <1>2, <1>4, <1>5 DEF ChangedCount

\* A permutation never differs in exactly one place, and a different first
\* item means a second difference.
LEMMA PermutationsChangeTwice ==
    ASSUME NEW k \in Conditions, NEW m \in Hits(k), NEW r \in Rankings(m)
    PROVE  /\ ChangedCount(m, r) # 1
           /\ Top1Changed(m, r) => ChangedCount(m, r) >= 2
<1>1. /\ m \in Seq(Properties) /\ IsInjective(m) /\ DOMAIN m = 1 .. Len(m)
      /\ r \in Seq(Properties) /\ IsInjective(r) /\ DOMAIN r = 1 .. Len(m)
      /\ Len(r) = Len(m)
      /\ \A i \in DOMAIN r : r[i] \in Range(m)
  BY HitsAreSequences, RankingsPermute
<1> DEFINE C == ChangedPositions(m, r)
<1>2. /\ IsFiniteSet(C) /\ C = {i \in 1 .. Len(m) : m[i] # r[i]}
      /\ Cardinality(C) \in Nat /\ ChangedCount(m, r) = Cardinality(C)
  BY <1>1, ChangedCountType DEF ChangedCount
<1>3. Cardinality(C) # 1
  <2>1. SUFFICES ASSUME NEW i, C = {i} PROVE FALSE
    BY <1>2, FS_Singleton
  <2>2. i \in 1 .. Len(m) /\ m[i] # r[i]
    BY <2>1, <1>2
  <2>3. PICK j \in 1 .. Len(m) : r[i] = m[j]
    BY <2>2, <1>1 DEF Range
  <2>4. j # i /\ j \notin C
    BY <2>1, <2>2, <2>3
  <2>5. m[j] = r[j]
    BY <2>4, <1>2
  <2>6. r[i] = r[j]
    BY <2>3, <2>5
  <2> QED  BY <2>2, <2>3, <2>4, <2>6, <1>1 DEF IsInjective
<1>4. ASSUME Top1Changed(m, r) PROVE Cardinality(C) >= 2
  <2>1. 1 \in C
    BY <1>1, <1>2, <1>4 DEF Top1Changed
  <2>2. Cardinality(C) # 0
    BY <2>1, <1>2, FS_EmptySet
  <2> QED  BY <2>2, <1>2, <1>3
<1> QED  BY <1>2, <1>3, <1>4

\* The two UPSERTs keep the table well typed.
LEMMA ImpressType ==
    ASSUME NEW T, DOMAIN T \subseteq Properties, T \in [DOMAIN T -> StatsRows],
           NEW ps \in SUBSET Properties
    PROVE  /\ DOMAIN Impress(T, ps) \subseteq Properties
           /\ Impress(T, ps) \in [DOMAIN Impress(T, ps) -> StatsRows]
<1>1. \A q : RowOf(T, q) \in StatsRows
  BY DEF RowOf, NoStats, StatsRows, Zero
<1>2. \A row \in StatsRows : ImpressedRow(row) \in StatsRows
  BY DEF ImpressedRow, StatsRows, Rate, Zero
<1> QED  BY <1>1, <1>2 DEF Impress

LEMMA ActType ==
    ASSUME NEW T, DOMAIN T \subseteq Properties, T \in [DOMAIN T -> StatsRows],
           NEW p \in Properties, NEW a \in Actions
    PROVE  /\ DOMAIN Act(T, p, a) \subseteq Properties
           /\ Act(T, p, a) \in [DOMAIN Act(T, p, a) -> StatsRows]
<1>1. \A q : RowOf(T, q) \in StatsRows
  BY DEF RowOf, NoStats, StatsRows, Zero
<1>2. \A row \in StatsRows : ActedRow(row, a) \in StatsRows
  BY DEF ActedRow, StatsRows, Rate, Zero
<1> QED  BY <1>1, <1>2 DEF Act

-----------------------------------------------------------------------------
(* What the database and the handlers hold.                                *)

Inv == TypeOK /\ HandlersMatchTables /\ ComparesMatchLogs

\* A thread that has ranked its candidates.
LEMMA RankedHandler ==
    ASSUME Inv, NEW t \in Threads,
           handlers[t].pc \in {"insert_log", "commit_log", "compare_log", "cache_set"}
    PROVE  LET h == handlers[t] IN
           /\ h \in HandlerStates /\ LocalsSet(h) /\ IdsOwned(h)
           /\ h.query \in Queries /\ h.command = None /\ h.body = None
           /\ h.query.condition \in Conditions /\ h.query.condition.q \in STRING
           /\ h.query.condition.limit \in Nat \ {0}
           /\ h.candidates \in Seq(Properties) /\ h.reranked \in Seq(Properties)
           /\ h.candidates \in Hits(h.query.condition)
           /\ h.reranked \in Rankings(h.candidates)
           /\ Len(h.candidates) = Len(h.reranked)
           /\ Range(h.reranked) \subseteq Properties
<1> DEFINE h == handlers[t]
<1>1. h \in HandlerStates /\ LocalsSet(h) /\ IdsOwned(h)
  BY DEF Inv, TypeOK, HandlersMatchTables
<1>2. /\ h.query # None /\ h.command = None /\ h.body = None
      /\ h.candidates \in Hits(h.query.condition)
      /\ h.reranked \in Rankings(h.candidates)
  BY <1>1 DEF LocalsSet, Searching
<1>3. h.query \in Queries /\ h.candidates \in Seq(Properties) /\ h.reranked \in Seq(Properties)
  BY <1>1, <1>2 DEF HandlerStates
<1>4. /\ h.query.condition \in Conditions /\ h.query.condition.q \in STRING
      /\ h.query.condition.limit \in Nat \ {0}
  BY <1>3, ServingConstants DEF Queries
<1>5. Len(h.reranked) = Len(h.candidates) /\ Range(h.reranked) \subseteq Properties
  BY <1>2, <1>4, RankingsPermute
<1> QED  BY <1>1, <1>2, <1>3, <1>4, <1>5

\* The rows and the response built from such a thread.
LEMMA NewRowsType ==
    ASSUME Inv, NEW t \in Threads,
           handlers[t].pc \in {"insert_log", "commit_log", "compare_log", "cache_set"}
    PROVE  LET h == handlers[t] IN
           /\ NewLog(h) \in LogRows
           /\ NewLog(h).result_ids = h.reranked /\ NewLog(h).query = h.query.condition.q
           /\ NewLog(h).clicked_id = None /\ NewLog(h).actioned_id = None
           /\ NewLog(h).action_type = None
           /\ h.pc = "compare_log" => NewCompare(h) \in CompareRows
           /\ h.pc = "cache_set" => NewResponse(h) \in Responses
           /\ Len(NewResponse(h).items) <= h.query.condition.limit
           /\ Len(NewResponse(h).items) <= Len(h.reranked)
           /\ \A n \in 1 .. Len(NewResponse(h).items) :
                  NewResponse(h).items[n] = h.reranked[n]
<1> DEFINE h == handlers[t]
<1>1. /\ h \in HandlerStates /\ LocalsSet(h) /\ IdsOwned(h)
      /\ h.query \in Queries
      /\ h.query.condition.q \in STRING /\ h.query.condition.limit \in Nat \ {0}
      /\ h.candidates \in Seq(Properties) /\ h.reranked \in Seq(Properties)
      /\ Len(h.candidates) = Len(h.reranked)
  BY RankedHandler
<1>0. MaxLogs \in Nat
  BY ServingConstants
<1>2. NewLog(h) \in LogRows
  BY <1>1 DEF NewLog, LogRows, Queries
<1>3. ASSUME h.pc = "compare_log" PROVE NewCompare(h) \in CompareRows
  <2>1. h.search_log_id \in 1 .. MaxLogs
    BY <1>0, <1>1, <1>3 DEF IdsOwned, Inv, TypeOK
  <2>2. ChangedCount(h.candidates, h.reranked) \in Nat
    BY <1>1, ChangedCountType
  <2>3. Top1Changed(h.candidates, h.reranked) \in BOOLEAN
    BY DEF Top1Changed
  <2> QED  BY <1>1, <2>1, <2>2, <2>3 DEF NewCompare, CompareRows
<1>4. /\ NewResponse(h).items \in Seq(Properties)
      /\ Len(NewResponse(h).items) <= h.query.condition.limit
      /\ Len(NewResponse(h).items) <= Len(h.reranked)
      /\ \A n \in 1 .. Len(NewResponse(h).items) :
             NewResponse(h).items[n] = h.reranked[n]
  BY <1>1 DEF NewResponse, Prefix
<1>5. ASSUME h.pc = "cache_set" PROVE NewResponse(h) \in Responses
  <2>1. h.search_log_id \in 1 .. MaxLogs /\ h.compare_log_id \in Nat \ {0}
    BY <1>0, <1>1, <1>5 DEF IdsOwned, Inv, TypeOK
  <2> QED  BY <1>1, <1>4, <2>1 DEF NewResponse, Responses
<1> QED  BY <1>2, <1>3, <1>4, <1>5 DEF NewLog

LEMMA IdleType == Idle \in HandlerStates /\ LocalsSet(Idle)
<1>1. 0 \in 0 .. MaxLogs
  BY ServingConstants
<1>2. Idle \in HandlerStates
  BY <1>1 DEF Idle, HandlerStates, Phases, Statuses
<1>3. LocalsSet(Idle)
  BY DEF Idle, LocalsSet, Searching
<1> QED  BY <1>2, <1>3

\* A handler about to answer.
LEMMA AnsweredType ==
    ASSUME Inv, NEW t \in Threads, ~At(t, "idle"), ~At(t, "reply"),
           NEW status \in {200, 404, 500, 502}, NEW body \in Responses \cup {None},
           body # None => status = 200 /\ handlers[t].query # None
    PROVE  LET X == Answered(handlers[t], status, body) IN
           /\ X \in HandlerStates /\ LocalsSet(X)
           /\ X.pc = "reply" /\ X.status = status /\ X.body = body
           /\ X.query = handlers[t].query /\ X.command = handlers[t].command
<1> DEFINE h == handlers[t]
           X == Answered(h, status, body)
<1>1. h \in HandlerStates /\ LocalsSet(h)
  BY DEF Inv, TypeOK, HandlersMatchTables
<1>2. (h.query = None) # (h.command = None)
  BY <1>1 DEF LocalsSet, HandlerStates, Phases, Searching, At
<1>3. /\ X.pc = "reply" /\ X.status = status /\ X.body = body
      /\ X.query = h.query /\ X.command = h.command
  BY DEF Answered, Idle
<1>4. X \in HandlerStates
  <2>1. /\ h.query \in Queries \cup {None} /\ h.command \in Commands \cup {None}
        /\ status \in Statuses /\ "reply" \in Phases
    BY <1>1 DEF HandlerStates, Statuses, Phases
  <2> QED  BY <2>1, IdleType DEF Answered, HandlerStates
<1>5. LocalsSet(X)
  BY <1>2, <1>3 DEF LocalsSet, Searching
<1> QED  BY <1>3, <1>4, <1>5

\* A step of one thread that touches no table, and after which it holds no
\* claim on a table's rows.
LEMMA QuietStep ==
    ASSUME Inv, NEW t \in Threads, NEW X \in HandlerStates,
           handlers' = [handlers EXCEPT ![t] = X],
           LocalsSet(X), X.pc \notin {"commit_log", "compare_log", "cache_set"},
           redis' \in [Conditions -> Responses \cup {None}],
           UNCHANGED database
    PROVE  Inv'
<1>1. TypeOK'
  BY DEF Inv, TypeOK, database
<1>2. handlers'[t] = X /\ \A u \in Threads : u # t => handlers'[u] = handlers[u]
  BY DEF Inv, TypeOK
<1>3. \A u \in Threads : LocalsSet(handlers'[u])
  BY <1>2 DEF Inv, HandlersMatchTables
<1>4. \A u \in Threads : IdsOwned(handlers[u])'
  <2> SUFFICES ASSUME NEW u \in Threads PROVE IdsOwned(handlers[u])'
    OBVIOUS
  <2>1. CASE u = t
    BY <2>1, <1>2 DEF IdsOwned
  <2>2. CASE u # t
    BY <2>2, <1>2 DEF IdsOwned, database, Inv, HandlersMatchTables
  <2> QED  BY <2>1, <2>2
<1>5. \A u, v \in Threads :
        u # v /\ Claims(handlers'[u]) /\ Claims(handlers'[v])
            => handlers'[u].search_log_id # handlers'[v].search_log_id
  BY <1>2 DEF Inv, HandlersMatchTables, Claims
<1>6. ComparesMatchLogs'
  BY DEF Inv, ComparesMatchLogs, database
<1> QED  BY <1>1, <1>3, <1>4, <1>5, <1>6 DEF Inv, HandlersMatchTables
\* One lemma per action that writes a table.
LEMMA InsertSearchLogInv ==
    ASSUME Inv, NEW t \in Threads, InsertSearchLog(t)
    PROVE  Inv'
<1> DEFINE h == handlers[t]
           X == [h EXCEPT !.pc = "commit_log", !.search_log_id = log_seq + 1]
<1>0. MaxLogs \in Nat
  BY ServingConstants
<1>1. /\ h.pc = "insert_log" /\ h \in HandlerStates /\ LocalsSet(h)
      /\ handlers \in [Threads -> HandlerStates] /\ log_seq \in 0 .. MaxLogs
      /\ log_seq' = log_seq + 1 /\ log_seq < MaxLogs
      /\ handlers' = [handlers EXCEPT ![t] = X]
      /\ UNCHANGED <<redis, search_logs, ranking_compare_logs, compare_seq, property_stats>>
  BY DEF Inv, TypeOK, HandlersMatchTables, InsertSearchLog, At, Become
<1>2. handlers'[t] = X /\ \A u \in Threads : u # t => handlers'[u] = handlers[u]
  BY <1>1
<1>3. X \in HandlerStates
  <2>1. log_seq + 1 \in 0 .. MaxLogs
    BY <1>0, <1>1
  <2> QED  BY <1>1, <2>1 DEF HandlerStates, Phases
<1>4. TypeOK'
  BY <1>0, <1>1, <1>3 DEF Inv, TypeOK
<1>5. \A u \in Threads : LocalsSet(handlers'[u])
  <2>1. LocalsSet(X)
    BY <1>1 DEF LocalsSet, HandlerStates, Searching
  <2> QED  BY <2>1, <1>2 DEF Inv, HandlersMatchTables
<1>6. \A u \in Threads : IdsOwned(handlers[u])'
  <2> SUFFICES ASSUME NEW u \in Threads PROVE IdsOwned(handlers[u])'
    OBVIOUS
  <2>1. CASE u = t
    <3>1. X.pc = "commit_log" /\ X.search_log_id = log_seq + 1
      BY <1>1 DEF HandlerStates
    <3>2. log_seq + 1 \in (1 .. log_seq') \ DOMAIN search_logs'
      BY <1>1 DEF Inv, TypeOK
    <3> QED  BY <2>1, <3>1, <3>2, <1>2 DEF IdsOwned
  <2>2. CASE u # t
    <3>1. IdsOwned(handlers[u]) /\ handlers'[u] = handlers[u]
      BY <2>2, <1>2 DEF Inv, HandlersMatchTables
    <3> QED  BY <3>1, <1>1 DEF IdsOwned
  <2> QED  BY <2>1, <2>2
<1>7. \A u, v \in Threads :
        u # v /\ Claims(handlers'[u]) /\ Claims(handlers'[v])
            => handlers'[u].search_log_id # handlers'[v].search_log_id
  <2>1. ASSUME NEW u \in Threads, Claims(handlers[u])
        PROVE  handlers[u].search_log_id # log_seq + 1
    BY <2>1, <1>1 DEF Inv, TypeOK, HandlersMatchTables, IdsOwned, Claims
  <2>2. X.search_log_id = log_seq + 1
    BY <1>1 DEF HandlerStates
  <2> QED  BY <2>1, <2>2, <1>2 DEF Inv, HandlersMatchTables
<1>8. ComparesMatchLogs'
  BY <1>1 DEF Inv, ComparesMatchLogs
<1> QED  BY <1>4, <1>5, <1>6, <1>7, <1>8 DEF Inv, HandlersMatchTables

LEMMA CommitSearchLogInv ==
    ASSUME Inv, NEW t \in Threads, CommitSearchLog(t)
    PROVE  Inv'
<1> DEFINE h == handlers[t]
           i == h.search_log_id
           X == handlers'[t]
<1>0. MaxLogs \in Nat
  BY ServingConstants
<1>1. h.pc = "commit_log"
  BY DEF CommitSearchLog, At
<1>a. /\ h \in HandlerStates /\ LocalsSet(h) /\ IdsOwned(h)
      /\ h.query \in Queries /\ h.command = None
      /\ Range(h.reranked) \subseteq Properties
  BY <1>1, RankedHandler
<1>b. /\ NewLog(h) \in LogRows
      /\ NewLog(h).result_ids = h.reranked /\ NewLog(h).query = h.query.condition.q
  BY <1>1, NewRowsType
<1>2. i \in 1 .. log_seq /\ i \notin DOMAIN search_logs
  BY <1>1, <1>a DEF IdsOwned
<1>3. /\ DOMAIN search_logs' = DOMAIN search_logs \cup {i}
      /\ search_logs'[i] = NewLog(h)
      /\ \A j \in DOMAIN search_logs : search_logs'[j] = search_logs[j]
      /\ search_logs' \in [DOMAIN search_logs' -> LogRows]
  BY <1>b, <1>2 DEF CommitSearchLog, WithRow, Inv, TypeOK
<1>4. /\ \/ X = [h EXCEPT !.pc = "compare_log"]
         \/ X = Answered(h, 500, None)
      /\ \A u \in Threads : u # t => handlers'[u] = handlers[u]
      /\ handlers' = [handlers EXCEPT ![t] = X]
  BY DEF CommitSearchLog, Become, Answer, Inv, TypeOK
<1>5. X \in HandlerStates /\ LocalsSet(X)
  <2>1. [h EXCEPT !.pc = "compare_log"] \in HandlerStates
    BY <1>a DEF HandlerStates, Phases
  <2>2. LocalsSet([h EXCEPT !.pc = "compare_log"])
    BY <1>1, <1>a DEF LocalsSet, HandlerStates, Searching
  <2>3. Answered(h, 500, None) \in HandlerStates /\ LocalsSet(Answered(h, 500, None))
    BY <1>1, AnsweredType DEF At
  <2> QED  BY <1>4, <2>1, <2>2, <2>3
<1>6. TypeOK'
  <2>1. /\ DOMAIN property_stats' \subseteq Properties
        /\ property_stats' \in [DOMAIN property_stats' -> StatsRows]
    BY <1>a, ImpressType DEF CommitSearchLog, Inv, TypeOK
  <2>2. handlers' \in [Threads -> HandlerStates]
    BY <1>4, <1>5 DEF Inv, TypeOK
  <2> QED  BY <1>2, <1>3, <2>1, <2>2 DEF CommitSearchLog, Inv, TypeOK
<1>7. \A u \in Threads : IdsOwned(handlers[u])'
  <2> SUFFICES ASSUME NEW u \in Threads PROVE IdsOwned(handlers[u])'
    OBVIOUS
  <2>0. UNCHANGED <<log_seq, ranking_compare_logs>>
    BY DEF CommitSearchLog
  <2>1. CASE u = t /\ X = [h EXCEPT !.pc = "compare_log"]
    <3>1. /\ X.pc = "compare_log" /\ X.search_log_id = i
          /\ X.reranked = h.reranked /\ X.query = h.query
      BY <2>1, <1>a DEF HandlerStates
    <3>2. \A n \in DOMAIN ranking_compare_logs : ranking_compare_logs[n].search_log_id # i
      BY <1>2 DEF Inv, ComparesMatchLogs
    <3> QED  BY <2>0, <2>1, <3>1, <3>2, <1>b, <1>3 DEF IdsOwned
  <2>2. CASE u = t /\ X = Answered(h, 500, None)
    BY <2>2 DEF IdsOwned, Answered, Idle
  <2>3. CASE u # t
    <3>1. IdsOwned(handlers[u]) /\ handlers'[u] = handlers[u]
      BY <2>3, <1>4 DEF Inv, HandlersMatchTables
    <3>2. handlers[u].pc = "commit_log" => handlers[u].search_log_id # i
      BY <2>3, <1>1 DEF Inv, HandlersMatchTables, Claims
    <3> QED  BY <2>0, <3>1, <3>2, <1>3 DEF IdsOwned
  <2> QED  BY <2>1, <2>2, <2>3, <1>4
<1>8. \A u, v \in Threads :
        u # v /\ Claims(handlers'[u]) /\ Claims(handlers'[v])
            => handlers'[u].search_log_id # handlers'[v].search_log_id
  <2>1. Claims(X) => Claims(h) /\ X.search_log_id = i
    <3>1. CASE X = [h EXCEPT !.pc = "compare_log"]
      BY <3>1, <1>1, <1>a DEF Claims, HandlerStates
    <3>2. CASE X = Answered(h, 500, None)
      <4>1. X.pc = "reply"
        BY <3>2 DEF Answered, Idle
      <4> QED  BY <4>1 DEF Claims
    <3> QED  BY <3>1, <3>2, <1>4
  <2> QED  BY <2>1, <1>4 DEF Inv, HandlersMatchTables
<1>9. ComparesMatchLogs'
  BY <1>3 DEF Inv, ComparesMatchLogs, CommitSearchLog
<1> QED  BY <1>4, <1>5, <1>6, <1>7, <1>8, <1>9 DEF Inv, HandlersMatchTables
LEMMA CreateCompareLogInv ==
    ASSUME Inv, NEW t \in Threads, CreateCompareLog(t)
    PROVE  Inv'
<1> DEFINE h == handlers[t]
           i == compare_seq + 1
           X == handlers'[t]
           Y == [h EXCEPT !.pc = "cache_set", !.compare_log_id = i]
<1>1. h.pc = "compare_log" /\ i \in Nat \ {0}
  BY DEF CreateCompareLog, At, Inv, TypeOK
<1>2. /\ h \in HandlerStates /\ LocalsSet(h) /\ IdsOwned(h)
      /\ h.query \in Queries /\ h.command = None
  BY <1>1, RankedHandler
<1>3. /\ NewCompare(h) \in CompareRows
      /\ NewCompare(h).search_log_id = h.search_log_id
      /\ NewCompare(h).reranked_result_ids = h.reranked
  BY <1>1, NewRowsType DEF NewCompare
<1>4. i \notin DOMAIN ranking_compare_logs
  BY DEF Inv, TypeOK
<1>5. /\ DOMAIN ranking_compare_logs' = DOMAIN ranking_compare_logs \cup {i}
      /\ ranking_compare_logs'[i] = NewCompare(h)
      /\ \A n \in DOMAIN ranking_compare_logs :
             ranking_compare_logs'[n] = ranking_compare_logs[n]
      /\ ranking_compare_logs' \in [DOMAIN ranking_compare_logs' -> CompareRows]
      /\ compare_seq' = i
      /\ UNCHANGED <<redis, search_logs, log_seq, property_stats>>
  BY <1>3, <1>4 DEF CreateCompareLog, WithRow, Inv, TypeOK
<1>6. /\ X = Y \/ X = Answered(h, 500, None)
      /\ \A u \in Threads : u # t => handlers'[u] = handlers[u]
      /\ handlers' = [handlers EXCEPT ![t] = X]
  BY DEF CreateCompareLog, Become, Answer, Inv, TypeOK
<1>7. Y \in HandlerStates /\ LocalsSet(Y)
  <2>1. Y \in HandlerStates
    BY <1>1, <1>2 DEF HandlerStates, Phases
  <2>2. LocalsSet(Y)
    BY <1>1, <1>2 DEF LocalsSet, HandlerStates, Searching
  <2> QED  BY <2>1, <2>2
<1>8. X \in HandlerStates /\ LocalsSet(X)
  <2>1. Answered(h, 500, None) \in HandlerStates /\ LocalsSet(Answered(h, 500, None))
    BY <1>1, AnsweredType DEF At
  <2> QED  BY <1>6, <1>7, <2>1
<1>9. TypeOK'
  <2>1. handlers' \in [Threads -> HandlerStates]
    BY <1>6, <1>8 DEF Inv, TypeOK
  <2>2. DOMAIN ranking_compare_logs' \subseteq 1 .. compare_seq'
    BY <1>1, <1>5 DEF Inv, TypeOK
  <2> QED  BY <1>1, <1>5, <2>1, <2>2 DEF Inv, TypeOK
<1>10. \A u \in Threads : IdsOwned(handlers[u])'
  <2> SUFFICES ASSUME NEW u \in Threads PROVE IdsOwned(handlers[u])'
    OBVIOUS
  <2>1. CASE u = t /\ X = Y
    <3>1. /\ Y.pc = "cache_set" /\ Y.search_log_id = h.search_log_id
          /\ Y.reranked = h.reranked /\ Y.query = h.query /\ Y.compare_log_id = i
      BY <1>2 DEF HandlerStates
    <3> QED  BY <2>1, <3>1, <1>1, <1>2, <1>3, <1>5 DEF IdsOwned
  <2>2. CASE u = t /\ X = Answered(h, 500, None)
    BY <2>2 DEF IdsOwned, Answered, Idle
  <2>3. CASE u # t
    <3>1. IdsOwned(handlers[u]) /\ handlers'[u] = handlers[u]
      BY <2>3, <1>6 DEF Inv, HandlersMatchTables
    <3>2. handlers[u].pc = "compare_log" => handlers[u].search_log_id # h.search_log_id
      BY <2>3, <1>1 DEF Inv, HandlersMatchTables, Claims
    <3> QED  BY <3>1, <3>2, <1>3, <1>5 DEF IdsOwned
  <2> QED  BY <2>1, <2>2, <2>3, <1>6
<1>11. \A u, v \in Threads :
        u # v /\ Claims(handlers'[u]) /\ Claims(handlers'[v])
            => handlers'[u].search_log_id # handlers'[v].search_log_id
  <2>1. ~Claims(X)
    <3>1. CASE X = Y
      BY <3>1, <1>2 DEF Claims, HandlerStates
    <3>2. CASE X = Answered(h, 500, None)
      <4>1. X.pc = "reply"
        BY <3>2 DEF Answered, Idle
      <4> QED  BY <4>1 DEF Claims
    <3> QED  BY <3>1, <3>2, <1>6
  <2> QED  BY <2>1, <1>6 DEF Inv, HandlersMatchTables
<1>12. ComparesMatchLogs'
  BY <1>1, <1>2, <1>3, <1>5 DEF Inv, ComparesMatchLogs, IdsOwned
<1> QED  BY <1>6, <1>8, <1>9, <1>10, <1>11, <1>12 DEF Inv, HandlersMatchTables

\* A feedback rewrites labels only: what was searched and shown stays.
LEMMA ApplyFeedbackEffect ==
    ASSUME Inv, NEW t \in Threads, ApplyFeedback(t)
    PROVE  LET c == handlers[t].command IN
           /\ c \in Commands /\ c.property_id \in Properties /\ c.action \in Actions
           /\ DOMAIN search_logs' = DOMAIN search_logs
           /\ search_logs' \in [DOMAIN search_logs -> LogRows]
           /\ \A i \in DOMAIN search_logs :
                  /\ search_logs'[i] = IF i = c.search_log_id
                                       THEN Labelled(search_logs[i], c) ELSE search_logs[i]
                  /\ search_logs'[i].result_ids = search_logs[i].result_ids
                  /\ search_logs'[i].query = search_logs[i].query
                  /\ search_logs'[i].user_id = search_logs[i].user_id
<1> DEFINE c == handlers[t].command
<1>1. c \in Commands /\ c.property_id \in Properties /\ c.action \in Actions
  <2>1. handlers[t] \in HandlerStates /\ LocalsSet(handlers[t]) /\ handlers[t].pc = "feedback"
    BY DEF Inv, TypeOK, HandlersMatchTables, ApplyFeedback, At
  <2>2. c \in Commands
    BY <2>1 DEF LocalsSet, HandlerStates
  <2> QED  BY <2>2 DEF Commands, ApplyFeedback
<1>2. \A row \in LogRows : /\ Labelled(row, c) \in LogRows
                           /\ Labelled(row, c).result_ids = row.result_ids
                           /\ Labelled(row, c).query = row.query
                           /\ Labelled(row, c).user_id = row.user_id
  BY <1>1 DEF Labelled, LogRows
<1>3. /\ DOMAIN search_logs' = DOMAIN search_logs
      /\ \A i \in DOMAIN search_logs :
             search_logs'[i] = IF i = c.search_log_id
                               THEN Labelled(search_logs[i], c) ELSE search_logs[i]
      /\ search_logs' = [i \in DOMAIN search_logs |-> search_logs'[i]]
  BY DEF ApplyFeedback, Inv, TypeOK
<1>4. \A i \in DOMAIN search_logs : search_logs[i] \in LogRows
  BY DEF Inv, TypeOK
<1> QED  BY <1>1, <1>2, <1>3, <1>4

LEMMA ApplyFeedbackInv ==
    ASSUME Inv, NEW t \in Threads, ApplyFeedback(t)
    PROVE  Inv'
<1> DEFINE h == handlers[t]
           c == h.command
           X == handlers'[t]
<1>1. h.pc = "feedback" /\ UNCHANGED <<redis, log_seq, ranking_compare_logs, compare_seq>>
  BY DEF ApplyFeedback, At
<1>2. /\ c \in Commands /\ c.property_id \in Properties /\ c.action \in Actions
      /\ DOMAIN search_logs' = DOMAIN search_logs
      /\ search_logs' \in [DOMAIN search_logs -> LogRows]
      /\ \A i \in DOMAIN search_logs :
             /\ search_logs'[i].result_ids = search_logs[i].result_ids
             /\ search_logs'[i].query = search_logs[i].query
  BY ApplyFeedbackEffect
<1>3. PICK status \in {200, 404, 500} : handlers' = [handlers EXCEPT ![t] = Answered(h, status, None)]
  BY DEF ApplyFeedback, Answer, Become
<1>4. /\ X = Answered(h, status, None)
      /\ X \in HandlerStates /\ LocalsSet(X) /\ X.pc = "reply"
      /\ \A u \in Threads : u # t => handlers'[u] = handlers[u]
      /\ handlers' = [handlers EXCEPT ![t] = X]
  <2>1. /\ Answered(h, status, None) \in HandlerStates
        /\ LocalsSet(Answered(h, status, None)) /\ Answered(h, status, None).pc = "reply"
    BY <1>1, AnsweredType DEF At
  <2> QED  BY <1>3, <2>1 DEF Inv, TypeOK
<1>5. TypeOK'
  <2>1. /\ DOMAIN property_stats' \subseteq Properties
        /\ property_stats' \in [DOMAIN property_stats' -> StatsRows]
    BY <1>2, ActType DEF ApplyFeedback, Inv, TypeOK
  <2>2. handlers' \in [Threads -> HandlerStates]
    BY <1>4 DEF Inv, TypeOK
  <2> QED  BY <1>1, <1>2, <2>1, <2>2 DEF Inv, TypeOK
<1>6. \A u \in Threads : IdsOwned(handlers[u])'
  <2> SUFFICES ASSUME NEW u \in Threads PROVE IdsOwned(handlers[u])'
    OBVIOUS
  <2>1. CASE u = t
    BY <2>1, <1>4 DEF IdsOwned
  <2>2. CASE u # t
    <3>1. IdsOwned(handlers[u]) /\ handlers'[u] = handlers[u]
      BY <2>2, <1>4 DEF Inv, HandlersMatchTables
    <3> QED  BY <3>1, <1>1, <1>2 DEF IdsOwned
  <2> QED  BY <2>1, <2>2
<1>7. \A u, v \in Threads :
        u # v /\ Claims(handlers'[u]) /\ Claims(handlers'[v])
            => handlers'[u].search_log_id # handlers'[v].search_log_id
  BY <1>4 DEF Claims, Inv, HandlersMatchTables
<1>8. ComparesMatchLogs'
  BY <1>1, <1>2 DEF Inv, ComparesMatchLogs
<1> QED  BY <1>4, <1>5, <1>6, <1>7, <1>8 DEF Inv, HandlersMatchTables
\* The steps of one thread that write no table, one SUFFICES each: the new
\* local state is well typed and its locals are set.
LEMMA QuietActionsInv ==
    ASSUME Inv, NEW t \in Threads,
           \/ StartSearch(t) \/ StartFeedback(t) \/ CacheHit(t) \/ CacheMiss(t)
           \/ SearchCandidates(t) \/ Rerank(t) \/ CacheSet(t) \/ Fail(t) \/ Reply(t)
    PROVE  Inv'
<1> DEFINE h == handlers[t]
           Quiet(X) == /\ X \in HandlerStates /\ LocalsSet(X)
                       /\ X.pc \notin {"commit_log", "compare_log", "cache_set"}
                       /\ handlers' = [handlers EXCEPT ![t] = X]
<1>1. h \in HandlerStates /\ LocalsSet(h) /\ redis \in [Conditions -> Responses \cup {None}]
  BY DEF Inv, TypeOK, HandlersMatchTables
<1>2. SUFFICES /\ \E X : Quiet(X)
               /\ redis' \in [Conditions -> Responses \cup {None}]
               /\ UNCHANGED database
  BY QuietStep
<1>3. CASE StartSearch(t)
  <2>1. PICK q \in Queries : handlers' = [handlers EXCEPT ![t] =
                                 [Idle EXCEPT !.pc = "cache_get", !.query = q]]
    BY <1>3 DEF StartSearch, Become
  <2> DEFINE X == [Idle EXCEPT !.pc = "cache_get", !.query = q]
  <2>2. X \in HandlerStates
    BY IdleType DEF HandlerStates, Phases
  <2>3. X.pc = "cache_get" /\ X.query = q /\ X.command = None /\ X.body = None
    BY DEF Idle
  <2>4. LocalsSet(X)
    BY <2>3, ServingConstants DEF LocalsSet, Searching
  <2> QED  BY <1>1, <1>3, <2>1, <2>2, <2>3, <2>4 DEF StartSearch
<1>4. CASE StartFeedback(t)
  <2>1. PICK c \in Commands : handlers' = [handlers EXCEPT ![t] =
                                 [Idle EXCEPT !.pc = "feedback", !.command = c]]
    BY <1>4 DEF StartFeedback, Become
  <2> DEFINE X == [Idle EXCEPT !.pc = "feedback", !.command = c]
  <2>2. X \in HandlerStates
    BY IdleType DEF HandlerStates, Phases
  <2>3. X.pc = "feedback" /\ X.command = c /\ X.query = None /\ X.body = None
    BY DEF Idle
  <2>4. LocalsSet(X)
    BY <2>3, ServingConstants DEF LocalsSet, Searching
  <2> QED  BY <1>1, <1>4, <2>1, <2>2, <2>3, <2>4 DEF StartFeedback
<1>5. CASE CacheHit(t)
  <2>1. /\ h.pc = "cache_get" /\ h.query \in Queries
        /\ redis[h.query.condition] \in Responses \cup {None}
    BY <1>1, <1>5 DEF CacheHit, At, LocalsSet, Searching, HandlerStates, Queries
  <2> DEFINE X == Answered(h, 200, redis[h.query.condition])
  <2>2. X \in HandlerStates /\ LocalsSet(X) /\ X.pc = "reply"
    BY <2>1, AnsweredType, ServingConstants DEF At
  <2> QED  BY <1>1, <1>5, <2>2 DEF CacheHit, Answer, Become
<1>6. CASE CacheMiss(t)
  <2> DEFINE X == [h EXCEPT !.pc = "candidates"]
  <2>1. X \in HandlerStates /\ X.pc = "candidates"
    BY <1>1 DEF HandlerStates, Phases
  <2>2. LocalsSet(X)
    BY <1>1, <1>6 DEF CacheMiss, At, LocalsSet, HandlerStates, Searching
  <2> QED  BY <1>1, <1>6, <2>1, <2>2 DEF CacheMiss, Become
<1>7. CASE SearchCandidates(t)
  <2>1. PICK s \in Hits(h.query.condition) : handlers' = [handlers EXCEPT ![t] =
                                 [h EXCEPT !.pc = "rerank", !.candidates = s]]
    BY <1>7 DEF SearchCandidates, Become
  <2> DEFINE X == [h EXCEPT !.pc = "rerank", !.candidates = s]
  <2>2. h.pc = "candidates" /\ h.query \in Queries /\ h.query.condition \in Conditions
    BY <1>1, <1>7 DEF SearchCandidates, At, LocalsSet, Searching, HandlerStates, Queries
  <2>3. s \in Seq(Properties)
    BY <2>2, HitsAreSequences
  <2>4. X \in HandlerStates
    BY <1>1, <2>3 DEF HandlerStates, Phases
  <2>5. LocalsSet(X) /\ X.pc = "rerank"
    BY <1>1, <2>2 DEF LocalsSet, HandlerStates, Searching
  <2> QED  BY <1>1, <1>7, <2>1, <2>4, <2>5 DEF SearchCandidates
<1>8. CASE Rerank(t)
  <2>1. PICK s \in Rankings(h.candidates) : handlers' = [handlers EXCEPT ![t] =
                                 [h EXCEPT !.pc = "insert_log", !.reranked = s]]
    BY <1>8 DEF Rerank, Become
  <2> DEFINE X == [h EXCEPT !.pc = "insert_log", !.reranked = s]
  <2>2. h.pc = "rerank" /\ h.query \in Queries /\ h.query.condition \in Conditions
    BY <1>1, <1>8 DEF Rerank, At, LocalsSet, Searching, HandlerStates, Queries
  <2>3. s \in Seq(Properties)
    BY <1>1, <2>2, RankingsPermute DEF LocalsSet
  <2>4. X \in HandlerStates
    BY <1>1, <2>3 DEF HandlerStates, Phases
  <2>5. LocalsSet(X) /\ X.pc = "insert_log"
    BY <1>1, <2>2 DEF LocalsSet, HandlerStates, Searching
  <2> QED  BY <1>1, <1>8, <2>1, <2>4, <2>5 DEF Rerank
<1>9. CASE CacheSet(t)
  <2>1. h.pc = "cache_set"
    BY <1>9 DEF CacheSet, At
  <2>2. h.query \in Queries /\ NewResponse(h) \in Responses
    BY <2>1, RankedHandler, NewRowsType
  <2> DEFINE X == Answered(h, 200, NewResponse(h))
  <2>3. X \in HandlerStates /\ LocalsSet(X) /\ X.pc = "reply"
    BY <2>1, <2>2, AnsweredType, ServingConstants DEF At
  <2>4. redis' \in [Conditions -> Responses \cup {None}]
    BY <1>1, <1>9, <2>2 DEF CacheSet
  <2> QED  BY <1>9, <2>3, <2>4 DEF CacheSet, Answer, Become
<1>10. CASE Fail(t)
  <2>1. PICK status \in {500, 502} : handlers' = [handlers EXCEPT ![t] =
                                         Answered(h, status, None)]
    BY <1>10 DEF Fail, Answer, Become
  <2> DEFINE X == Answered(h, status, None)
  <2>2. X \in HandlerStates /\ LocalsSet(X) /\ X.pc = "reply"
    BY <1>10, AnsweredType DEF Fail, At
  <2> QED  BY <1>1, <1>10, <2>1, <2>2 DEF Fail
<1>11. CASE Reply(t)
  <2>1. Idle.pc = "idle"
    BY DEF Idle
  <2> QED  BY <1>1, <1>11, <2>1, IdleType DEF Reply, Become
<1> QED  BY <1>3, <1>4, <1>5, <1>6, <1>7, <1>8, <1>9, <1>10, <1>11

LEMMA CrashInv == ASSUME Inv, Crash PROVE Inv'
<1>1. handlers' = [t \in Threads |-> Idle] /\ UNCHANGED <<redis, database>>
  BY DEF Crash
<1>2. TypeOK'
  BY <1>1, IdleType DEF Inv, TypeOK, database
<1>3. HandlersMatchTables'
  <2>1. Idle.pc = "idle"
    BY DEF Idle
  <2> QED  BY <1>1, <2>1, IdleType DEF HandlersMatchTables, IdsOwned, Claims
<1>4. ComparesMatchLogs'
  BY <1>1 DEF Inv, ComparesMatchLogs, database
<1> QED  BY <1>2, <1>3, <1>4 DEF Inv

LEMMA ExpireInv == ASSUME Inv, NEW k \in Conditions, Expire(k) PROVE Inv'
  BY DEF Inv, TypeOK, HandlersMatchTables, ComparesMatchLogs, IdsOwned, Expire, database

LEMMA Inductive ==
    /\ Init => Inv
    /\ Inv /\ [Next]_vars => Inv'
<1>1. ASSUME Init PROVE Inv
  <2>1. TypeOK
    <3>1. 0 \in 0 .. MaxLogs
      BY ServingConstants
    <3> QED  BY <1>1, <3>1, IdleType DEF Init, TypeOK
  <2>2. Idle.pc = "idle"
    BY DEF Idle
  <2>3. HandlersMatchTables
    BY <1>1, <2>2, IdleType DEF Init, HandlersMatchTables, IdsOwned, Claims
  <2>4. ComparesMatchLogs
    BY <1>1 DEF Init, ComparesMatchLogs
  <2> QED  BY <2>1, <2>3, <2>4 DEF Inv
<1>2. ASSUME Inv, [Next]_vars PROVE Inv'
  <2>1. ASSUME NEW t \in Threads, StartSearch(t) \/ StartFeedback(t) \/ Handle(t)
        PROVE  Inv'
    BY <1>2, <2>1, QuietActionsInv, InsertSearchLogInv, CommitSearchLogInv,
       CreateCompareLogInv, ApplyFeedbackInv DEF Handle
  <2>2. ASSUME NEW k \in Conditions, Expire(k) PROVE Inv'
    BY <1>2, <2>2, ExpireInv
  <2>3. CASE Crash
    BY <1>2, <2>3, CrashInv
  <2>4. CASE UNCHANGED vars
    BY <1>2, <2>4 DEF vars, database, Inv, TypeOK, HandlersMatchTables, ComparesMatchLogs,
                      IdsOwned
  <2> QED  BY <1>2, <2>1, <2>2, <2>3, <2>4 DEF Next
<1> QED  BY <1>1, <1>2

\* The inductive invariant holds in every reachable state: the three
\* invariants it is made of are proved together, since each step needs them
\* all.
THEOREM AlwaysInv == Spec => []Inv
  BY Inductive, PTL DEF Spec

\* Tables, cache and handlers are always of their types: no statement writes a
\* row for an unknown property, and no id leaves the sequences' ranges.
THEOREM TypeCorrect == Spec => []TypeOK
<1>1. Inv => TypeOK
  BY DEF Inv
<1> QED  BY <1>1, AlwaysInv, PTL

\* What a suspended thread believes about the tables stays true, whatever the
\* other threads do meanwhile.
THEOREM HandlersAlwaysMatchTables == Spec => []HandlersMatchTables
<1>1. Inv => HandlersMatchTables
  BY DEF Inv
<1> QED  BY <1>1, AlwaysInv, PTL

\* Each comparison belongs to a committed search, repeats its ids, and is its
\* only one.
THEOREM ComparesAlwaysMatchLogs == Spec => []ComparesMatchLogs
<1>1. Inv => ComparesMatchLogs
  BY DEF Inv
<1> QED  BY <1>1, AlwaysInv, PTL

-----------------------------------------------------------------------------
(* Logs only grow, and whatever is cached or answered stays backed by them. *)

\* No step withdraws or rewrites what a row says was searched and shown, nor
\* a comparison.
LEMMA TablesGrow ==
    ASSUME Inv, [Next]_vars
    PROVE  /\ \A i \in DOMAIN search_logs :
                  /\ i \in DOMAIN search_logs'
                  /\ search_logs'[i].result_ids = search_logs[i].result_ids
                  /\ search_logs'[i].query = search_logs[i].query
                  /\ search_logs'[i].user_id = search_logs[i].user_id
           /\ \A i \in DOMAIN ranking_compare_logs :
                  /\ i \in DOMAIN ranking_compare_logs'
                  /\ ranking_compare_logs'[i] = ranking_compare_logs[i]
<1>1. ASSUME NEW t \in Threads, CommitSearchLog(t)
      PROVE  /\ UNCHANGED ranking_compare_logs
             /\ \A i \in DOMAIN search_logs :
                    i \in DOMAIN search_logs' /\ search_logs'[i] = search_logs[i]
  <2>1. handlers[t].search_log_id \notin DOMAIN search_logs
    BY <1>1 DEF Inv, HandlersMatchTables, IdsOwned, CommitSearchLog, At
  <2> QED  BY <1>1, <2>1 DEF CommitSearchLog, WithRow
<1>2. ASSUME NEW t \in Threads, CreateCompareLog(t)
      PROVE  /\ UNCHANGED search_logs
             /\ \A i \in DOMAIN ranking_compare_logs :
                    /\ i \in DOMAIN ranking_compare_logs'
                    /\ ranking_compare_logs'[i] = ranking_compare_logs[i]
  <2>1. compare_seq + 1 \notin DOMAIN ranking_compare_logs
    BY DEF Inv, TypeOK
  <2> QED  BY <1>2, <2>1 DEF CreateCompareLog, WithRow
<1>3. ASSUME NEW t \in Threads, ApplyFeedback(t)
      PROVE  /\ UNCHANGED ranking_compare_logs
             /\ \A i \in DOMAIN search_logs :
                  /\ i \in DOMAIN search_logs'
                  /\ search_logs'[i].result_ids = search_logs[i].result_ids
                  /\ search_logs'[i].query = search_logs[i].query
                  /\ search_logs'[i].user_id = search_logs[i].user_id
  BY <1>3, ApplyFeedbackEffect DEF ApplyFeedback
<1>4. CASE UNCHANGED <<search_logs, ranking_compare_logs>>
  BY <1>4
<1> QED
  BY <1>1, <1>2, <1>3, <1>4
  DEF Next, Handle, vars, database, StartSearch, StartFeedback, CacheHit, CacheMiss,
      SearchCandidates, Rerank, InsertSearchLog, CacheSet, Fail, Reply, Expire, Crash

LEMMA BackedStaysBacked ==
    ASSUME Inv, [Next]_vars, NEW r, Backed(r)
    PROVE  /\ Backed(r)'
           /\ search_logs'[r.search_log_id].query = search_logs[r.search_log_id].query
  BY TablesGrow DEF Backed

\* The response a thread is about to cache and to send.
LEMMA NewResponseBacked ==
    ASSUME Inv, NEW t \in Threads, At(t, "cache_set")
    PROVE  LET h == handlers[t]  r == NewResponse(h) IN
           /\ h.query \in Queries /\ h.query.condition \in Conditions
           /\ r \in Responses /\ Backed(r)
           /\ search_logs[r.search_log_id].query = h.query.condition.q
           /\ Len(r.items) <= h.query.condition.limit
<1> DEFINE h == handlers[t]
           r == NewResponse(h)
<1>1. /\ h.query \in Queries /\ h.query.condition \in Conditions
      /\ h.reranked \in Seq(Properties) /\ IdsOwned(h)
  BY RankedHandler DEF At
<1>2. /\ r \in Responses /\ Len(r.items) <= h.query.condition.limit
      /\ Len(r.items) <= Len(h.reranked)
      /\ \A n \in 1 .. Len(r.items) : r.items[n] = h.reranked[n]
  BY NewRowsType DEF At
<1>3. /\ r.search_log_id = h.search_log_id /\ r.compare_log_id = h.compare_log_id
      /\ r.count = Len(h.reranked)
  BY DEF NewResponse
<1> QED  BY <1>1, <1>2, <1>3 DEF IdsOwned, At, Backed

\* A cached response stays backed: expiry, concurrent misses that overwrite
\* each other, failures and crashes never leave the cache ahead of the tables.
LEMMA CacheBackedStep == ASSUME Inv, CacheBacked, [Next]_vars PROVE CacheBacked'
<1> SUFFICES ASSUME NEW k \in Conditions, NEW r, r = redis'[k], r # None
             PROVE  /\ Backed(r)'
                    /\ search_logs'[r.search_log_id].query = k.q
                    /\ Len(r.items) <= k.limit
  BY DEF CacheBacked, Backed
<1>1. CASE redis'[k] = redis[k]
  <2>1. Backed(r) /\ search_logs[r.search_log_id].query = k.q /\ Len(r.items) <= k.limit
    BY <1>1 DEF CacheBacked
  <2> QED  BY <2>1, BackedStaysBacked
<1>2. ASSUME NEW t \in Threads, CacheSet(t), redis'[k] # redis[k]
      PROVE  /\ Backed(r)'
             /\ search_logs'[r.search_log_id].query = k.q
             /\ Len(r.items) <= k.limit
  <2> DEFINE h == handlers[t]
  <2>1. At(t, "cache_set") /\ k = h.query.condition /\ r = NewResponse(h)
    BY <1>2 DEF CacheSet, Inv, TypeOK
  <2>2. UNCHANGED <<search_logs, ranking_compare_logs>>
    BY <1>2 DEF CacheSet, database
  <2>3. Backed(r) /\ search_logs[r.search_log_id].query = k.q /\ Len(r.items) <= k.limit
    BY <2>1, NewResponseBacked
  <2> QED  BY <2>2, <2>3 DEF Backed
<1>3. ASSUME NEW j \in Conditions, Expire(j) PROVE redis'[k] = redis[k]
  BY <1>3 DEF Expire, Inv, TypeOK
<1>4. (\E t \in Threads : CacheSet(t)) \/ redis'[k] = redis[k]
  BY <1>3 DEF Next, Handle, vars, StartSearch, StartFeedback, CacheHit, CacheMiss,
      SearchCandidates, Rerank, InsertSearchLog, CommitSearchLog, CreateCompareLog,
      ApplyFeedback, Fail, Reply, Crash
<1> QED  BY <1>1, <1>2, <1>4

\* A cached response is backed by the tables, for its own query text and limit.
THEOREM AlwaysCacheBacked == Spec => []CacheBacked
<1>1. Init => CacheBacked
  BY DEF Init, CacheBacked
<1> QED  BY <1>1, CacheBackedStep, AlwaysInv, PTL DEF Spec

\* Only three actions answer 200 or 404.
LEMMA WhoAnswers ==
    ASSUME Inv, [Next]_vars, NEW t \in Threads
    PROVE  \/ handlers'[t] = handlers[t]
           \/ CacheHit(t) \/ CacheSet(t) \/ ApplyFeedback(t)
           \/ handlers'[t].pc # "reply"
           \/ handlers'[t].status \notin {200, 404}
<1>1. Idle.pc = "idle"
  BY DEF Idle
<1>2. ASSUME NEW u \in Threads, u # t, StartSearch(u) \/ StartFeedback(u) \/ Handle(u)
      PROVE  handlers'[t] = handlers[t]
  BY <1>2 DEF Handle, StartSearch, StartFeedback, CacheHit, CacheMiss, SearchCandidates,
      Rerank, InsertSearchLog, CommitSearchLog, CreateCompareLog, CacheSet, ApplyFeedback,
      Fail, Reply, Answer, Become, Inv, TypeOK
<1>10. \A X1 : handlers' = [handlers EXCEPT ![t] = X1] => handlers'[t] = X1
  BY DEF Inv, TypeOK
<1>11. handlers[t] \in HandlerStates
  BY DEF Inv, TypeOK
<1>3. ASSUME \/ StartSearch(t) \/ StartFeedback(t) \/ CacheMiss(t) \/ SearchCandidates(t)
             \/ Rerank(t) \/ InsertSearchLog(t) \/ Reply(t)
      PROVE  handlers'[t].pc # "reply"
  <2>1. CASE StartSearch(t) \/ StartFeedback(t) \/ Reply(t)
    <3>1. \A q : /\ [Idle EXCEPT !.pc = "cache_get", !.query = q].pc = "cache_get"
                /\ [Idle EXCEPT !.pc = "feedback", !.command = q].pc = "feedback"
      BY DEF Idle
    <3>2. CASE StartSearch(t)
      BY <1>10, <3>1, <3>2 DEF StartSearch, Become
    <3>3. CASE StartFeedback(t)
      BY <1>10, <3>1, <3>3 DEF StartFeedback, Become
    <3>4. CASE Reply(t)
      BY <1>1, <1>10, <3>4 DEF Reply, Become
    <3> QED  BY <2>1, <3>2, <3>3, <3>4
  <2>2. CASE CacheMiss(t) \/ SearchCandidates(t) \/ Rerank(t) \/ InsertSearchLog(t)
    BY <1>10, <1>11, <2>2 DEF CacheMiss, SearchCandidates, Rerank, InsertSearchLog, Become,
        HandlerStates
  <2> QED  BY <1>3, <2>1, <2>2
<1>4. ASSUME CommitSearchLog(t) \/ CreateCompareLog(t) \/ Fail(t)
      PROVE  handlers'[t].pc # "reply" \/ handlers'[t].status \notin {200, 404}
  <2>1. \A status : Answered(handlers[t], status, None).status = status
    BY DEF Answered, Idle
  <2>2. CASE Fail(t)
    BY <1>10, <2>1, <2>2 DEF Fail, Answer, Become
  <2>3. CASE CommitSearchLog(t)
    <3>1. \/ handlers'[t] = [handlers[t] EXCEPT !.pc = "compare_log"]
          \/ handlers'[t] = Answered(handlers[t], 500, None)
      BY <2>3 DEF CommitSearchLog, Answer, Become, Inv, TypeOK
    <3> QED  BY <1>11, <2>1, <3>1 DEF HandlerStates
  <2>4. CASE CreateCompareLog(t)
    <3> DEFINE Y == [handlers[t] EXCEPT !.pc = "cache_set",
                                        !.compare_log_id = compare_seq + 1]
    <3>1. handlers'[t] = Y \/ handlers'[t] = Answered(handlers[t], 500, None)
      BY <2>4 DEF CreateCompareLog, Answer, Become, Inv, TypeOK
    <3>2. Y.pc = "cache_set"
      BY <1>11 DEF HandlerStates
    <3> HIDE DEF Y
    <3> QED  BY <2>1, <3>1, <3>2
  <2> QED  BY <1>4, <2>2, <2>3, <2>4
<1>6. CASE Crash
  BY <1>1, <1>6 DEF Crash
<1>7. CASE (\E k \in Conditions : Expire(k)) \/ UNCHANGED vars
  BY <1>7 DEF Expire, vars
<1>8. ASSUME NEW u \in Threads, StartSearch(u) \/ StartFeedback(u) \/ Handle(u)
      PROVE  \/ handlers'[t] = handlers[t]
             \/ CacheHit(t) \/ CacheSet(t) \/ ApplyFeedback(t)
             \/ handlers'[t].pc # "reply"
             \/ handlers'[t].status \notin {200, 404}
  BY <1>2, <1>3, <1>4, <1>8 DEF Handle
<1> QED  BY <1>6, <1>7, <1>8 DEF Next

\* So does an answer, whether it was computed or found in the cache.
LEMMA AnswersBackedStep ==
    ASSUME Inv, CacheBacked, AnswersBacked, [Next]_vars PROVE AnswersBacked'
<1> DEFINE Search200(h) == h.pc = "reply" /\ h.status = 200 /\ h.query # None
           Supported(h) == /\ h.body # None
                           /\ Backed(h.body)
                           /\ search_logs[h.body.search_log_id].query = h.query.condition.q
<1>1. SUFFICES ASSUME NEW t \in Threads, NEW X, X = handlers'[t], Search200(X)
               PROVE  /\ X.body # None
                      /\ \A r : r = X.body =>
                           /\ Backed(r)'
                           /\ search_logs'[r.search_log_id].query = X.query.condition.q
  BY DEF AnswersBacked, Backed, At
<1>2. CASE handlers'[t] = handlers[t]
  <2>1. /\ X.body # None /\ Backed(X.body)
        /\ search_logs[X.body.search_log_id].query = X.query.condition.q
    BY <1>1, <1>2 DEF AnswersBacked, At
  <2> QED  BY <2>1, BackedStaysBacked
<1>3. CASE CacheHit(t)
  <2> DEFINE h == handlers[t]
             r == redis[h.query.condition]
  <2>1. h.query \in Queries /\ h.query.condition \in Conditions /\ r # None
    BY <1>3 DEF CacheHit, At, Inv, TypeOK, HandlersMatchTables, LocalsSet, Searching,
                HandlerStates, Queries
  <2>2. X = Answered(h, 200, r) /\ X.body = r /\ X.query = h.query
    BY <1>1, <1>3 DEF CacheHit, Answer, Become, Answered, Idle, Inv, TypeOK
  <2>3. Backed(r) /\ search_logs[r.search_log_id].query = h.query.condition.q
    BY <2>1 DEF CacheBacked
  <2> QED  BY <2>1, <2>2, <2>3, BackedStaysBacked
<1>4. CASE CacheSet(t)
  <2> DEFINE h == handlers[t]
             r == NewResponse(h)
  <2>1. At(t, "cache_set") /\ UNCHANGED <<search_logs, ranking_compare_logs>>
    BY <1>4 DEF CacheSet, database
  <2>2. X = Answered(h, 200, r) /\ X.body = r /\ X.query = h.query
    BY <1>1, <1>4 DEF CacheSet, Answer, Become, Answered, Idle, Inv, TypeOK
  <2>3. /\ Backed(r) /\ r \in Responses
        /\ search_logs[r.search_log_id].query = h.query.condition.q
    BY <2>1, NewResponseBacked
  <2> QED  BY <2>2, <2>3, BackedStaysBacked, ServingConstants
<1>5. ~Search200(X) \/ handlers'[t] = handlers[t] \/ CacheHit(t) \/ CacheSet(t)
  <2>1. ASSUME ApplyFeedback(t) PROVE handlers'[t].query = None
    <3>1. handlers[t].query = None
      BY <2>1 DEF ApplyFeedback, At, Inv, HandlersMatchTables, LocalsSet
    <3>2. \A status : Answered(handlers[t], status, None).query = handlers[t].query
      BY DEF Answered, Idle
    <3> QED  BY <2>1, <3>1, <3>2 DEF ApplyFeedback, Answer, Become, Inv, TypeOK
  <2> QED  BY <1>1, <2>1, WhoAnswers
<1> QED  BY <1>1, <1>2, <1>3, <1>4, <1>5

\* A search answered 200 is in the tables, with its comparison, before the
\* client reads the answer, and for good.
THEOREM AnswersAlwaysBacked == Spec => []AnswersBacked
<1>1. Init => AnswersBacked
  <2>1. Idle.pc = "idle"
    BY DEF Idle
  <2> QED  BY <2>1 DEF Init, AnswersBacked, At
<1> QED  BY <1>1, AnswersBackedStep, AlwaysCacheBacked, AlwaysInv, PTL DEF Spec
-----------------------------------------------------------------------------
\* No comparison claims a single changed position, or a new first item with
\* nothing else moved.
LEMMA ChangesPlausibleStep ==
    ASSUME Inv, ChangesPlausible, [Next]_vars PROVE ChangesPlausible'
<1>1. ASSUME NEW t \in Threads, CreateCompareLog(t) PROVE ChangesPlausible'
  <2> DEFINE h == handlers[t]
             c == NewCompare(h)
  <2>1. /\ h.query.condition \in Conditions
        /\ h.candidates \in Hits(h.query.condition) /\ h.reranked \in Rankings(h.candidates)
        /\ h.candidates \in Seq(Properties) /\ h.reranked \in Seq(Properties)
        /\ Len(h.candidates) = Len(h.reranked)
    BY <1>1, RankedHandler DEF CreateCompareLog, At
  <2>2. /\ c.reranked_result_ids = h.reranked
        /\ c.changed_count = ChangedCount(h.candidates, h.reranked)
        /\ c.top1_changed = Top1Changed(h.candidates, h.reranked)
    BY DEF NewCompare
  <2>3. /\ c.changed_count # 1
        /\ c.top1_changed => c.changed_count >= 2
        /\ c.changed_count <= Len(c.reranked_result_ids)
    BY <2>1, <2>2, PermutationsChangeTwice, ChangedCountType
  <2>4. \A i \in DOMAIN ranking_compare_logs' :
            ranking_compare_logs'[i] = c \/ /\ i \in DOMAIN ranking_compare_logs
                                            /\ ranking_compare_logs'[i] = ranking_compare_logs[i]
    BY <1>1 DEF CreateCompareLog, WithRow
  <2> HIDE DEF c
  <2> QED  BY <2>3, <2>4 DEF ChangesPlausible
<1>2. CASE UNCHANGED ranking_compare_logs
  BY <1>2 DEF ChangesPlausible
<1> QED
  BY <1>1, <1>2 DEF Next, Handle, vars, database, StartSearch, StartFeedback, CacheHit,
      CacheMiss, SearchCandidates, Rerank, InsertSearchLog, CommitSearchLog, CacheSet,
      ApplyFeedback, Fail, Reply, Expire, Crash

\* No comparison ever claims a single changed position.
THEOREM ChangesAlwaysPlausible == Spec => []ChangesPlausible
<1>1. Init => ChangesPlausible
  BY DEF Init, ChangesPlausible
<1> QED  BY <1>1, ChangesPlausibleStep, AlwaysInv, PTL DEF Spec

\* The rate columns agree with the counters after any mix of impressions and
\* feedback, in either order of creation of the row.
LEMMA RatesFreshStep == ASSUME Inv, RatesFresh, [Next]_vars PROVE RatesFresh'
<1> DEFINE Fresh(row) == \A a \in Actions : row.rate[a] = Rate(row.count[a], row.impression)
<1>1. \A p : RowOf(property_stats, p) \in StatsRows
  BY DEF RowOf, NoStats, StatsRows, Zero, Inv, TypeOK
<1>2. \A row : Fresh(ImpressedRow(row))
  BY DEF ImpressedRow
<1>3. \A row, a : Fresh(ActedRow(row, a))
  BY DEF ActedRow
<1>4. \A p \in DOMAIN property_stats : Fresh(property_stats[p])
  BY DEF RatesFresh
<1>5. ASSUME NEW t \in Threads, CommitSearchLog(t)
      PROVE  \A p \in DOMAIN property_stats' : Fresh(property_stats'[p])
  BY <1>2, <1>4, <1>5 DEF CommitSearchLog, Impress
<1>6. ASSUME NEW t \in Threads, ApplyFeedback(t)
      PROVE  \A p \in DOMAIN property_stats' : Fresh(property_stats'[p])
  BY <1>3, <1>4, <1>6 DEF ApplyFeedback, Act
<1>7. CASE UNCHANGED property_stats
  BY <1>4, <1>7 DEF RatesFresh
<1> QED
  BY <1>5, <1>6, <1>7 DEF RatesFresh, Next, Handle, vars, database, StartSearch,
      StartFeedback, CacheHit, CacheMiss, SearchCandidates, Rerank, InsertSearchLog,
      CreateCompareLog, CacheSet, Fail, Reply, Expire, Crash

\* No rate column is ever stale.
THEOREM RatesAlwaysFresh == Spec => []RatesFresh
<1>1. Init => RatesFresh
  BY DEF Init, RatesFresh
<1> QED  BY <1>1, RatesFreshStep, AlwaysInv, PTL DEF Spec

\* A thread comes to answer a feedback with 200 or 404 only by the step that
\* counts it, so the answers outstanding never outnumber the counts.
Outstanding ==
    \A p \in Properties, a \in Actions :
        /\ IsFiniteSet(AnsweredFeedback(p, a))
        /\ Cardinality(AnsweredFeedback(p, a)) <= RowOf(property_stats, p).count[a]

LEMMA NewAnswers ==
    ASSUME Inv, [Next]_vars, NEW p \in Properties, NEW a \in Actions,
           NEW t \in AnsweredFeedback(p, a)' \ AnsweredFeedback(p, a)
    PROVE  /\ ApplyFeedback(t)
           /\ handlers[t].command.property_id = p /\ handlers[t].command.action = a
<1> DEFINE X == handlers'[t]
<1>1. /\ t \in Threads /\ X.pc = "reply" /\ X.status \in {200, 404} /\ X.command # None
      /\ X.command.property_id = p /\ X.command.action = a
  BY DEF AnsweredFeedback, At
<1>2. X # handlers[t]
  BY <1>1 DEF AnsweredFeedback, At
<1>3. \A status, body : Answered(handlers[t], status, body).command = handlers[t].command
  BY DEF Answered, Idle
<1>4. \A Y : handlers' = [handlers EXCEPT ![t] = Y] => X = Y
  BY <1>1 DEF Inv, TypeOK
<1>5. ASSUME CacheHit(t) \/ CacheSet(t) PROVE FALSE
  <2>1. handlers[t].command = None
    BY <1>1, <1>5 DEF CacheHit, CacheSet, At, Inv, HandlersMatchTables, LocalsSet, Searching
  <2>2. X.command = handlers[t].command
    BY <1>3, <1>4, <1>5 DEF CacheHit, CacheSet, Answer, Become
  <2> QED  BY <1>1, <2>1, <2>2
<1>6. ApplyFeedback(t)
  BY <1>1, <1>2, <1>5, WhoAnswers
<1>7. X.command = handlers[t].command
  BY <1>3, <1>4, <1>6 DEF ApplyFeedback, Answer, Become
<1> QED  BY <1>1, <1>6, <1>7

LEMMA OutstandingStep == ASSUME Inv, Outstanding, [Next]_vars PROVE Outstanding'
<1> SUFFICES ASSUME NEW p \in Properties, NEW a \in Actions
             PROVE  /\ IsFiniteSet(AnsweredFeedback(p, a)')
                    /\ Cardinality(AnsweredFeedback(p, a)')
                           <= RowOf(property_stats', p).count[a]
  BY DEF Outstanding, RowOf
<1> DEFINE S == AnsweredFeedback(p, a)
           n == RowOf(property_stats, p).count[a]
           m == RowOf(property_stats', p).count[a]
<1>1. IsFiniteSet(S) /\ Cardinality(S) <= n
  BY DEF Outstanding
<1>2. \A q : RowOf(property_stats, q) \in StatsRows
  BY DEF RowOf, NoStats, StatsRows, Zero, Inv, TypeOK
<1>3. n \in Nat
  BY <1>2 DEF StatsRows
<1>4. ASSUME NEW t \in Threads, ApplyFeedback(t)
      PROVE  m = IF handlers[t].command.property_id = p /\ handlers[t].command.action = a
                 THEN n + 1 ELSE n
  <2> DEFINE c == handlers[t].command
  <2>1. property_stats' = Act(property_stats, c.property_id, c.action) /\ c.action \in Actions
    BY <1>4, ApplyFeedbackEffect DEF ApplyFeedback
  <2>2. RowOf(property_stats', p) = IF p = c.property_id
                                    THEN ActedRow(RowOf(property_stats, p), c.action)
                                    ELSE RowOf(property_stats, p)
    BY <2>1 DEF Act, RowOf
  <2>3. ActedRow(RowOf(property_stats, p), c.action).count
            = [RowOf(property_stats, p).count EXCEPT ![c.action] = @ + 1]
    BY DEF ActedRow
  <2>4. RowOf(property_stats, p).count \in [Actions -> Nat]
    BY <1>2 DEF StatsRows
  <2> QED  BY <2>1, <2>2, <2>3, <2>4
<1>5. CASE \E t \in Threads : ApplyFeedback(t)
  <2>1. PICK t \in Threads : ApplyFeedback(t)
    BY <1>5
  <2>2. S' \subseteq S \cup {t}
    <3> SUFFICES ASSUME NEW u \in S', u \notin S PROVE u = t
      OBVIOUS
    <3>1. ApplyFeedback(u)
      BY NewAnswers
    <3>2. handlers'[u] # handlers[u] /\ u \in Threads
      BY DEF AnsweredFeedback, At
    <3> QED  BY <2>1, <3>2 DEF ApplyFeedback, Answer, Become, Inv, TypeOK
  <2>3. CASE handlers[t].command.property_id = p /\ handlers[t].command.action = a
    <3>1. m = n + 1
      BY <1>4, <2>1, <2>3
    <3>2. IsFiniteSet(S \cup {t}) /\ Cardinality(S \cup {t}) <= n + 1
      <4>1. Cardinality(S) \in Nat
        BY <1>1, FS_CardinalityType
      <4>2. /\ IsFiniteSet(S \cup {t})
            /\ \/ Cardinality(S \cup {t}) = Cardinality(S)
               \/ Cardinality(S \cup {t}) = Cardinality(S) + 1
        BY <1>1, FS_AddElement
      <4> QED  BY <1>1, <1>3, <4>1, <4>2
    <3>3. IsFiniteSet(S') /\ Cardinality(S') <= Cardinality(S \cup {t})
      BY <2>2, <3>2, FS_Subset
    <3>4. Cardinality(S') \in Nat /\ Cardinality(S \cup {t}) \in Nat
      BY <3>2, <3>3, FS_CardinalityType
    <3> QED  BY <1>3, <3>1, <3>2, <3>3, <3>4
  <2>4. CASE ~(handlers[t].command.property_id = p /\ handlers[t].command.action = a)
    <3>1. m = n
      BY <1>4, <2>1, <2>4
    <3>2. S' \subseteq S
      <4> SUFFICES ASSUME NEW u \in S', u \notin S PROVE FALSE
        OBVIOUS
      <4>1. u = t
        BY <2>2
      <4> QED  BY <2>4, <4>1, NewAnswers
    <3>3. IsFiniteSet(S') /\ Cardinality(S') <= Cardinality(S)
      BY <1>1, <3>2, FS_Subset
    <3>4. Cardinality(S') \in Nat /\ Cardinality(S) \in Nat
      BY <1>1, <3>3, FS_CardinalityType
    <3> QED  BY <1>1, <1>3, <3>1, <3>3, <3>4
  <2> QED  BY <2>3, <2>4
<1>6. CASE ~\E t \in Threads : ApplyFeedback(t)
  <2>1. S' \subseteq S
    <3> SUFFICES ASSUME NEW u \in S', u \notin S PROVE FALSE
      OBVIOUS
    <3>1. ApplyFeedback(u)
      BY NewAnswers
    <3> QED  BY <1>6, <3>1 DEF AnsweredFeedback
  <2>2. IsFiniteSet(S') /\ Cardinality(S') <= Cardinality(S)
    BY <1>1, <2>1, FS_Subset
  <2>3. Cardinality(S') \in Nat /\ Cardinality(S) \in Nat
    BY <1>1, <2>2, FS_CardinalityType
  <2>4. m = n
    <3>1. CASE \E t \in Threads : CommitSearchLog(t)
      <4>1. PICK t \in Threads : CommitSearchLog(t)
        BY <3>1
      <4>2. \A row : ImpressedRow(row).count = row.count
        BY DEF ImpressedRow
      <4> QED  BY <4>1, <4>2 DEF CommitSearchLog, Impress, RowOf
    <3>2. CASE UNCHANGED property_stats
      BY <3>2 DEF RowOf
    <3> QED
      BY <1>6, <3>1, <3>2 DEF Next, Handle, vars, database, StartSearch,
         StartFeedback, CacheHit, CacheMiss, SearchCandidates, Rerank, InsertSearchLog,
         CreateCompareLog, CacheSet, Fail, Reply, Expire, Crash
  <2> QED  BY <1>1, <1>3, <2>2, <2>3, <2>4
<1> QED  BY <1>5, <1>6

\* A feedback answered 200 or 404 has been counted, each on its own.
THEOREM FeedbackAlwaysCounted == Spec => []FeedbackCounted
<1>1. Init => Outstanding
  <2> SUFFICES ASSUME Init, NEW p \in Properties, NEW a \in Actions
               PROVE  /\ IsFiniteSet(AnsweredFeedback(p, a))
                      /\ Cardinality(AnsweredFeedback(p, a))
                             <= RowOf(property_stats, p).count[a]
    BY DEF Outstanding
  <2>1. AnsweredFeedback(p, a) = {}
    <3>1. Idle.pc = "idle"
      BY DEF Idle
    <3> QED  BY <3>1 DEF Init, AnsweredFeedback, At
  <2>2. RowOf(property_stats, p).count[a] = 0
    BY DEF Init, RowOf, NoStats
  <2> QED  BY <2>1, <2>2, FS_EmptySet
<1>2. Outstanding => FeedbackCounted
  BY DEF Outstanding, FeedbackCounted
<1> QED  BY <1>1, <1>2, OutstandingStep, AlwaysInv, PTL DEF Spec

\* search_logs as training data: rows are only added, and only labels change,
\* each change with a counted action.
THEOREM LogsAlwaysOnlyGrow == Spec => LogsOnlyGrow
<1> DEFINE Grows ==
      /\ \A i \in DOMAIN search_logs :
            /\ i \in DOMAIN search_logs'
            /\ \A f \in {"query", "user_id", "result_ids"} :
                   search_logs'[i][f] = search_logs[i][f]
            /\ search_logs[i].clicked_id # None => search_logs'[i].clicked_id # None
            /\ search_logs'[i] # search_logs[i] =>
                   \E p \in Properties, a \in Actions :
                       /\ search_logs'[i].actioned_id = p
                       /\ search_logs'[i].action_type = a
                       /\ RowOf(property_stats', p).count[a]
                              = RowOf(property_stats, p).count[a] + 1
      /\ \A i \in DOMAIN search_logs' \ DOMAIN search_logs :
            search_logs'[i].clicked_id = None /\ search_logs'[i].action_type = None
<1>1. ASSUME Inv, [Next]_vars PROVE Grows
  <2>1. \A i \in DOMAIN search_logs :
            /\ i \in DOMAIN search_logs'
            /\ \A f \in {"query", "user_id", "result_ids"} :
                   search_logs'[i][f] = search_logs[i][f]
    BY <1>1, TablesGrow
  <2>2. ASSUME NEW t \in Threads, CommitSearchLog(t) PROVE Grows
    <3>1. handlers[t].search_log_id \notin DOMAIN search_logs
      BY <1>1, <2>2 DEF Inv, HandlersMatchTables, IdsOwned, CommitSearchLog, At
    <3>2. NewLog(handlers[t]).clicked_id = None /\ NewLog(handlers[t]).action_type = None
      BY DEF NewLog
    <3> QED  BY <2>1, <2>2, <3>1, <3>2 DEF CommitSearchLog, WithRow
  <2>3. ASSUME NEW t \in Threads, ApplyFeedback(t) PROVE Grows
    <3> DEFINE c == handlers[t].command
    <3>1. /\ c \in Commands /\ c.property_id \in Properties /\ c.action \in Actions
          /\ DOMAIN search_logs' = DOMAIN search_logs
          /\ \A i \in DOMAIN search_logs :
               search_logs'[i] = IF i = c.search_log_id
                                 THEN Labelled(search_logs[i], c) ELSE search_logs[i]
      BY <1>1, <2>3, ApplyFeedbackEffect
    <3>2. \A row \in LogRows :
             /\ Labelled(row, c).actioned_id = c.property_id
             /\ Labelled(row, c).action_type = c.action
             /\ Labelled(row, c).clicked_id = IF c.action = "click" THEN c.property_id
                                              ELSE row.clicked_id
      BY DEF Labelled, LogRows
    <3>3. c.property_id # None /\ \A i \in DOMAIN search_logs : search_logs[i] \in LogRows
      BY <1>1, <3>1, ServingConstants DEF Inv, TypeOK
    <3>4. RowOf(property_stats', c.property_id).count[c.action]
              = RowOf(property_stats, c.property_id).count[c.action] + 1
      <4>1. RowOf(property_stats, c.property_id) \in StatsRows
        BY <1>1 DEF RowOf, NoStats, StatsRows, Zero, Inv, TypeOK
      <4>2. RowOf(property_stats', c.property_id)
                = ActedRow(RowOf(property_stats, c.property_id), c.action)
        BY <2>3 DEF ApplyFeedback, Act, RowOf
      <4>3. ASSUME NEW row \in StatsRows, NEW a \in Actions
            PROVE  ActedRow(row, a).count[a] = row.count[a] + 1
        <5>1. row.count \in [Actions -> Nat]
          BY DEF StatsRows
        <5> QED  BY <5>1 DEF ActedRow
      <4> QED  BY <3>1, <4>1, <4>2, <4>3
    <3>5. \A i \in DOMAIN search_logs :
              /\ search_logs[i].clicked_id # None => search_logs'[i].clicked_id # None
              /\ search_logs'[i] # search_logs[i] =>
                     /\ search_logs'[i].actioned_id = c.property_id
                     /\ search_logs'[i].action_type = c.action
      BY <3>1, <3>2, <3>3
    <3> QED  BY <2>1, <3>1, <3>4, <3>5
  <2>4. CASE UNCHANGED search_logs
    BY <2>1, <2>4
  <2> QED
    BY <1>1, <2>2, <2>3, <2>4 DEF Next, Handle, vars, database, StartSearch, StartFeedback,
        CacheHit, CacheMiss, SearchCandidates, Rerank, InsertSearchLog, CreateCompareLog,
        CacheSet, Fail, Reply, Expire, Crash
<1> QED  BY <1>1, AlwaysInv, PTL DEF Spec, LogsOnlyGrow

-----------------------------------------------------------------------------
(* SearchServing implements SearchLedger.                                    *)

tables == <<Shown, Labels, Clicks, Impressions, Acted, Compared>>

LEMMA RowsType == ASSUME Inv PROVE \A p : RowOf(property_stats, p) \in StatsRows
  BY DEF RowOf, NoStats, StatsRows, Zero, Inv, TypeOK

\* Only a thread that answers a search has something to show.
LEMMA ServedOf ==
    ASSUME Inv, NEW t \in Threads, handlers[t].pc # "reply"
    PROVE  handlers[t].body = None
  BY DEF Inv, HandlersMatchTables, LocalsSet

LEMMA QuietTables ==
    ASSUME UNCHANGED <<search_logs, ranking_compare_logs, property_stats>>
    PROVE  UNCHANGED tables
  BY DEF tables, Shown, Labels, Clicks, Impressions, Acted, Compared

\* A step of one thread leaves what the others are shown.
LEMMA ServedStep ==
    ASSUME Inv, NEW t \in Threads, NEW X, handlers' = [handlers EXCEPT ![t] = X]
    PROVE  /\ X.body = None => Served' = [Served EXCEPT ![t] = 0]
           /\ X.body # None => Served' = [Served EXCEPT ![t] = X.body.search_log_id]
           /\ X.body = None /\ handlers[t].body = None => UNCHANGED Served
<1>1. handlers'[t] = X /\ \A u \in Threads : u # t => handlers'[u] = handlers[u]
  BY DEF Inv, TypeOK
<1> DEFINE of(h) == IF h.body = None THEN 0 ELSE h.body.search_log_id
<1>2. Served = [u \in Threads |-> of(handlers[u])] /\ Served' = [u \in Threads |-> of(handlers'[u])]
  BY DEF Served
<1>3. of(X) = (IF X.body = None THEN 0 ELSE X.body.search_log_id)
  OBVIOUS
<1> HIDE DEF of
<1>4. Served' = [Served EXCEPT ![t] = of(X)]
  BY <1>1, <1>2
<1>5. ASSUME X.body = None, handlers[t].body = None  PROVE UNCHANGED Served
  <2>1. of(handlers[t]) = 0 /\ of(X) = 0
    BY <1>5 DEF of
  <2> QED  BY <1>1, <1>2, <2>1
<1> QED  BY <1>3, <1>4, <1>5

LEMMA CommitRefines ==
    ASSUME Inv, NEW t \in Threads, CommitSearchLog(t)
    PROVE  \E i \in 1 .. MaxLogs, ps \in SUBSET Properties : Ledger!EnterSearch(i, ps)
<1> DEFINE h == handlers[t]
           i == h.search_log_id
           ps == Range(h.reranked)
<1>1. /\ h.pc = "commit_log" /\ h \in HandlerStates /\ IdsOwned(h) /\ h.body = None
      /\ ps \subseteq Properties
  <2>1. h.pc = "commit_log"
    BY DEF CommitSearchLog, At
  <2> QED  BY <2>1, RankedHandler
<1>2. i \in 1 .. MaxLogs /\ i \notin DOMAIN search_logs
  BY <1>1, ServingConstants DEF IdsOwned, Inv, TypeOK
<1>3. /\ NewLog(h).result_ids = h.reranked /\ NewLog(h).clicked_id = None
      /\ NewLog(h).action_type = None
  BY DEF NewLog
<1>4. search_logs' = WithRow(search_logs, i, NewLog(h))
  BY DEF CommitSearchLog
<1>5. /\ Shown' = Ledger!Extend(Shown, i, ps)
      /\ Labels' = Ledger!Extend(Labels, i, {})
      /\ Clicks' = Ledger!Extend(Clicks, i, {})
  BY <1>2, <1>3, <1>4 DEF WithRow, Shown, Labels, Clicks, Ledger!Extend
<1>6. /\ Impressions' = [p \in Properties |-> Impressions[p] + (IF p \in ps THEN 1 ELSE 0)]
      /\ Acted' = Acted
  <2>1. \A p \in Properties :
            RowOf(property_stats', p) = IF p \in ps THEN ImpressedRow(RowOf(property_stats, p))
                                        ELSE RowOf(property_stats, p)
    BY DEF CommitSearchLog, Impress, RowOf
  <2>2. \A row \in StatsRows : /\ ImpressedRow(row).impression = row.impression + 1
                               /\ ImpressedRow(row).count = row.count
                               /\ row.impression \in Nat
    BY DEF ImpressedRow, StatsRows
  <2> QED  BY <2>1, <2>2, RowsType DEF Impressions, Acted
<1>7. UNCHANGED Compared
  BY DEF CommitSearchLog, Compared
<1>8. UNCHANGED Served
  <2>1. PICK X : handlers' = [handlers EXCEPT ![t] = X] /\ X.body = None
    <3>1. [h EXCEPT !.pc = "compare_log"].body = None
      BY <1>1 DEF HandlerStates
    <3>2. Answered(h, 500, None).body = None
      BY DEF Answered, Idle
    <3> QED  BY <3>1, <3>2 DEF CommitSearchLog, Answer, Become
  <2> QED  BY <1>1, <2>1, ServedStep
<1>9. i \notin DOMAIN Shown
  BY <1>2 DEF Shown
<1>10. Ledger!EnterSearch(i, ps)
  BY <1>5, <1>6, <1>7, <1>8, <1>9 DEF Ledger!EnterSearch
<1> QED  BY <1>1, <1>2, <1>10

LEMMA CompareRefines ==
    ASSUME Inv, NEW t \in Threads, CreateCompareLog(t)
    PROVE  \E i \in 1 .. MaxLogs : Ledger!EnterComparison(i)
<1> DEFINE h == handlers[t]
           i == h.search_log_id
<1>1. h.pc = "compare_log" /\ h \in HandlerStates /\ IdsOwned(h) /\ h.body = None
  <2>1. h.pc = "compare_log"
    BY DEF CreateCompareLog, At
  <2> QED  BY <2>1, RankedHandler
<1>2. /\ i \in DOMAIN search_logs /\ i \in 1 .. MaxLogs
      /\ \A n \in DOMAIN ranking_compare_logs : ranking_compare_logs[n].search_log_id # i
  BY <1>1, ServingConstants DEF IdsOwned, Inv, TypeOK
<1>3. compare_seq + 1 \notin DOMAIN ranking_compare_logs
  BY DEF Inv, TypeOK
<1>4. Compared' = Compared \cup {i}
  <2>1. NewCompare(h).search_log_id = i
    BY DEF NewCompare
  <2> QED  BY <2>1, <1>3 DEF CreateCompareLog, WithRow, Compared
<1>5. UNCHANGED <<Shown, Labels, Clicks, Impressions, Acted>>
  BY DEF CreateCompareLog, Shown, Labels, Clicks, Impressions, Acted
<1>6. UNCHANGED Served
  <2>1. PICK X : handlers' = [handlers EXCEPT ![t] = X] /\ X.body = None
    <3>1. [h EXCEPT !.pc = "cache_set", !.compare_log_id = compare_seq + 1].body = None
      BY <1>1 DEF HandlerStates
    <3>2. Answered(h, 500, None).body = None
      BY DEF Answered, Idle
    <3> QED  BY <3>1, <3>2 DEF CreateCompareLog, Answer, Become
  <2> QED  BY <1>1, <2>1, ServedStep
<1>7. Ledger!EnterComparison(i)
  BY <1>2, <1>4, <1>5, <1>6 DEF Ledger!EnterComparison, Shown, Compared
<1> QED  BY <1>2, <1>7

LEMMA FeedbackRefines ==
    ASSUME Inv, NEW t \in Threads, ApplyFeedback(t)
    PROVE  \E p \in Properties, a \in Actions :
               \/ Ledger!EnterAction(p, a)
               \/ \E i \in 1 .. MaxLogs : Ledger!EnterLabel(i, p, a)
<1> DEFINE h == handlers[t]
           c == h.command
           p == c.property_id
           a == c.action
           i == c.search_log_id
<1>1. /\ c \in Commands /\ p \in Properties /\ a \in Actions
      /\ DOMAIN search_logs' = DOMAIN search_logs
      /\ \A j \in DOMAIN search_logs :
           /\ search_logs'[j] = IF j = i THEN Labelled(search_logs[j], c) ELSE search_logs[j]
           /\ search_logs'[j].result_ids = search_logs[j].result_ids
  BY ApplyFeedbackEffect
<1>2. \A row \in LogRows :
         /\ Labelled(row, c).actioned_id = p
         /\ Labelled(row, c).action_type = a
         /\ Labelled(row, c).clicked_id = IF a = "click" THEN p ELSE row.clicked_id
  BY DEF Labelled, LogRows
<1>3. p # None /\ a # None /\ \A j \in DOMAIN search_logs : search_logs[j] \in LogRows
  BY <1>1, ServingConstants DEF Inv, TypeOK
<1>4. /\ Acted' = [Acted EXCEPT ![p][a] = @ + 1]
      /\ UNCHANGED Impressions
  <2>1. \A q \in Properties :
            RowOf(property_stats', q) = IF q = p THEN ActedRow(RowOf(property_stats, q), a)
                                        ELSE RowOf(property_stats, q)
    BY <1>1 DEF ApplyFeedback, Act, RowOf
  <2>2. \A row \in StatsRows : /\ ActedRow(row, a).impression = row.impression
                               /\ ActedRow(row, a).count = [row.count EXCEPT ![a] = @ + 1]
    BY DEF ActedRow
  <2> QED  BY <1>1, <2>1, <2>2, RowsType DEF Impressions, Acted
<1>5. UNCHANGED Shown
  BY <1>1 DEF Shown
<1>6. UNCHANGED Compared
  BY DEF ApplyFeedback, Compared
<1>7. UNCHANGED Served
  <2>1. PICK X : handlers' = [handlers EXCEPT ![t] = X] /\ X.body = None
    <3>1. \A status : Answered(h, status, None).body = None
      BY DEF Answered, Idle
    <3> QED  BY <3>1 DEF ApplyFeedback, Answer, Become
  <2>2. h.body = None
    BY ServedOf DEF ApplyFeedback, At
  <2> QED  BY <2>1, <2>2, ServedStep
<1>8. CASE i \in DOMAIN search_logs
  <2>1. i \in 1 .. MaxLogs
    BY <1>8, ServingConstants DEF Inv, TypeOK
  <2>2. Labels' = [Labels EXCEPT ![i] = {<<p, a>>}]
    <3>1. \A j \in DOMAIN search_logs :
              Labels'[j] = IF j = i THEN {<<p, a>>} ELSE Labels[j]
      <4>1. TAKE j \in DOMAIN search_logs
      <4>2. CASE j = i
        <5>1. search_logs'[j].actioned_id = p /\ search_logs'[j].action_type = a
          BY <1>1, <1>2, <1>3, <4>2
        <5> QED  BY <1>1, <1>3, <4>2, <5>1 DEF Labels
      <4>3. CASE j # i
        BY <1>1, <4>3 DEF Labels
      <4> QED  BY <4>2, <4>3
    <3>2. DOMAIN Labels' = DOMAIN search_logs /\ DOMAIN Labels = DOMAIN search_logs
      BY <1>1 DEF Labels
    <3>3. Labels' = [j \in DOMAIN search_logs |-> Labels'[j]]
      BY <1>1 DEF Labels
    <3>4. [Labels EXCEPT ![i] = {<<p, a>>}]
              = [j \in DOMAIN search_logs |-> IF j = i THEN {<<p, a>>} ELSE Labels[j]]
      BY <3>2
    <3> QED  BY <3>1, <3>3, <3>4
  <2>3. Clicks' = [Clicks EXCEPT ![i] = IF a = "click" THEN {p} ELSE @]
    <3>1. \A j \in DOMAIN search_logs :
              Clicks'[j] = IF j = i THEN (IF a = "click" THEN {p} ELSE Clicks[j]) ELSE Clicks[j]
      <4>1. TAKE j \in DOMAIN search_logs
      <4>2. CASE j = i
        <5>1. search_logs'[j].clicked_id = IF a = "click" THEN p ELSE search_logs[j].clicked_id
          BY <1>1, <1>2, <1>3, <4>2
        <5> QED  BY <1>1, <1>3, <4>2, <5>1 DEF Clicks
      <4>3. CASE j # i
        BY <1>1, <4>3 DEF Clicks
      <4> QED  BY <4>2, <4>3
    <3>2. DOMAIN Clicks' = DOMAIN search_logs /\ DOMAIN Clicks = DOMAIN search_logs
      BY <1>1 DEF Clicks
    <3>3. Clicks' = [j \in DOMAIN search_logs |-> Clicks'[j]]
      BY <1>1 DEF Clicks
    <3>4. [Clicks EXCEPT ![i] = IF a = "click" THEN {p} ELSE @]
              = [j \in DOMAIN search_logs |->
                    IF j = i THEN (IF a = "click" THEN {p} ELSE Clicks[j]) ELSE Clicks[j]]
      BY <3>2
    <3> QED  BY <3>1, <3>3, <3>4
  <2>4. Ledger!EnterLabel(i, p, a)
    BY <1>4, <1>5, <1>6, <1>7, <1>8, <2>2, <2>3 DEF Ledger!EnterLabel, Shown
  <2> QED  BY <1>1, <2>1, <2>4
<1>9. CASE i \notin DOMAIN search_logs
  <2>1. UNCHANGED <<Labels, Clicks>>
    BY <1>1, <1>9 DEF Labels, Clicks
  <2>2. Ledger!EnterAction(p, a)
    BY <1>4, <1>5, <1>6, <1>7, <2>1 DEF Ledger!EnterAction
  <2> QED  BY <1>1, <2>2
<1> QED  BY <1>8, <1>9

\* A hit and a finished miss show a search that has its comparison.
LEMMA AnswerRefines ==
    ASSUME Inv, CacheBacked, NEW t \in Threads, CacheHit(t) \/ CacheSet(t)
    PROVE  \E i \in 1 .. MaxLogs : Ledger!Look(t, i)
<1>1. PICK r : /\ r \in Responses /\ Backed(r)
               /\ handlers' = [handlers EXCEPT ![t] = Answered(handlers[t], 200, r)]
  <2>1. CASE CacheHit(t)
    <3>1. At(t, "cache_get")
      BY <2>1 DEF CacheHit
    <3>2. handlers[t].query.condition \in Conditions
      BY <3>1, ServingConstants
      DEF At, Inv, TypeOK, HandlersMatchTables, LocalsSet, Searching, HandlerStates, Queries
    <3> DEFINE r == redis[handlers[t].query.condition]
    <3>3. r # None /\ handlers' = [handlers EXCEPT ![t] = Answered(handlers[t], 200, r)]
      BY <2>1 DEF CacheHit, Answer, Become
    <3>4. r \in Responses /\ Backed(r)
      BY <3>2, <3>3 DEF CacheBacked, Inv, TypeOK
    <3> QED  BY <3>3, <3>4
  <2>2. CASE CacheSet(t)
    <3>1. At(t, "cache_set")
      BY <2>2 DEF CacheSet
    <3>2. NewResponse(handlers[t]) \in Responses /\ Backed(NewResponse(handlers[t]))
      BY <3>1, NewResponseBacked
    <3>3. handlers' = [handlers EXCEPT ![t] = Answered(handlers[t], 200, NewResponse(handlers[t]))]
      BY <2>2 DEF CacheSet, Answer, Become
    <3> QED  BY <3>2, <3>3
  <2> QED  BY <2>1, <2>2
<1>2. Answered(handlers[t], 200, r).body = r
  BY DEF Answered, Idle
<1>3. r # None /\ r.search_log_id \in 1 .. MaxLogs
  BY <1>1, ServingConstants DEF Responses
<1>4. Served' = [Served EXCEPT ![t] = r.search_log_id]
  <2>1. PICK X : handlers' = [handlers EXCEPT ![t] = X] /\ X.body = r
    BY <1>1, <1>2
  <2> QED  BY <1>3, <2>1, ServedStep
<1>5. r.search_log_id \in Compared
  BY <1>1 DEF Backed, Compared
<1>6. UNCHANGED tables
  BY QuietTables DEF CacheHit, CacheSet, database
<1>7. Ledger!Look(t, r.search_log_id)
  BY <1>4, <1>5, <1>6 DEF Ledger!Look, tables
<1> QED  BY <1>3, <1>7

LEMMA ReplyRefines ==
    ASSUME Inv, NEW t \in Threads, Reply(t)
    PROVE  Ledger!Look(t, 0)
<1>1. handlers' = [handlers EXCEPT ![t] = Idle] /\ Idle.body = None
  BY DEF Reply, Become, Idle
<1>2. Served' = [Served EXCEPT ![t] = 0]
  BY <1>1, ServedStep
<1>3. UNCHANGED tables
  BY QuietTables DEF Reply, database
<1> QED  BY <1>2, <1>3 DEF Ledger!Look, tables

LEMMA CrashRefines == ASSUME Crash PROVE Ledger!Disperse
<1>1. handlers' = [t \in Threads |-> Idle] /\ Idle.body = None
  BY DEF Crash, Idle
<1>2. Served' = [t \in Threads |-> 0]
  BY <1>1 DEF Served
<1>3. UNCHANGED tables
  BY QuietTables DEF Crash, database
<1> QED  BY <1>2, <1>3 DEF Ledger!Disperse, tables

\* The steps before an answer, and a failure, are not seen.
LEMMA QuietRefines ==
    ASSUME Inv, NEW t \in Threads,
           \/ StartSearch(t) \/ StartFeedback(t) \/ CacheMiss(t) \/ SearchCandidates(t)
           \/ Rerank(t) \/ InsertSearchLog(t) \/ Fail(t)
    PROVE  UNCHANGED Ledger!vars
<1>1. handlers[t].pc # "reply" /\ handlers[t] \in HandlerStates
  BY DEF StartSearch, StartFeedback, CacheMiss, SearchCandidates, Rerank, InsertSearchLog,
         Fail, At, Inv, TypeOK
<1>2. handlers[t].body = None
  BY <1>1, ServedOf
<1>3. PICK X : handlers' = [handlers EXCEPT ![t] = X] /\ X.body = None
  <2>1. CASE StartSearch(t)
    <3>1. PICK q \in Queries : Become(t, [Idle EXCEPT !.pc = "cache_get", !.query = q])
      BY <2>1 DEF StartSearch
    <3>2. [Idle EXCEPT !.pc = "cache_get", !.query = q].body = None
      BY DEF Idle
    <3> QED  BY <3>1, <3>2 DEF Become
  <2>2. CASE StartFeedback(t)
    <3>1. PICK c \in Commands : Become(t, [Idle EXCEPT !.pc = "feedback", !.command = c])
      BY <2>2 DEF StartFeedback
    <3>2. [Idle EXCEPT !.pc = "feedback", !.command = c].body = None
      BY DEF Idle
    <3> QED  BY <3>1, <3>2 DEF Become
  <2>3. CASE CacheMiss(t)
    BY <2>3, <1>1, <1>2 DEF CacheMiss, Become, HandlerStates
  <2>4. CASE SearchCandidates(t)
    BY <2>4, <1>1, <1>2 DEF SearchCandidates, Become, HandlerStates
  <2>5. CASE Rerank(t)
    BY <2>5, <1>1, <1>2 DEF Rerank, Become, HandlerStates
  <2>6. CASE InsertSearchLog(t)
    BY <2>6, <1>1, <1>2 DEF InsertSearchLog, Become, HandlerStates
  <2>7. CASE Fail(t)
    <3>1. \A status : Answered(handlers[t], status, None).body = None
      BY DEF Answered, Idle
    <3> QED  BY <2>7, <3>1 DEF Fail, Answer, Become
  <2> QED  BY <2>1, <2>2, <2>3, <2>4, <2>5, <2>6, <2>7
<1>4. UNCHANGED Served
  BY <1>2, <1>3, ServedStep
<1>5. UNCHANGED tables
  <2>1. UNCHANGED <<search_logs, ranking_compare_logs, property_stats>>
    BY DEF StartSearch, StartFeedback, CacheMiss, SearchCandidates, Rerank, InsertSearchLog,
           Fail, database
  <2> QED  BY <2>1, QuietTables
<1> QED  BY <1>4, <1>5 DEF tables, Ledger!vars

LEMMA RefineInit == ASSUME Init PROVE Ledger!Init
<1>1. Idle.body = None
  BY DEF Idle
<1>2. Served = [t \in Threads |-> 0]
  BY <1>1 DEF Init, Served
<1>3. \A p : RowOf(property_stats, p) = NoStats
  BY DEF Init, RowOf
<1>4. Impressions = [p \in Properties |-> 0] /\ Acted = [p \in Properties |-> [a \in Actions |-> 0]]
  BY <1>3 DEF Impressions, Acted, NoStats
<1>5. DOMAIN search_logs = {} /\ DOMAIN ranking_compare_logs = {}
  BY DEF Init
<1>6. /\ Shown = [i \in {} |-> {}] /\ Labels = [i \in {} |-> {}] /\ Clicks = [i \in {} |-> {}]
      /\ Compared = {}
  BY <1>5 DEF Shown, Labels, Clicks, Compared
<1> QED  BY <1>2, <1>4, <1>6 DEF Ledger!Init

LEMMA RefineStep ==
    ASSUME Inv, CacheBacked, [Next]_vars
    PROVE  [Ledger!Next]_(Ledger!vars)
<1>1. ASSUME NEW t \in Threads,
             \/ StartSearch(t) \/ StartFeedback(t) \/ CacheMiss(t) \/ SearchCandidates(t)
             \/ Rerank(t) \/ InsertSearchLog(t) \/ Fail(t)
      PROVE  UNCHANGED Ledger!vars
  BY <1>1, QuietRefines
<1>2. ASSUME NEW t \in Threads, CommitSearchLog(t) PROVE Ledger!Next
  <2>1. PICK i \in 1 .. MaxLogs, ps \in SUBSET Properties : Ledger!EnterSearch(i, ps)
    BY <1>2, CommitRefines
  <2> QED  BY <2>1 DEF Ledger!Next
<1>3. ASSUME NEW t \in Threads, CreateCompareLog(t) PROVE Ledger!Next
  <2>1. PICK i \in 1 .. MaxLogs : Ledger!EnterComparison(i)
    BY <1>3, CompareRefines
  <2> QED  BY <2>1 DEF Ledger!Next
<1>4. ASSUME NEW t \in Threads, ApplyFeedback(t) PROVE Ledger!Next
  <2>1. PICK p \in Properties, a \in Actions :
            Ledger!EnterAction(p, a) \/ \E i \in 1 .. MaxLogs : Ledger!EnterLabel(i, p, a)
    BY <1>4, FeedbackRefines
  <2> QED  BY <2>1 DEF Ledger!Next
<1>5. ASSUME NEW t \in Threads, CacheHit(t) \/ CacheSet(t) PROVE Ledger!Next
  <2>1. PICK i \in 1 .. MaxLogs : Ledger!Look(t, i)
    BY <1>5, AnswerRefines
  <2> QED  BY <2>1 DEF Ledger!Next
<1>6. ASSUME NEW t \in Threads, Reply(t) PROVE Ledger!Next
  <2>1. Ledger!Look(t, 0)
    BY <1>6, ReplyRefines
  <2> QED  BY <2>1 DEF Ledger!Next
<1>7. ASSUME Crash PROVE Ledger!Next
  <2>1. Ledger!Disperse
    BY <1>7, CrashRefines
  <2> QED  BY <2>1 DEF Ledger!Next
<1>8. ASSUME \/ \E k \in Conditions : Expire(k)
             \/ UNCHANGED vars
      PROVE  UNCHANGED Ledger!vars
  <2>1. UNCHANGED <<handlers, search_logs, ranking_compare_logs, property_stats>>
    BY <1>8 DEF Expire, vars, database
  <2>2. UNCHANGED Served
    BY <2>1 DEF Served
  <2> QED  BY <2>1, <2>2, QuietTables DEF tables, Ledger!vars
<1>9. \/ \E t \in Threads : StartSearch(t) \/ StartFeedback(t) \/ Handle(t)
      \/ \E k \in Conditions : Expire(k)
      \/ Crash
      \/ UNCHANGED vars
  BY DEF Next
<1> QED
  BY <1>1, <1>2, <1>3, <1>4, <1>5, <1>6, <1>7, <1>8, <1>9 DEF Handle

\* Retries, failures, crashes, cache hits and expiry notwithstanding, the
\* tables and the answers are those of a ledger.
THEOREM ServingImplementsLedger == Spec => LedgerSpec
<1>1. Init => Ledger!Init
  BY RefineInit
<1>2. Inv /\ CacheBacked /\ [Next]_vars => [Ledger!Next]_(Ledger!vars)
  BY RefineStep
<1> QED
  BY <1>1, <1>2, AlwaysInv, AlwaysCacheBacked, PTL DEF Spec, LedgerSpec, Ledger!Spec

-----------------------------------------------------------------------------
\* What is proved of every ledger, read through the same mapping.
Accounts == INSTANCE SearchLedger_proofs WITH
    Clients <- Threads, Ids <- 1 .. MaxLogs, shown <- Shown, label <- Labels,
    clicked <- Clicks, impressions <- Impressions, acted <- Acted,
    compared <- Compared, served <- Served

LEMMA SameLedger == LedgerSpec => Accounts!Spec
<1>1. Ledger!Init => Accounts!Init
  BY DEF Ledger!Init, Accounts!Init
<1>2. [Ledger!Next]_(Ledger!vars) => [Accounts!Next]_(Accounts!vars)
  BY DEF Ledger!Next, Accounts!Next, Ledger!vars, Accounts!vars,
         Ledger!EnterSearch, Accounts!EnterSearch, Ledger!Extend, Accounts!Extend,
         Ledger!EnterComparison, Accounts!EnterComparison,
         Ledger!EnterAction, Accounts!EnterAction, Ledger!EnterLabel, Accounts!EnterLabel,
         Ledger!Look, Accounts!Look, Ledger!Disperse, Accounts!Disperse
<1> QED  BY <1>1, <1>2, PTL DEF LedgerSpec, Ledger!Spec, Accounts!Spec

\* An instance has operators of its own for those of the library.
LEMMA SameCardinality == \A S : Accounts!Cardinality(S) = Cardinality(S)
  BY DEF Accounts!Cardinality, Cardinality, Accounts!IsFiniteSet, IsFiniteSet

\* Two tables, one account: the impression counter of a property is the
\* number of committed searches whose result_ids hold it.
THEOREM ImpressionsAlwaysMatchLogs == Spec => []ImpressionsMatchLogs
<1>1. Accounts!ImpressionsAccounted => ImpressionsMatchLogs
  <2> SUFFICES ASSUME Accounts!ImpressionsAccounted, NEW p \in Properties
               PROVE  RowOf(property_stats, p).impression = Cardinality(Showing(p))
    BY DEF ImpressionsMatchLogs
  <2>1. Accounts!Showing(p) = Showing(p)
    BY DEF Accounts!Showing, Showing, Shown
  <2>2. Impressions[p] = RowOf(property_stats, p).impression
    BY DEF Impressions
  <2> QED  BY <2>1, <2>2, SameCardinality DEF Accounts!ImpressionsAccounted
<1>2. Accounts!Spec => []Accounts!ImpressionsAccounted
  BY Accounts!ImpressionsAlwaysAccounted
<1> QED  BY <1>1, <1>2, SameLedger, ServingImplementsLedger, PTL

\* No label and no recorded click without a counted action of its own.
THEOREM LabelsAlwaysCounted == Spec => []LabelsCounted
<1>1. Inv /\ Accounts!LabelsPaid /\ Accounts!ClicksPaid => LabelsCounted
  <2> SUFFICES ASSUME Inv, Accounts!LabelsPaid, Accounts!ClicksPaid, NEW p \in Properties
               PROVE  LET count == RowOf(property_stats, p).count IN
                      /\ \A a \in Actions :
                             Cardinality({i \in DOMAIN search_logs :
                                             /\ search_logs[i].actioned_id = p
                                             /\ search_logs[i].action_type = a}) <= count[a]
                      /\ Cardinality({i \in DOMAIN search_logs : search_logs[i].clicked_id = p})
                             <= count["click"]
    BY DEF LabelsCounted
  <2> DEFINE count == RowOf(property_stats, p).count
  <2>1. Acted[p] = count
    BY DEF Acted
  <2>2. /\ None \notin Properties /\ None \notin Actions
        /\ \A i \in DOMAIN search_logs : search_logs[i] \in LogRows
    BY ServingConstants DEF Inv, TypeOK
  <2>3. ASSUME NEW a \in Actions
        PROVE  Cardinality({i \in DOMAIN search_logs :
                               /\ search_logs[i].actioned_id = p
                               /\ search_logs[i].action_type = a}) <= count[a]
    <3> DEFINE L == {i \in DOMAIN search_logs :
                       search_logs[i].actioned_id = p /\ search_logs[i].action_type = a}
    <3>1. ASSUME NEW i \in DOMAIN search_logs
          PROVE  Labels[i] = {<<p, a>>} <=>
                     search_logs[i].actioned_id = p /\ search_logs[i].action_type = a
      <4>1. CASE search_logs[i].action_type = None
        BY <2>2, <4>1 DEF Labels
      <4>2. CASE search_logs[i].action_type # None
        <5>1. Labels[i] = {<<search_logs[i].actioned_id, search_logs[i].action_type>>}
          BY <4>2 DEF Labels
        <5>2. \A x, y : {<<x, y>>} = {<<p, a>>} <=> x = p /\ y = a
          <6> TAKE x, y
          <6>1. {<<x, y>>} = {<<p, a>>} <=> <<x, y>> = <<p, a>>
            OBVIOUS
          <6> QED  BY <6>1
        <5> QED  BY <5>1, <5>2
      <4> QED  BY <4>1, <4>2
    <3>2. L = Accounts!Labelled(p, a)
      BY <3>1 DEF Accounts!Labelled, Shown
    <3>3. Cardinality(Accounts!Labelled(p, a)) <= Acted[p][a]
      BY SameCardinality DEF Accounts!LabelsPaid
    <3> QED  BY <2>1, <3>2, <3>3
  <2>4. Cardinality({i \in DOMAIN search_logs : search_logs[i].clicked_id = p})
            <= count["click"]
    <3> DEFINE C == {i \in DOMAIN search_logs : search_logs[i].clicked_id = p}
    <3>1. \A i \in DOMAIN search_logs : Clicks[i] = {p} <=> search_logs[i].clicked_id = p
      BY <2>2 DEF Clicks
    <3>2. C = Accounts!Clicked(p)
      BY <3>1 DEF Accounts!Clicked, Shown
    <3>3. Cardinality(Accounts!Clicked(p)) <= Acted[p]["click"]
      BY ServingConstants, SameCardinality DEF Accounts!ClicksPaid
    <3> QED  BY <2>1, <3>2, <3>3
  <2> QED  BY <2>3, <2>4
<1>2. Accounts!Spec => []Accounts!LabelsPaid /\ []Accounts!ClicksPaid
  BY Accounts!LabelsAlwaysPaid, Accounts!ClicksAlwaysPaid, PTL
<1> QED  BY <1>1, <1>2, SameLedger, ServingImplementsLedger, AlwaysInv, PTL
=============================================================================
