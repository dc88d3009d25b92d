--------------------------- MODULE SearchServing ---------------------------
(***************************************************************************)
(* GET /search and POST /feedback as the API process runs them: every      *)
(* request is handled by a worker thread (the handlers are plain `def`s),  *)
(* and the threads share Redis, Meilisearch and PostgreSQL.  A step of a   *)
(* thread is one call that leaves the process; a database transaction      *)
(* takes effect when it commits, except that INSERT ... RETURNING id has   *)
(* already drawn an id from the sequence of search_logs.                   *)
(*                                                                         *)
(* Failures: any call may raise, a commit may succeed while its            *)
(* acknowledgement is lost, Redis may be unreachable, entries expire, and  *)
(* the process may die with all its threads.                               *)
(***************************************************************************)
EXTENDS Integers, Sequences, FiniteSets, Functions, StatsTable

CONSTANTS
    Threads,        \* worker threads of the API process
    Users,          \* values of user_id
    Conditions,     \* a search without its user_id: what the cache key holds
    Properties,     \* rows of the table properties
    PropertyIds,    \* ids a client can send; not all of them are rows
    None,           \* Python None, SQL NULL, a missing Redis key
    MaxLogs,        \* bound on search_logs ids
    MaxFeedback     \* a feedback starts while fewer have been counted

VARIABLES
    handlers,               \* local state of each thread
    redis,                  \* cached response of each condition, or None
    search_logs,            \* committed rows, by id
    log_seq,                \* last id drawn from search_logs_id_seq
    ranking_compare_logs,   \* committed rows, by id
    compare_seq,            \* last id drawn from ranking_compare_logs_id_seq
    property_stats          \* committed rows, by property

database == <<search_logs, log_seq, ranking_compare_logs, compare_seq, property_stats>>
vars == <<handlers, redis, database>>
-----------------------------------------------------------------------------
Prefix(s, n) == SubSeq(s, 1, IF n < Len(s) THEN n ELSE Len(s))

\* What Meilisearch may answer: at most candidate_limit documents, whose
\* primary key is the property id.
Hits(condition) ==
    UNION {Injection(1 .. n, Properties) : n \in 0 .. condition.candidate_limit}

\* What the reranker may return for the candidates: scores come from a model,
\* from stored features and from a query embedding, and sorting by them can
\* give any order of the same items.
Rankings(candidates) == Injection(1 .. Len(candidates), Range(candidates))

\* Columns of ranking_compare_logs, computed before the row is inserted.
\* (Before it, a fault that the properties must notice: as in each operator
\* called a fault below.)
ChangedPositionsButLast(meili, reranked) ==
    LET max_len == IF Len(meili) < Len(reranked) THEN Len(meili) ELSE Len(reranked)
    IN  {i \in 1 .. max_len - 1 : meili[i] # reranked[i]}

ChangedPositions(meili, reranked) ==
    LET max_len == IF Len(meili) < Len(reranked) THEN Len(meili) ELSE Len(reranked)
    IN  {i \in 1 .. max_len : meili[i] # reranked[i]}

ChangedCount(meili, reranked) == Cardinality(ChangedPositions(meili, reranked))

Top1Changed(meili, reranked) ==
    meili # <<>> /\ reranked # <<>> /\ meili[1] # reranked[1]
-----------------------------------------------------------------------------
Queries == [condition : Conditions, user_id : Users]

\* search_log_id 0 stands for a feedback that names no search log.
Commands == [property_id : PropertyIds, action : Actions, search_log_id : 0 .. MaxLogs]

Responses == [search_log_id : 1 .. MaxLogs, compare_log_id : Nat \ {0},
              count : Nat, items : Seq(Properties)]

ASSUME ServingConstants ==
    /\ Conditions \subseteq [q : STRING, filter : STRING,
                             limit : Nat \ {0}, candidate_limit : Nat \ {0}]
    /\ Properties \subseteq PropertyIds
    /\ None \notin PropertyIds /\ None \notin Actions
    /\ None \notin Queries /\ None \notin Commands /\ None \notin Responses
    /\ Actions \subseteq STRING /\ "click" \in Actions
    /\ MaxLogs \in Nat
    /\ MaxFeedback \in Nat

LogRows == [query : STRING, user_id : Users, result_ids : Seq(Properties),
            clicked_id : Properties \cup {None}, actioned_id : Properties \cup {None},
            action_type : Actions \cup {None}]

CompareRows == [search_log_id : 1 .. MaxLogs,
                meili_result_ids : Seq(Properties),
                reranked_result_ids : Seq(Properties),
                changed_count : Nat, top1_changed : BOOLEAN]

Phases == {"idle", "cache_get", "candidates", "rerank", "insert_log", "commit_log",
           "compare_log", "cache_set", "feedback", "reply"}

Statuses == {0, 200, 404, 500, 502}

\* A handler's locals: the request, the lists execute() has built so far, the
\* ids it was given, and the status and body it is about to send (status 0:
\* none yet).
HandlerStates ==
    [pc : Phases, query : Queries \cup {None}, command : Commands \cup {None},
     candidates : Seq(Properties), reranked : Seq(Properties),
     search_log_id : 0 .. MaxLogs, compare_log_id : Nat,
     status : Statuses, body : Responses \cup {None}]

Idle == [pc |-> "idle", query |-> None, command |-> None,
         candidates |-> <<>>, reranked |-> <<>>,
         search_log_id |-> 0, compare_log_id |-> 0, status |-> 0, body |-> None]

\* The row that the INSERT of a search writes.
NewLog(h) == [query |-> h.query.condition.q, user_id |-> h.query.user_id,
              result_ids |-> h.reranked, clicked_id |-> None,
              actioned_id |-> None, action_type |-> None]

\* A fault: the comparison keeps what was shown, not what was logged.
NewCompareShown(h) ==
    LET shown == Prefix(h.reranked, h.query.condition.limit)
    IN  [search_log_id |-> h.search_log_id,
         meili_result_ids |-> h.candidates, reranked_result_ids |-> shown,
         changed_count |-> ChangedCount(h.candidates, shown),
         top1_changed |-> Top1Changed(h.candidates, shown)]

NewCompare(h) ==
    [search_log_id |-> h.search_log_id,
     meili_result_ids |-> h.candidates, reranked_result_ids |-> h.reranked,
     changed_count |-> ChangedCount(h.candidates, h.reranked),
     top1_changed |-> Top1Changed(h.candidates, h.reranked)]

\* A fault: the slice is missing.
NewResponseUnsliced(h) ==
    [search_log_id |-> h.search_log_id, compare_log_id |-> h.compare_log_id,
     count |-> Len(h.reranked), items |-> h.reranked]

\* The dict execute() builds: it shows the first `limit` items but counts,
\* and has logged, all of them.
NewResponse(h) ==
    [search_log_id |-> h.search_log_id, compare_log_id |-> h.compare_log_id,
     count |-> Len(h.reranked),
     items |-> Prefix(h.reranked, h.query.condition.limit)]

\* Faults: every action writes clicked_id; every action but a click clears it.
LabelledClicked(row, command) ==
    [row EXCEPT !.clicked_id  = command.property_id,
                !.actioned_id = command.property_id,
                !.action_type = command.action]

LabelledCleared(row, command) ==
    [row EXCEPT !.clicked_id  = IF command.action = "click" THEN command.property_id ELSE None,
                !.actioned_id = command.property_id,
                !.action_type = command.action]

\* The UPDATE of a feedback on the row it names: clicked_id only by a click,
\* the label by every action.
Labelled(row, command) ==
    [row EXCEPT !.clicked_id  = IF command.action = "click" THEN command.property_id ELSE @,
                !.actioned_id = command.property_id,
                !.action_type = command.action]

\* Row i of a table that has its rows by id.
WithRow(table, i, row) ==
    [j \in DOMAIN table \cup {i} |-> IF j = i THEN row ELSE table[j]]
-----------------------------------------------------------------------------
Init ==
    /\ handlers = [t \in Threads |-> Idle]
    /\ redis = [k \in Conditions |-> None]
    /\ search_logs = [i \in {} |-> None]
    /\ log_seq = 0
    /\ ranking_compare_logs = [i \in {} |-> None]
    /\ compare_seq = 0
    /\ property_stats = [p \in {} |-> NoStats]

At(t, phase) == handlers[t].pc = phase

Become(t, h) == handlers' = [handlers EXCEPT ![t] = h]

\* The request is over but for its answer; execute() and its locals are gone.
Answered(h, status, body) ==
    [Idle EXCEPT !.pc = "reply", !.query = h.query, !.command = h.command,
                 !.status = status, !.body = body]

Answer(t, status, body) == Become(t, Answered(handlers[t], status, body))

StartSearch(t) ==
    /\ At(t, "idle")
    /\ \E q \in Queries : Become(t, [Idle EXCEPT !.pc = "cache_get", !.query = q])
    /\ UNCHANGED <<redis, database>>

CountedFeedback ==
    SumFunction([x \in Properties \X Actions |-> RowOf(property_stats, x[1]).count[x[2]]])

\* The client may name any property and any search log, whether or not the
\* log showed that property to this user.
StartFeedback(t) ==
    /\ At(t, "idle")
    /\ CountedFeedback < MaxFeedback
    /\ \E c \in Commands : Become(t, [Idle EXCEPT !.pc = "feedback", !.command = c])
    /\ UNCHANGED <<redis, database>>

\* A fault: the key is built without the query text.
CacheHitAnyText(t) ==
    /\ At(t, "cache_get")
    /\ \E k \in Conditions :
        /\ k.filter = handlers[t].query.condition.filter
        /\ redis[k] # None
        /\ Answer(t, 200, redis[k])
    /\ UNCHANGED <<redis, database>>

\* A hit is returned as it is: nothing is logged, and whoever filled the
\* entry need not be this user.
CacheHit(t) ==
    /\ At(t, "cache_get")
    /\ redis[handlers[t].query.condition] # None
    /\ Answer(t, 200, redis[handlers[t].query.condition])
    /\ UNCHANGED <<redis, database>>

\* No entry, or an error that the adapter logs and turns into a miss.
CacheMiss(t) ==
    /\ At(t, "cache_get")
    /\ Become(t, [handlers[t] EXCEPT !.pc = "candidates"])
    /\ UNCHANGED <<redis, database>>

SearchCandidates(t) ==
    /\ At(t, "candidates")
    /\ \E s \in Hits(handlers[t].query.condition) :
        Become(t, [handlers[t] EXCEPT !.pc = "rerank", !.candidates = s])
    /\ UNCHANGED <<redis, database>>

\* Query embedding, stored embeddings, features and the model: all read, and
\* all they decide is the order.
Rerank(t) ==
    /\ At(t, "rerank")
    /\ \E s \in Rankings(handlers[t].candidates) :
        Become(t, [handlers[t] EXCEPT !.pc = "insert_log", !.reranked = s])
    /\ UNCHANGED <<redis, database>>

\* A fault: the next id is read off the table.
InsertSearchLogMax(t) ==
    /\ At(t, "insert_log")
    /\ Cardinality(DOMAIN search_logs) < MaxLogs
    /\ log_seq' = Cardinality(DOMAIN search_logs) + 1
    /\ Become(t, [handlers[t] EXCEPT !.pc = "commit_log", !.search_log_id = log_seq'])
    /\ UNCHANGED <<redis, search_logs, ranking_compare_logs, compare_seq, property_stats>>

\* The first statement of the transaction draws the id.
InsertSearchLog(t) ==
    /\ At(t, "insert_log")
    /\ log_seq < MaxLogs
    /\ log_seq' = log_seq + 1
    /\ Become(t, [handlers[t] EXCEPT !.pc = "commit_log", !.search_log_id = log_seq + 1])
    /\ UNCHANGED <<redis, search_logs, ranking_compare_logs, compare_seq, property_stats>>

\* The bulk UPSERT and the commit.  When the acknowledgement is lost the
\* transaction has happened and the handler sees an exception.
CommitSearchLog(t) ==
    LET h == handlers[t] IN
    /\ At(t, "commit_log")
    /\ search_logs' = WithRow(search_logs, h.search_log_id, NewLog(h))
    /\ property_stats' = Impress(property_stats, Range(h.reranked))
    /\ \/ Become(t, [h EXCEPT !.pc = "compare_log"])
       \/ Answer(t, 500, None)
    /\ UNCHANGED <<redis, log_seq, ranking_compare_logs, compare_seq>>

\* A second transaction.
CreateCompareLog(t) ==
    LET h == handlers[t] IN
    /\ At(t, "compare_log")
    /\ compare_seq' = compare_seq + 1
    /\ ranking_compare_logs' =
           WithRow(ranking_compare_logs, compare_seq + 1, NewCompare(h))
    /\ \/ Become(t, [h EXCEPT !.pc = "cache_set", !.compare_log_id = compare_seq + 1])
       \/ Answer(t, 500, None)
    /\ UNCHANGED <<redis, search_logs, log_seq, property_stats>>

\* setex overwrites what another thread may have stored meanwhile; its errors
\* are logged and dropped.
CacheSet(t) ==
    LET h == handlers[t] IN
    /\ At(t, "cache_set")
    /\ \/ redis' = [redis EXCEPT ![h.query.condition] = NewResponse(h)]
       \/ UNCHANGED redis
    /\ Answer(t, 200, NewResponse(h))
    /\ UNCHANGED database

\* One transaction: the counters, then the label of the named log.  It
\* commits whether or not that log exists; only afterwards does execute()
\* raise LookupError.
ApplyFeedback(t) ==
    LET c == handlers[t].command
        updated == c.search_log_id \in DOMAIN search_logs
    IN
    /\ At(t, "feedback")
    /\ c.property_id \in Properties
    /\ property_stats' = Act(property_stats, c.property_id, c.action)
    /\ search_logs' = IF updated
                      THEN [search_logs EXCEPT ![c.search_log_id] = Labelled(@, c)]
                      ELSE search_logs
    /\ \/ Answer(t, IF c.search_log_id = 0 \/ updated THEN 200 ELSE 404, None)
       \/ Answer(t, 500, None)
    /\ UNCHANGED <<redis, log_seq, ranking_compare_logs, compare_seq>>

\* A call raises and its transaction, if any, is rolled back: Meilisearch is
\* unreachable, the pool has no connection, PostgreSQL breaks a deadlock or
\* refuses a foreign key.  An id drawn from the sequence is lost.
Fail(t) ==
    /\ \/ At(t, "candidates") /\ Answer(t, 502, None)
       \/ /\ handlers[t].pc \in {"candidates", "rerank", "insert_log", "commit_log",
                                 "compare_log", "feedback"}
          /\ Answer(t, 500, None)
    /\ UNCHANGED <<redis, database>>

Reply(t) ==
    /\ At(t, "reply")
    /\ Become(t, Idle)
    /\ UNCHANGED <<redis, database>>

\* The entry's time is over, or Redis evicts it or restarts.
Expire(k) ==
    /\ redis[k] # None
    /\ redis' = [redis EXCEPT ![k] = None]
    /\ UNCHANGED <<handlers, database>>

\* The API process dies; its open transactions are rolled back.
Crash ==
    /\ \E t \in Threads : ~At(t, "idle")
    /\ handlers' = [t \in Threads |-> Idle]
    /\ UNCHANGED <<redis, database>>

Handle(t) ==
    \/ CacheHit(t) \/ CacheMiss(t)
    \/ SearchCandidates(t) \/ Rerank(t)
    \/ InsertSearchLog(t) \/ CommitSearchLog(t)
    \/ CreateCompareLog(t) \/ CacheSet(t)
    \/ ApplyFeedback(t)
    \/ Fail(t) \/ Reply(t)

Next ==
    \/ \E t \in Threads : StartSearch(t) \/ StartFeedback(t) \/ Handle(t)
    \/ \E k \in Conditions : Expire(k)
    \/ Crash

Spec == Init /\ [][Next]_vars
-----------------------------------------------------------------------------
TypeOK ==
    /\ handlers \in [Threads -> HandlerStates]
    /\ redis \in [Conditions -> Responses \cup {None}]
    /\ log_seq \in 0 .. MaxLogs
    /\ DOMAIN search_logs \subseteq 1 .. log_seq
    /\ search_logs \in [DOMAIN search_logs -> LogRows]
    /\ compare_seq \in Nat
    /\ DOMAIN ranking_compare_logs \subseteq 1 .. compare_seq
    /\ ranking_compare_logs \in [DOMAIN ranking_compare_logs -> CompareRows]
    /\ DOMAIN property_stats \subseteq Properties
    /\ property_stats \in [DOMAIN property_stats -> StatsRows]

\* What a thread believes about the tables is true at every step it can be
\* suspended at: its locals were set by the steps before, a drawn id is its
\* own until it commits, a committed search is in search_logs and is compared
\* by nobody else, and a compared one has its comparison.
Searching == {"cache_get", "candidates", "rerank", "insert_log", "commit_log",
              "compare_log", "cache_set"}

LocalsSet(h) ==
    /\ h.pc \in Searching => h.query # None /\ h.command = None
    /\ h.pc = "feedback" => h.command # None /\ h.query = None
    /\ h.pc = "reply" => (h.query = None) # (h.command = None)
    /\ h.body # None => h.pc = "reply" /\ h.status = 200 /\ h.query # None
    /\ h.pc \in {"rerank", "insert_log", "commit_log", "compare_log", "cache_set"} =>
           h.candidates \in Hits(h.query.condition)
    /\ h.pc \in {"insert_log", "commit_log", "compare_log", "cache_set"} =>
           h.reranked \in Rankings(h.candidates)

IdsOwned(h) ==
    /\ h.pc = "commit_log" => h.search_log_id \in (1 .. log_seq) \ DOMAIN search_logs
    /\ h.pc \in {"compare_log", "cache_set"} =>
           /\ h.search_log_id \in DOMAIN search_logs
           /\ search_logs[h.search_log_id].result_ids = h.reranked
           /\ search_logs[h.search_log_id].query = h.query.condition.q
    /\ h.pc = "compare_log" =>
           \A i \in DOMAIN ranking_compare_logs :
               ranking_compare_logs[i].search_log_id # h.search_log_id
    /\ h.pc = "cache_set" =>
           /\ h.compare_log_id \in DOMAIN ranking_compare_logs
           /\ ranking_compare_logs[h.compare_log_id].search_log_id = h.search_log_id

Claims(h) == h.pc \in {"commit_log", "compare_log"}

HandlersMatchTables ==
    /\ \A t \in Threads : LocalsSet(handlers[t]) /\ IdsOwned(handlers[t])
    /\ \A t, u \in Threads :
           t # u /\ Claims(handlers[t]) /\ Claims(handlers[u])
               => handlers[t].search_log_id # handlers[u].search_log_id

\* Impressions and search_logs are two tables written by one transaction of
\* log_search_and_increment_impressions: whatever fails, and whichever of an
\* impression and a feedback creates the stats row, the impression counter of
\* a property is the number of committed logs whose result_ids hold it.
Showing(p) == {i \in DOMAIN search_logs : p \in Range(search_logs[i].result_ids)}

ImpressionsMatchLogs ==
    \A p \in Properties :
        RowOf(property_stats, p).impression = Cardinality(Showing(p))

\* A rate column is never stale: impressions and feedback update it from
\* different statements, each of which must divide the counter the row has
\* after the statement by the impressions it has after it.
RatesFresh ==
    \A p \in DOMAIN property_stats, a \in Actions :
        property_stats[p].rate[a] =
            Rate(property_stats[p].count[a], property_stats[p].impression)

\* Labels are counted: the logs whose latest action is `a` on `p` are no more
\* than the `a` actions counted for `p`, and so for clicked_id, which only a
\* click writes.  apply_feedback counts and labels in one transaction.
LabelsCounted ==
    \A p \in Properties :
        LET count == RowOf(property_stats, p).count IN
        /\ \A a \in Actions :
               Cardinality({i \in DOMAIN search_logs :
                               /\ search_logs[i].actioned_id = p
                               /\ search_logs[i].action_type = a}) <= count[a]
        /\ Cardinality({i \in DOMAIN search_logs : search_logs[i].clicked_id = p})
               <= count["click"]

\* A feedback answered 200 or 404 has been counted, each on its own: two
\* threads about to answer never rest on the same increment, and an unknown
\* search_log_id does not undo it (record_feedback.py raises after the commit).
AnsweredFeedback(p, a) ==
    {t \in Threads : /\ At(t, "reply")
                     /\ handlers[t].status \in {200, 404}
                     /\ handlers[t].command # None
                     /\ handlers[t].command.property_id = p
                     /\ handlers[t].command.action = a}

FeedbackCounted ==
    \A p \in Properties, a \in Actions :
        Cardinality(AnsweredFeedback(p, a)) <= RowOf(property_stats, p).count[a]

\* A comparison belongs to a committed search, repeats its result_ids, and is
\* the only one of that search.
ComparesMatchLogs ==
    /\ \A i \in DOMAIN ranking_compare_logs :
        LET c == ranking_compare_logs[i] IN
        /\ c.search_log_id \in DOMAIN search_logs
        /\ c.reranked_result_ids = search_logs[c.search_log_id].result_ids
    /\ \A i, j \in DOMAIN ranking_compare_logs :
        ranking_compare_logs[i].search_log_id = ranking_compare_logs[j].search_log_id
            => i = j

\* The reranker permutes the candidates, so exactly one changed position is
\* impossible, and a new first item means at least two.
ChangesPlausible ==
    \A i \in DOMAIN ranking_compare_logs :
        LET c == ranking_compare_logs[i] IN
        /\ c.changed_count # 1
        /\ c.top1_changed => c.changed_count >= 2
        /\ c.changed_count <= Len(c.reranked_result_ids)

\* What a response claims is in the database: its search log, the comparison
\* of that very search, and the first items of the logged result.
Backed(r) ==
    /\ r.search_log_id \in DOMAIN search_logs
    /\ r.compare_log_id \in DOMAIN ranking_compare_logs
    /\ ranking_compare_logs[r.compare_log_id].search_log_id = r.search_log_id
    /\ LET ids == search_logs[r.search_log_id].result_ids IN
        /\ r.count = Len(ids)
        /\ Len(r.items) <= r.count
        /\ \A n \in 1 .. Len(r.items) : r.items[n] = ids[n]

\* A cached response is backed, was computed for this query text, and holds
\* no more items than the key's limit: it must survive expiry, overwriting by
\* a concurrent miss, lost sets and crashes of the thread that computed it.
CacheBacked ==
    \A k \in Conditions :
        redis[k] # None =>
            /\ Backed(redis[k])
            /\ search_logs[redis[k].search_log_id].query = k.q
            /\ Len(redis[k].items) <= k.limit

\* A 200 is durable: every search answered 200, from the cache or not, is
\* backed, so a feedback on the search_log_id in it will find its log.
AnswersBacked ==
    \A t \in Threads :
        (At(t, "reply") /\ handlers[t].status = 200 /\ handlers[t].query # None)
            => /\ handlers[t].body # None
               /\ Backed(handlers[t].body)
               /\ search_logs[handlers[t].body.search_log_id].query
                      = handlers[t].query.condition.q

\* search_logs as training data: a row never vanishes, what was searched and
\* shown never changes, a recorded click is never erased, a label changes only
\* with a counted action, and a row is entered without a label.
LogsOnlyGrow ==
    [][/\ \A i \in DOMAIN search_logs :
            /\ i \in DOMAIN search_logs'
            /\ \A f \in {"query", "user_id", "result_ids"} :
                   search_logs'[i][f] = search_logs[i][f]
            /\ search_logs[i].clicked_id # None => search_logs'[i].clicked_id # None
            /\ search_logs'[i] # search_logs[i] =>
                   \E p \in Properties, a \in Actions :
                       /\ search_logs'[i].actioned_id = p
                       /\ search_logs'[i].action_type = a
                       /\ RowOf(property_stats', p).count[a]
                              = RowOf(property_stats, p).count[a] + 1
       /\ \A i \in DOMAIN search_logs' \ DOMAIN search_logs :
            search_logs'[i].clicked_id = None /\ search_logs'[i].action_type = None
      ]_vars
-----------------------------------------------------------------------------
\* A claim of docs/03 that the code does not keep.

\* result_ids is described as the list of the returned property ids.
ResultIdsReturned ==
    \A t \in Threads :
        LET r == handlers[t].body IN
        r # None => r.items = search_logs[r.search_log_id].result_ids
-----------------------------------------------------------------------------
\* The tables and the answers, read as the ledger.
Shown == [i \in DOMAIN search_logs |-> Range(search_logs[i].result_ids)]

Labels == [i \in DOMAIN search_logs |->
              IF search_logs[i].action_type = None THEN {}
              ELSE {<<search_logs[i].actioned_id, search_logs[i].action_type>>}]

Clicks == [i \in DOMAIN search_logs |-> {search_logs[i].clicked_id} \ {None}]

Impressions == [p \in Properties |-> RowOf(property_stats, p).impression]

Acted == [p \in Properties |-> RowOf(property_stats, p).count]

Compared == {ranking_compare_logs[i].search_log_id : i \in DOMAIN ranking_compare_logs}

Served == [t \in Threads |-> IF handlers[t].body = None THEN 0
                             ELSE handlers[t].body.search_log_id]

Ledger == INSTANCE SearchLedger WITH
    Clients <- Threads, Ids <- 1 .. MaxLogs, shown <- Shown, label <- Labels,
    clicked <- Clicks, impressions <- Impressions, acted <- Acted,
    compared <- Compared, served <- Served

\* Retries, failures, crashes, hits and expiry are all steps the ledger
\* allows, or does not see.
LedgerSpec == Ledger!Spec
=============================================================================
