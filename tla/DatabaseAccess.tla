--------------------------- MODULE DatabaseAccess ---------------------------
(***************************************************************************)
(* How threads and jobs come to property_stats: through the connection     *)
(* pool that each process builds when it is first asked for a connection,  *)
(* and through transactions whose statements lock one row after another.   *)
(*                                                                         *)
(* The API's threads run the bulk UPSERT of a search (in the order of its  *)
(* ranking) and the UPSERT of a feedback.  The daily job is a process of   *)
(* its own, with a pool of its own: it updates every row, commits, and     *)
(* takes a second connection while it still holds the first.               *)
(*                                                                         *)
(* PostgreSQL (external): a row is locked from the statement that touches  *)
(* it to the end of the transaction; a statement that had to wait goes on  *)
(* with the row as it has been committed by then; a circle of waiting      *)
(* transactions is broken by aborting a member.                            *)
(***************************************************************************)
EXTENDS FiniteSets, Sequences, Functions, StatsTable

CONSTANTS
    Threads,        \* worker threads of the API
    Properties,
    Rankings,       \* the rankings that a search may end with
    None,
    PoolSizes,      \* values of POSTGRES_POOL_MAX_SIZE
    MaxUpdates      \* bound: a search or feedback starts below so many updates

Daily == "daily"
Clients == Threads \cup {Daily}
Processes == {"api", "job"}
Process(c) == IF c = Daily THEN "job" ELSE "api"

ASSUME DatabaseConstants ==
    /\ IsFiniteSet(Properties)
    /\ Daily \notin Threads
    /\ None \notin Clients \cup {"success"}
    /\ PoolSizes \subseteq Nat \ {0}
    /\ \A s \in Rankings : s \in Injection(DOMAIN s, Properties) /\ s \in Seq(Properties)
    /\ Actions \cap {"search", "daily"} = {}
    /\ None \notin [kind : Actions \cup {"search", "daily"}, rows : SUBSET Properties]

VARIABLES
    max_size,           \* POSTGRES_POOL_MAX_SIZE, for the API and the job alike
    _POOL,              \* whether the global of each process is set
    opened,             \* pools a process has opened (no variable of the program)
    _POOL_LOCK,         \* its holder, or None
    clients,            \* local state of each client
    locks,              \* [rows that are locked -> the client]
    property_stats,     \* committed rows (see StatsTable)
    status              \* how the latest daily run ended

pools == <<max_size, _POOL, opened, _POOL_LOCK>>
vars == <<pools, clients, locks, property_stats, status>>

Phases == {"idle", "check", "lock", "build", "connect",
           "rows", "select", "network", "log"}

\* todo: the rows still to be touched; written: those that have been, as this
\* transaction has left them; conns: connections held.
NoWrites == [p \in {} |-> NoStats]

NoClient == [pc |-> "idle", kind |-> None, todo |-> <<>>, written |-> NoWrites,
             conns |-> 0, raised |-> FALSE]

\* The orders in which a statement may come to the rows of S.
Orders(S) == Bijection(1 .. Cardinality(S), S)

Init ==
    /\ max_size \in PoolSizes
    /\ _POOL = [x \in Processes |-> FALSE]
    /\ opened = [x \in Processes |-> 0]
    /\ _POOL_LOCK = [x \in Processes |-> None]
    /\ clients = [c \in Clients |-> NoClient]
    /\ locks = [p \in {} |-> None]
    /\ property_stats = NoWrites
    /\ status = None
-----------------------------------------------------------------------------
At(c, phase) == clients[c].pc = phase

Become(c, state) == clients' = [clients EXCEPT ![c] = state]

Goto(c, phase) == Become(c, [clients[c] EXCEPT !.pc = phase])

\* A search touches the rows of its ranking in their order (none, when there
\* was no hit), a feedback one row.
Statements ==
    {[kind |-> "search", todo |-> s] : s \in Rankings}
        \cup {[kind |-> a, todo |-> <<p>>] : a \in Actions, p \in Properties}

Begin(t) ==
    LET begun == SumFunction([p \in DOMAIN property_stats |-> property_stats[p].impression
                     + SumFunction(property_stats[p].count)])
    IN
    /\ At(t, "idle") /\ t # Daily
    /\ begun < MaxUpdates
    /\ \E update \in Statements :
           Become(t, [NoClient EXCEPT !.pc = "check", !.kind = update.kind,
                                      !.todo = update.todo])
    /\ UNCHANGED <<pools, locks, property_stats, status>>

BeginDaily ==
    /\ At(Daily, "idle")
    /\ Become(Daily, [NoClient EXCEPT !.pc = "check", !.kind = "daily"])
    /\ UNCHANGED <<pools, locks, property_stats, status>>
-----------------------------------------------------------------------------
\* _get_pool: the test outside the lock,
CheckPool(c) ==
    /\ At(c, "check")
    /\ Goto(c, IF _POOL[Process(c)] THEN "connect" ELSE "lock")
    /\ UNCHANGED <<pools, locks, property_stats, status>>

\* A fault: the test is not repeated under the lock.
LockPoolOnly(c) ==
    /\ At(c, "lock")
    /\ _POOL_LOCK[Process(c)] = None
    /\ _POOL_LOCK' = [_POOL_LOCK EXCEPT ![Process(c)] = c]
    /\ Goto(c, "build")
    /\ UNCHANGED <<max_size, _POOL, opened, locks, property_stats, status>>

\* the test under it (the lock is free again at once when the pool is there),
LockPool(c) ==
    /\ At(c, "lock")
    /\ _POOL_LOCK[Process(c)] = None
    /\ IF _POOL[Process(c)]
       THEN Goto(c, "connect") /\ UNCHANGED _POOL_LOCK
       ELSE /\ Goto(c, "build")
            /\ _POOL_LOCK' = [_POOL_LOCK EXCEPT ![Process(c)] = c]
    /\ UNCHANGED <<max_size, _POOL, opened, locks, property_stats, status>>

\* and the pool.
BuildPool(c) ==
    /\ At(c, "build")
    /\ _POOL' = [_POOL EXCEPT ![Process(c)] = TRUE]
    /\ opened' = [opened EXCEPT ![Process(c)] = @ + 1]
    /\ _POOL_LOCK' = [_POOL_LOCK EXCEPT ![Process(c)] = None]
    /\ Goto(c, "connect")
    /\ UNCHANGED <<max_size, locks, property_stats, status>>

Lent(x) ==
    Cardinality({l \in Clients \X {1, 2} : Process(l[1]) = x /\ l[2] <= clients[l[1]].conns})

\* The daily job's first connection, start_log with its commit, and the rows
\* that its UPDATE will find; its second; or an API thread's.
Connect(c) ==
    LET h == [clients[c] EXCEPT !.conns = @ + 1] IN
    /\ At(c, "connect")
    /\ Lent(Process(c)) < max_size
    /\ IF c # Daily THEN Become(c, [h EXCEPT !.pc = "rows"]) /\ UNCHANGED status
       ELSE IF clients[c].conns = 1 THEN Become(c, [h EXCEPT !.pc = "select"]) /\ UNCHANGED status
       ELSE /\ \E s \in Orders(DOMAIN property_stats) :
                   Become(c, [h EXCEPT !.pc = "rows", !.todo = s])
            /\ status' = "running"
    /\ UNCHANGED <<pools, locks, property_stats>>
-----------------------------------------------------------------------------
Written(c, p) ==
    [clients[c] EXCEPT
        !.todo = Tail(@),
        !.written = [q \in DOMAIN @ \cup {p} |->
            IF q = p THEN EffectOn(clients[c].kind, RowOf(property_stats, p)) ELSE @[q]]]

\* A fault: the row is read without its lock, as by a SELECT before the UPDATE.
TouchRowUnlocked(c) ==
    LET p == Head(clients[c].todo) IN
    /\ At(c, "rows") /\ clients[c].todo # <<>>
    /\ locks' = [q \in DOMAIN locks \cup {p} |-> IF q = p THEN c ELSE locks[q]]
    /\ Become(c, Written(c, p))
    /\ UNCHANGED <<pools, property_stats, status>>

\* The statement comes to its next row, once nobody else holds it.
TouchRow(c) ==
    LET p == Head(clients[c].todo) IN
    /\ At(c, "rows") /\ clients[c].todo # <<>>
    /\ p \notin DOMAIN locks
    /\ locks' = [q \in DOMAIN locks \cup {p} |-> IF q = p THEN c ELSE locks[q]]
    /\ Become(c, Written(c, p))
    /\ UNCHANGED <<pools, property_stats, status>>

Unlocked(dead) == Restrict(locks, {p \in DOMAIN locks : locks[p] \notin dead})

Visible(c) ==
    [p \in DOMAIN property_stats \cup DOMAIN clients[c].written |->
        IF p \in DOMAIN clients[c].written THEN clients[c].written[p] ELSE property_stats[p]]

\* A fault: the cleanup takes the connection there is.
CommitRowsShared(c) ==
    /\ At(c, "rows") /\ clients[c].todo = <<>>
    /\ property_stats' = Visible(c)
    /\ locks' = Unlocked({c})
    /\ Become(c, IF c = Daily THEN [NoClient EXCEPT !.pc = "select", !.kind = "daily", !.conns = 1]
                 ELSE NoClient)
    /\ UNCHANGED <<pools, status>>

\* The commit.  An API thread gives its connection back; the daily job, whose
\* other two statements meet no other client's rows, goes on with its cleanup.
CommitRows(c) ==
    /\ At(c, "rows") /\ clients[c].todo = <<>>
    /\ property_stats' = Visible(c)
    /\ locks' = Unlocked({c})
    /\ Become(c, IF c = Daily THEN [NoClient EXCEPT !.pc = "check", !.kind = "daily", !.conns = 1]
                 ELSE NoClient)
    /\ UNCHANGED <<pools, status>>

\* cleanup_inactive_from_meili gives its connection back before it asks
\* Meilisearch, which it does not when no property is inactive.
SelectInactive ==
    /\ At(Daily, "select")
    /\ \E phase \in {"network", "log"} :
           Become(Daily, [clients[Daily] EXCEPT !.pc = phase, !.conns = @ - 1])
    /\ UNCHANGED <<pools, locks, property_stats, status>>

DeleteDocuments ==
    /\ At(Daily, "network")
    /\ Goto(Daily, "log")
    /\ UNCHANGED <<pools, locks, property_stats, status>>

FinishLog ==
    /\ At(Daily, "log")
    /\ status' = IF clients[Daily].raised THEN "failed" ELSE "success"
    /\ Become(Daily, NoClient)
    /\ UNCHANGED <<pools, locks, property_stats>>

\* What an exception does: the blocks that are left roll back and give their
\* connections back.  The daily job's handler keeps the first connection and goes
\* on to log the failure, unless it is the handler that raises.
Unwound(c) ==
    IF clients[c].conns > 0 /\ c = Daily /\ ~clients[c].raised
    THEN [NoClient EXCEPT !.pc = "log", !.kind = "daily", !.conns = 1, !.raised = TRUE]
    ELSE NoClient

\* A fault: the daily job's handler does not roll back.
RaiseOpen(c) ==
    /\ Become(c, Unwound(c))
    /\ locks' = IF c = Daily THEN locks ELSE Unlocked({c})
    /\ UNCHANGED <<pools, property_stats, status>>

Raise(c) ==
    /\ Become(c, Unwound(c))
    /\ locks' = Unlocked({c})
    /\ UNCHANGED <<pools, property_stats, status>>

\* A fault: only the first connection is waited for with a timeout.
TimeOutOnce(c) == At(c, "connect") /\ clients[c].conns = 0 /\ Raise(c)

\* PoolTimeout
TimeOut(c) == At(c, "connect") /\ Raise(c)

\* A statement, a commit or a request fails.
Fail(c) == clients[c].pc \in {"rows", "select", "network", "log"} /\ Raise(c)

\* Waiting for a row that another transaction has locked.
Waits(c, d) ==
    /\ At(c, "rows") /\ clients[c].todo # <<>>
    /\ Head(clients[c].todo) \in DOMAIN locks
    /\ locks[Head(clients[c].todo)] = d

\* Each waits for one other at most: a set in which all wait for members and
\* are waited for by members is made of circles.
Deadlocked(c) ==
    (\E d \in Clients : Waits(c, d)) /\ \E S \in SUBSET Clients :
        /\ c \in S
        /\ \A d \in S : \E e, f \in S : Waits(d, e) /\ Waits(f, d)

\* PostgreSQL aborts it.
BreakDeadlock(c) == Deadlocked(c) /\ Raise(c)

\* A process dies: its transactions are rolled back.
Crash(x) ==
    LET dead == {c \in Clients : Process(c) = x} IN
    /\ clients' = [c \in Clients |-> IF c \in dead THEN NoClient ELSE clients[c]]
    /\ locks' = Unlocked(dead)
    /\ _POOL' = [_POOL EXCEPT ![x] = FALSE]
    /\ opened' = [opened EXCEPT ![x] = 0]
    /\ _POOL_LOCK' = [_POOL_LOCK EXCEPT ![x] = None]
    /\ UNCHANGED <<max_size, property_stats, status>>
-----------------------------------------------------------------------------
Go(c) ==
    \/ CheckPool(c) \/ LockPool(c) \/ BuildPool(c)
    \/ Connect(c) \/ TimeOut(c)
    \/ CommitRows(c) \/ BreakDeadlock(c)
    \/ c = Daily /\ (SelectInactive \/ DeleteDocuments \/ FinishLog)

Next ==
    \/ \E t \in Threads : Begin(t)
    \/ BeginDaily
    \/ \E c \in Clients : Go(c) \/ TouchRow(c) \/ Fail(c)
    \/ \E x \in Processes : Crash(x)

Spec == Init /\ [][Next]_vars

\* Threads run, waits for a connection have a timeout, _POOL_LOCK is only held
\* while the pool is built, and deadlocks are broken.  Waiting for a row has no
\* timeout; PostgreSQL queues those who wait, so that one who waits is not passed
\* over for ever by others who take the row.
FairSpec == Spec /\ \A c \in Clients : WF_vars(Go(c)) /\ SF_vars(TouchRow(c))
-----------------------------------------------------------------------------
IsTable(f) == DOMAIN f \subseteq Properties /\ f \in [DOMAIN f -> StatsRows]

IsClient(h) ==
    /\ h = [pc |-> h.pc, kind |-> h.kind, todo |-> h.todo, written |-> h.written,
            conns |-> h.conns, raised |-> h.raised]
    /\ h.pc \in Phases /\ h.conns \in 0 .. 2 /\ h.raised \in BOOLEAN
    /\ h.kind \in Actions \cup {"search", "daily", None}
    /\ h.todo \in Seq(Properties)
    /\ IsTable(h.written)

TypeOK ==
    /\ max_size \in PoolSizes
    /\ _POOL \in [Processes -> BOOLEAN]
    /\ opened \in [Processes -> Nat]
    /\ _POOL_LOCK \in [Processes -> Clients \cup {None}]
    /\ clients = [c \in Clients |-> clients[c]]
    /\ \A c \in Clients : IsClient(clients[c])
    /\ DOMAIN locks \subseteq Properties /\ locks \in [DOMAIN locks -> Clients]
    /\ IsTable(property_stats)
    /\ status \in {None, "running", "success", "failed"}

\* However many threads ask first at once, a process opens one pool, so that it
\* never has more connections than POSTGRES_POOL_MAX_SIZE.
PoolOpenedOnce ==
    \A x \in Processes : opened[x] = IF _POOL[x] THEN 1 ELSE 0

\* Row locks belong to open transactions and are exactly the rows they have
\* touched: none outlives its connection, and nobody waits for a connection,
\* for Meilisearch or for the job log with a row locked.
LocksHeldByTransactions ==
    \A p \in Properties, c \in Clients :
        (p \in DOMAIN locks /\ locks[p] = c)
            <=> (At(c, "rows") /\ p \in DOMAIN clients[c].written)

\* The job needs two connections at once: a pool of one can only end in the
\* PoolTimeout of cleanup_inactive_from_meili, and the run as failed.
PoolOfOneFails == status = "success" => max_size >= 2

\* Nobody who asks for a connection waits for ever: not for the pool, not for
\* rows in opposite orders, not the job for a connection it holds itself.
TransactionsEnd == \A c \in Clients : ~At(c, "idle") ~> At(c, "idle")
-----------------------------------------------------------------------------
\* Row by row under locks, every update is as good as done at its commit.
Asked ==
    [c \in Clients |->
        IF At(c, "rows") THEN [kind |-> clients[c].kind,
                               rows |-> DOMAIN clients[c].written \cup Range(clients[c].todo)]
        ELSE None]

Atomic == INSTANCE StatsUpdates WITH asked <- Asked

AtomicSpec == Atomic!Spec

\* Whatever the order of searches, feedback and the recalculation.
RatesFresh == Atomic!RatesFresh
=============================================================================
