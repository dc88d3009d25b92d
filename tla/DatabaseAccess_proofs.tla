----------------------- MODULE DatabaseAccess_proofs -----------------------
(***************************************************************************)
(* Proofs about DatabaseAccess, for any number of threads, any properties, *)
(* rankings and pool sizes.                                                *)
(***************************************************************************)
EXTENDS DatabaseAccess, FiniteSetTheorems, SequenceTheorems, TLAPS

-----------------------------------------------------------------------------
\* The next row of a statement, and those that are left.
LEMMA TodoSplits ==
    ASSUME NEW s \in Seq(Properties), s # <<>>, IsInjective(s)
    PROVE  /\ Head(s) \in Properties /\ Tail(s) \in Seq(Properties)
           /\ IsInjective(Tail(s))
           /\ Range(s) = {Head(s)} \cup Range(Tail(s))
           /\ Head(s) \notin Range(Tail(s))
<1>1. /\ Head(s) = s[1] /\ Head(s) \in Properties
      /\ Tail(s) \in Seq(Properties) /\ Len(Tail(s)) = Len(s) - 1
      /\ \A i \in 1 .. Len(Tail(s)) : Tail(s)[i] = s[i + 1]
      /\ Len(s) \in Nat /\ Len(s) # 0 /\ DOMAIN s = 1 .. Len(s)
      /\ DOMAIN Tail(s) = 1 .. Len(Tail(s))
  BY HeadTailProperties, EmptySeq, LenProperties
<1>2. IsInjective(Tail(s)) /\ Head(s) \notin Range(Tail(s))
  BY <1>1 DEF IsInjective, Range
<1>3. Range(s) \subseteq {Head(s)} \cup Range(Tail(s))
  <2> SUFFICES ASSUME NEW i \in 1 .. Len(s), i # 1
               PROVE  s[i] \in Range(Tail(s))
    BY <1>1 DEF Range
  <2>1. i - 1 \in 1 .. Len(Tail(s)) /\ Tail(s)[i - 1] = s[i]
    BY <1>1
  <2> QED  BY <2>1, <1>1 DEF Range
<1>4. {Head(s)} \cup Range(Tail(s)) \subseteq Range(s)
  BY <1>1 DEF Range
<1> QED  BY <1>1, <1>2, <1>3, <1>4

\* The orders in which a statement may come to the rows of S.
LEMMA OrdersAreSequences ==
    ASSUME NEW S \in SUBSET Properties, NEW s \in Orders(S)
    PROVE  s \in Seq(Properties) /\ IsInjective(s) /\ Range(s) = S
<1>1. IsFiniteSet(S) /\ Cardinality(S) \in Nat
  BY DatabaseConstants, FS_Subset, FS_CardinalityType
<1>2. /\ s \in [1 .. Cardinality(S) -> S] /\ IsInjective(s)
      /\ \A p \in S : \E i \in 1 .. Cardinality(S) : s[i] = p
  BY DEF Orders, Bijection, Injection, Surjection
<1>3. s \in Seq(Properties)
  BY <1>1, <1>2
<1> QED  BY <1>2, <1>3 DEF Range

LEMMA RankingsAreSequences ==
    ASSUME NEW s \in Rankings
    PROVE  s \in Seq(Properties) /\ IsInjective(s)
BY DatabaseConstants DEF Injection

\* A statement of any kind leaves a row well typed and its rates fresh.
Fresh(row) == \A a \in Actions : row.rate[a] = Rate(row.count[a], row.impression)

LEMMA RateType ==
    ASSUME NEW n \in Nat, NEW i \in Nat
    PROVE  Rate(n, i) \in Nat \X (Nat \ {0})
BY DEF Rate, Zero

LEMMA EffectFresh ==
    ASSUME NEW kind \in Actions \cup {"search", "daily"}, NEW row \in StatsRows
    PROVE  EffectOn(kind, row) \in StatsRows /\ Fresh(EffectOn(kind, row))
<1>1. CASE kind = "search"
  <2>1. EffectOn(kind, row) = ImpressedRow(row)
    BY <1>1 DEF EffectOn
  <2>2. row.impression + 1 \in Nat /\ \A a \in Actions : row.count[a] \in Nat
    BY DEF StatsRows
  <2>3. \A a \in Actions : Rate(row.count[a], row.impression + 1) \in Nat \X (Nat \ {0})
    BY <2>2, RateType
  <2> DEFINE rate == [a \in Actions |-> Rate(row.count[a], row.impression + 1)]
  <2>4. rate \in [Actions -> Nat \X (Nat \ {0})] /\ row.count \in [Actions -> Nat]
    BY <2>3 DEF StatsRows
  <2>5. ImpressedRow(row) = [impression |-> row.impression + 1, count |-> row.count, rate |-> rate]
    BY DEF ImpressedRow
  <2>6. Fresh(ImpressedRow(row))
    BY <2>5 DEF Fresh
  <2> HIDE DEF rate
  <2> QED  BY <2>1, <2>2, <2>4, <2>5, <2>6 DEF StatsRows
<1>2. CASE kind = "daily"
  <2>1. EffectOn(kind, row) = RecalculatedRow(row)
    BY <1>2 DEF EffectOn
  <2> QED  BY <2>1, RateType DEF RecalculatedRow, StatsRows, Fresh
<1>3. CASE kind \notin {"search", "daily"}
  <2>1. EffectOn(kind, row) = ActedRow(row, kind) /\ kind \in Actions
    BY <1>3 DEF EffectOn
  <2> DEFINE count == [row.count EXCEPT ![kind] = @ + 1]
  <2>2. count \in [Actions -> Nat] /\ row.impression \in Nat
    BY <2>1 DEF StatsRows
  <2>3. ActedRow(row, kind) = [impression |-> row.impression, count |-> count,
                               rate |-> [a \in Actions |-> Rate(count[a], row.impression)]]
    BY DEF ActedRow
  <2> HIDE DEF count
  <2> DEFINE rate == [a \in Actions |-> Rate(count[a], row.impression)]
  <2>4. rate \in [Actions -> Nat \X (Nat \ {0})]
    BY <2>2, RateType
  <2>5. Fresh(ActedRow(row, kind))
    BY <2>3 DEF Fresh
  <2> HIDE DEF rate
  <2>6. ActedRow(row, kind) = [impression |-> row.impression, count |-> count, rate |-> rate]
    BY <2>3 DEF rate
  <2> QED  BY <2>1, <2>2, <2>4, <2>5, <2>6 DEF StatsRows
<1> QED  BY <1>1, <1>2, <1>3

LEMMA RowOfType ==
    ASSUME NEW T, IsTable(T), NEW p
    PROVE  RowOf(T, p) \in StatsRows
<1>1. NoStats \in StatsRows
  BY DEF NoStats, StatsRows, Zero
<1> QED  BY <1>1 DEF RowOf, IsTable
-----------------------------------------------------------------------------
(* The inductive invariant.                                                *)

\* What a client's local state says at each of its steps: which connections
\* it holds, that the rows it has written are made from rows nobody has changed
\* since, and that the daily job has come past its second connection only with
\* a pool of two.
LocalOK(c, h) ==
    /\ h.pc # "idle" => h.kind \in IF c = Daily THEN {"daily"} ELSE Actions \cup {"search"}
    /\ h.pc # "rows" => h.written = NoWrites
    /\ h.pc \in {"select", "network", "log"} => c = Daily
    /\ c # Daily => h.conns = (IF h.pc = "rows" THEN 1 ELSE 0)
    /\ h.pc \in {"check", "lock", "build", "connect"} => h.conns # 2
    /\ h.pc \in {"rows", "network", "log"} => h.conns = 1
    /\ h.pc = "select" => h.conns = 2 /\ max_size >= 2
    /\ h.pc \in {"network", "log"} /\ ~h.raised => max_size >= 2
    /\ h.raised => h.pc = "log"
    /\ IsInjective(h.todo)
    /\ h.pc = "rows" =>
           /\ Range(h.todo) \cap DOMAIN h.written = {}
           /\ \A p \in DOMAIN h.written :
                  h.written[p] = EffectOn(h.kind, RowOf(property_stats, p))

PoolInv ==
    /\ PoolOpenedOnce
    /\ \A x \in Processes :
           _POOL_LOCK[x] # None => Process(_POOL_LOCK[x]) = x /\ At(_POOL_LOCK[x], "build")
    /\ \A c \in Clients :
           At(c, "build") => _POOL_LOCK[Process(c)] = c /\ ~_POOL[Process(c)]

IInv ==
    /\ TypeOK
    /\ PoolInv
    /\ LocksHeldByTransactions
    /\ \A c \in Clients : LocalOK(c, clients[c])
    /\ \A p \in DOMAIN property_stats : Fresh(property_stats[p])
    /\ PoolOfOneFails

LEMMA ClientsAndProcesses ==
    /\ Daily \in Clients /\ None \notin Clients
    /\ \A c \in Clients : Process(c) \in Processes
    /\ \A c \in Clients : c # Daily => c \in Threads
BY DatabaseConstants DEF Clients, Process, Processes

\* A client's record stays one when a field of it changes.
Whole(h) == h = [pc |-> h.pc, kind |-> h.kind, todo |-> h.todo, written |-> h.written,
                 conns |-> h.conns, raised |-> h.raised]

LEMMA WholeChanged ==
    ASSUME NEW h, Whole(h), NEW v
    PROVE  /\ Whole([h EXCEPT !.pc = v]) /\ Whole([h EXCEPT !.kind = v])
           /\ Whole([h EXCEPT !.todo = v]) /\ Whole([h EXCEPT !.written = v])
           /\ Whole([h EXCEPT !.conns = v]) /\ Whole([h EXCEPT !.raised = v])
BY DEF Whole

LEMMA ClientType ==
    ASSUME NEW h, Whole(h), h.pc \in Phases, h.conns \in 0 .. 2, h.raised \in BOOLEAN,
           h.kind \in Actions \cup {"search", "daily", None},
           h.todo \in Seq(Properties), IsTable(h.written)
    PROVE  IsClient(h)
BY DEF IsClient, Whole

LEMMA NoClientOK ==
    /\ IsClient(NoClient)
    /\ \A c \in Clients : LocalOK(c, NoClient)
    /\ IsTable(NoWrites) /\ DOMAIN NoWrites = {}
    /\ NoClient.pc = "idle" /\ NoClient.written = NoWrites
<1>1. IsTable(NoWrites) /\ DOMAIN NoWrites = {}
  BY DEF IsTable, NoWrites
<1>2. <<>> \in Seq(Properties) /\ IsInjective(<<>>)
  BY DEF IsInjective
<1>3. IsClient(NoClient)
  BY <1>1, <1>2 DEF IsClient, NoClient, Phases
<1> QED  BY <1>1, <1>2, <1>3 DEF NoClient, LocalOK

LEMMA InitInv == Init => IInv
<1> SUFFICES ASSUME Init PROVE IInv
  OBVIOUS
<1>1. \A c \in Clients : clients[c] = NoClient
  BY DEF Init
<1>2. TypeOK
  BY <1>1, NoClientOK DEF Init, TypeOK, IsTable
<1>3. PoolInv
  BY <1>1 DEF Init, PoolInv, PoolOpenedOnce, At, NoClient
<1>4. LocksHeldByTransactions
  BY <1>1 DEF Init, LocksHeldByTransactions, At, NoClient
<1>5. \A c \in Clients : LocalOK(c, clients[c])
  BY <1>1, NoClientOK
<1>6. PoolOfOneFails /\ DOMAIN property_stats = {}
  BY NoClientOK, DatabaseConstants DEF Init, PoolOfOneFails
<1> QED  BY <1>2, <1>3, <1>4, <1>5, <1>6 DEF IInv
-----------------------------------------------------------------------------
(* Steps.                                                                  *)

\* A client that is in no transaction holds no lock.
LEMMA UnlockedNothing ==
    ASSUME IInv, NEW c \in Clients, ~At(c, "rows")
    PROVE  Unlocked({c}) = locks
<1>1. \A p \in DOMAIN locks : p \in Properties /\ locks[p] # c
  BY DEF IInv, TypeOK, LocksHeldByTransactions
<1>2. {p \in DOMAIN locks : locks[p] \notin {c}} = DOMAIN locks
  BY <1>1
<1>3. locks = [p \in DOMAIN locks |-> locks[p]]
  BY DEF IInv, TypeOK
<1> QED  BY <1>2, <1>3 DEF Unlocked, Restrict

\* A step of one client that gives up the rows it has, and changes no others.
LEMMA RowlessStep ==
    ASSUME IInv, NEW c \in Clients, NEW X, clients' = [clients EXCEPT ![c] = X],
           IsClient(X), LocalOK(c, X)', X.written = NoWrites, locks' = Unlocked({c}),
           UNCHANGED max_size,
           \A p \in Properties \ DOMAIN clients[c].written :
               RowOf(property_stats, p)' = RowOf(property_stats, p)
    PROVE  /\ clients' = [d \in Clients |-> clients'[d]]
           /\ \A d \in Clients : IsClient(clients'[d])
           /\ DOMAIN locks' \subseteq Properties /\ locks' \in [DOMAIN locks' -> Clients]
           /\ LocksHeldByTransactions'
           /\ \A d \in Clients : LocalOK(d, clients[d])'
<1>1. clients'[c] = X /\ \A d \in Clients : d # c => clients'[d] = clients[d]
  BY DEF IInv, TypeOK
<1>2. clients' = [d \in Clients |-> clients'[d]] /\ \A d \in Clients : IsClient(clients'[d])
  BY <1>1 DEF IInv, TypeOK
<1>3. /\ DOMAIN locks' = {p \in DOMAIN locks : locks[p] # c}
      /\ \A p \in DOMAIN locks' : locks'[p] = locks[p]
  BY DEF Unlocked, Restrict
<1>4. DOMAIN locks' \subseteq Properties /\ locks' \in [DOMAIN locks' -> Clients]
  BY <1>3 DEF IInv, TypeOK, Unlocked, Restrict
<1>5. LocksHeldByTransactions'
  <2> SUFFICES ASSUME NEW p \in Properties, NEW d \in Clients
               PROVE  (p \in DOMAIN locks' /\ locks'[p] = d)
                          <=> (clients'[d].pc = "rows" /\ p \in DOMAIN clients'[d].written)
    BY DEF LocksHeldByTransactions, At
  <2>1. CASE d = c
    BY <2>1, <1>1, <1>3, NoClientOK
  <2>2. CASE d # c
    <3>1. (p \in DOMAIN locks /\ locks[p] = d)
              <=> (clients[d].pc = "rows" /\ p \in DOMAIN clients[d].written)
      BY DEF IInv, LocksHeldByTransactions, At
    <3>2. (p \in DOMAIN locks' /\ locks'[p] = d) <=> (p \in DOMAIN locks /\ locks[p] = d)
      BY <2>2, <1>3
    <3> QED  BY <2>2, <1>1, <3>1, <3>2
  <2> QED  BY <2>1, <2>2
<1>6. \A d \in Clients : LocalOK(d, clients[d])'
  <2> SUFFICES ASSUME NEW d \in Clients, d # c PROVE LocalOK(d, clients[d])'
    BY <1>1
  <2>1. LocalOK(d, clients[d]) /\ clients'[d] = clients[d]
    BY <1>1 DEF IInv
  <2>2. ASSUME clients[d].pc = "rows", NEW p \in DOMAIN clients[d].written
        PROVE  clients[d].written[p] = EffectOn(clients[d].kind, RowOf(property_stats, p)')
    <3>1. p \in Properties
      BY DEF IInv, TypeOK, IsClient, IsTable
    <3>2. locks[p] = d
      BY <3>1, <2>2 DEF IInv, LocksHeldByTransactions, At
    <3>3. p \notin DOMAIN clients[c].written
      <4>1. clients[c].pc # "rows" => clients[c].written = NoWrites
        BY DEF IInv, LocalOK
      <4>2. clients[c].pc = "rows" /\ p \in DOMAIN clients[c].written => locks[p] = c
        BY <3>1 DEF IInv, LocksHeldByTransactions, At
      <4> QED  BY <3>2, <4>1, <4>2, NoClientOK
    <3> QED  BY <2>1, <2>2, <3>1, <3>3 DEF LocalOK
  <2> QED  BY <2>1, <2>2 DEF LocalOK
<1> QED  BY <1>2, <1>4, <1>5, <1>6

\* And one that has nothing to do with the building of the pool.
LEMMA PoolStep ==
    ASSUME IInv, NEW c \in Clients, NEW X, clients' = [clients EXCEPT ![c] = X],
           ~At(c, "build"), X.pc # "build", UNCHANGED pools
    PROVE  PoolInv'
<1>1. clients'[c] = X /\ \A d \in Clients : d # c => clients'[d] = clients[d]
  BY DEF IInv, TypeOK
<1>2. PoolOpenedOnce'
  BY DEF IInv, PoolInv, PoolOpenedOnce, pools
<1>3. ASSUME NEW x \in Processes, _POOL_LOCK'[x] # None
      PROVE  Process(_POOL_LOCK'[x]) = x /\ At(_POOL_LOCK[x], "build")'
  <2>1. /\ _POOL_LOCK'[x] = _POOL_LOCK[x] /\ _POOL_LOCK[x] \in Clients
        /\ Process(_POOL_LOCK[x]) = x /\ At(_POOL_LOCK[x], "build")
    BY <1>3 DEF IInv, TypeOK, PoolInv, pools
  <2> QED  BY <2>1, <1>1 DEF At
<1>4. ASSUME NEW d \in Clients, At(d, "build")'
      PROVE  (_POOL_LOCK[Process(d)] = d /\ ~_POOL[Process(d)])'
  BY <1>1, <1>4 DEF IInv, PoolInv, At, pools
<1> QED  BY <1>2, <1>3, <1>4 DEF PoolInv

\* Both.
LEMMA QuietStep ==
    ASSUME IInv, NEW c \in Clients, NEW X, clients' = [clients EXCEPT ![c] = X],
           IsClient(X), LocalOK(c, X), X.written = NoWrites, locks' = Unlocked({c}),
           ~At(c, "build"), X.pc # "build", UNCHANGED <<pools, property_stats>>,
           status' \in {None, "running", "success", "failed"},
           status' = "success" => max_size >= 2
    PROVE  IInv'
<1>1. PoolInv'
  BY PoolStep
<1>2. UNCHANGED <<max_size, _POOL, opened, _POOL_LOCK, property_stats>>
  BY DEF pools
<1>3. /\ clients' = [d \in Clients |-> clients'[d]]
      /\ \A d \in Clients : IsClient(clients'[d])
      /\ DOMAIN locks' \subseteq Properties /\ locks' \in [DOMAIN locks' -> Clients]
      /\ LocksHeldByTransactions'
      /\ \A d \in Clients : LocalOK(d, clients[d])'
  <2>1. LocalOK(c, X)'
    BY <1>2 DEF LocalOK
  <2> QED  BY <1>2, <2>1, RowlessStep
<1>4. /\ PoolOfOneFails' /\ IsTable(property_stats')
      /\ (\A p \in DOMAIN property_stats : Fresh(property_stats[p]))'
  BY <1>2 DEF PoolOfOneFails, IInv, TypeOK, Fresh
<1> QED  BY <1>1, <1>2, <1>3, <1>4 DEF IInv, TypeOK

LEMMA BeginInv ==
    ASSUME IInv, NEW t \in Threads, Begin(t)
    PROVE  IInv'
<1>1. PICK kind \in Actions \cup {"search"}, s \in Seq(Properties) :
         /\ IsInjective(s)
         /\ clients' = [clients EXCEPT ![t] =
               [NoClient EXCEPT !.pc = "check", !.kind = kind, !.todo = s]]
  <2>1. PICK update \in Statements :
           clients' = [clients EXCEPT ![t] =
               [NoClient EXCEPT !.pc = "check", !.kind = update.kind, !.todo = update.todo]]
    BY DEF Begin, Become
  <2>2. /\ update.kind \in Actions \cup {"search"}
        /\ update.todo \in Seq(Properties) /\ IsInjective(update.todo)
    <3>1. CASE \E r \in Rankings : update = [kind |-> "search", todo |-> r]
      BY <3>1, RankingsAreSequences
    <3>2. CASE \E a \in Actions, p \in Properties : update = [kind |-> a, todo |-> <<p>>]
      <4>1. \A p \in Properties : <<p>> \in Seq(Properties) /\ IsInjective(<<p>>)
        BY DEF IsInjective
      <4> QED  BY <3>2, <4>1
    <3> QED  BY <3>1, <3>2 DEF Statements
  <2> QED  BY <2>1, <2>2
<1> DEFINE X == [NoClient EXCEPT !.pc = "check", !.kind = kind, !.todo = s]
<1>2. /\ t \in Clients /\ t # Daily /\ clients[t].pc = "idle"
      /\ UNCHANGED <<pools, locks, property_stats, status>>
  BY DEF Begin, Clients, At
<1>3. IsClient(X) /\ LocalOK(t, X) /\ X.written = NoWrites /\ X.pc = "check"
  <2>1. /\ X.pc = "check" /\ X.kind = kind /\ X.todo = s /\ X.written = NoWrites
        /\ X.conns = 0 /\ X.raised = FALSE
    BY DEF NoClient
  <2>2. Whole(X)
    <3>1. X = [[[NoClient EXCEPT !.pc = "check"] EXCEPT !.kind = kind] EXCEPT !.todo = s]
      OBVIOUS
    <3>2. Whole(NoClient)
      BY DEF Whole, NoClient
    <3> QED  BY <3>1, <3>2, WholeChanged
  <2> HIDE DEF X
  <2>3. IsClient(X)
    <3>1. X.kind \in Actions \cup {"search", "daily", None} /\ X.pc \in Phases
      BY <2>1, <1>1 DEF Phases
    <3>2. X.conns \in 0 .. 2 /\ X.todo \in Seq(Properties)
      BY <2>1, <1>1
    <3>3. IsTable(X.written) /\ X.raised \in BOOLEAN
      BY <2>1, NoClientOK, Zenon
    <3> QED  BY <2>2, <3>1, <3>2, <3>3, ClientType
  <2> QED  BY <2>1, <2>3, <1>1, <1>2 DEF LocalOK
<1>4. locks' = Unlocked({t}) /\ ~At(t, "build")
  BY <1>2, UnlockedNothing DEF At
<1>5. status' \in {None, "running", "success", "failed"} /\ (status' = "success" => max_size >= 2)
  BY <1>2 DEF IInv, TypeOK, PoolOfOneFails
<1> HIDE DEF X
<1> QED  BY <1>1, <1>2, <1>3, <1>4, <1>5, QuietStep DEF X

\* A step that changes nothing of a client but its place.
LEMMA Moved ==
    ASSUME IInv, NEW c \in Clients, NEW phase \in Phases
    PROVE  LET X == [clients[c] EXCEPT !.pc = phase] IN
           /\ IsClient(X)
           /\ X.pc = phase /\ X.kind = clients[c].kind /\ X.todo = clients[c].todo
           /\ X.written = clients[c].written /\ X.conns = clients[c].conns
           /\ X.raised = clients[c].raised
<1> DEFINE X == [clients[c] EXCEPT !.pc = phase]
<1>1. IsClient(clients[c]) /\ Whole(clients[c])
  BY DEF IInv, TypeOK, IsClient, Whole
<1>2. /\ X.pc = phase /\ X.kind = clients[c].kind /\ X.todo = clients[c].todo
      /\ X.written = clients[c].written /\ X.conns = clients[c].conns
      /\ X.raised = clients[c].raised
  BY <1>1 DEF Whole
<1>3. Whole(X)
  BY <1>1, WholeChanged
<1> HIDE DEF X
<1>4. IsClient(X)
  BY <1>1, <1>2, <1>3, ClientType DEF IsClient
<1> QED  BY <1>2, <1>4 DEF X

LEMMA BeginDailyInv ==
    ASSUME IInv, BeginDaily
    PROVE  IInv'
<1> DEFINE X == [NoClient EXCEPT !.pc = "check", !.kind = "daily"]
<1>1. /\ clients' = [clients EXCEPT ![Daily] = X] /\ clients[Daily].pc = "idle"
      /\ UNCHANGED <<pools, locks, property_stats, status>>
  BY DEF BeginDaily, Become, At
<1>2. IsClient(X) /\ LocalOK(Daily, X) /\ X.written = NoWrites /\ X.pc = "check"
  <2>1. /\ X.pc = "check" /\ X.kind = "daily" /\ X.todo = <<>> /\ X.written = NoWrites
        /\ X.conns = 0 /\ X.raised = FALSE
    BY DEF NoClient
  <2>2. Whole(X)
    <3>1. X = [[NoClient EXCEPT !.pc = "check"] EXCEPT !.kind = "daily"] /\ Whole(NoClient)
      BY DEF Whole, NoClient
    <3> QED  BY <3>1, WholeChanged
  <2> HIDE DEF X
  <2>3. IsTable(X.written) /\ X.raised \in BOOLEAN
    BY <2>1, NoClientOK, Zenon
  <2>4. X.conns \in 0 .. 2 /\ X.todo \in Seq(Properties) /\ IsInjective(X.todo) /\ X.pc \in Phases
    BY <2>1 DEF Phases, IsInjective
  <2>5. IsClient(X)
    BY <2>1, <2>2, <2>3, <2>4, ClientType
  <2> QED  BY <2>1, <2>4, <2>5 DEF LocalOK
<1>3. locks' = Unlocked({Daily}) /\ ~At(Daily, "build")
  BY <1>1, UnlockedNothing, ClientsAndProcesses DEF At
<1>4. status' \in {None, "running", "success", "failed"} /\ (status' = "success" => max_size >= 2)
  BY <1>1 DEF IInv, TypeOK, PoolOfOneFails
<1> HIDE DEF X
<1> QED  BY <1>1, <1>2, <1>3, <1>4, QuietStep, ClientsAndProcesses

\* A step of one client within _get_pool, the cleanup or the log, that keeps
\* what the client has.
LEMMA MovedQuietly ==
    ASSUME IInv, NEW c \in Clients, NEW phase \in Phases \ {"build", "rows"},
           Goto(c, phase), ~At(c, "build"), ~At(c, "rows"),
           LocalOK(c, [clients[c] EXCEPT !.pc = phase]),
           UNCHANGED <<pools, locks, property_stats, status>>
    PROVE  IInv'
<1> DEFINE X == [clients[c] EXCEPT !.pc = phase]
<1>1. clients' = [clients EXCEPT ![c] = X] /\ UNCHANGED <<pools, locks, property_stats, status>>
  BY DEF Goto, Become
<1>2. IsClient(X) /\ LocalOK(c, X) /\ X.written = clients[c].written /\ X.pc = phase
  BY Moved
<1>3. clients[c].written = NoWrites
  BY DEF IInv, LocalOK, At
<1>4. locks' = Unlocked({c})
  BY <1>1, UnlockedNothing
<1>5. status' \in {None, "running", "success", "failed"} /\ (status' = "success" => max_size >= 2)
  BY <1>1 DEF IInv, TypeOK, PoolOfOneFails
<1> HIDE DEF X
<1> QED  BY <1>1, <1>2, <1>3, <1>4, <1>5, QuietStep

LEMMA CheckPoolInv ==
    ASSUME IInv, NEW c \in Clients, CheckPool(c)
    PROVE  IInv'
<1>1. PICK phase \in {"connect", "lock"} : Goto(c, phase)
  BY DEF CheckPool
<1>2. /\ clients[c].pc = "check" /\ UNCHANGED <<pools, locks, property_stats, status>>
      /\ phase \in Phases \ {"build", "rows"}
  BY DEF CheckPool, At, Phases
<1> DEFINE X == [clients[c] EXCEPT !.pc = phase]
<1>3. /\ X.pc = phase /\ X.kind = clients[c].kind /\ X.todo = clients[c].todo
      /\ X.written = clients[c].written /\ X.conns = clients[c].conns
      /\ X.raised = clients[c].raised
  BY <1>2, Moved
<1> HIDE DEF X
<1>4. LocalOK(c, X)
  BY <1>2, <1>3 DEF IInv, LocalOK
<1> QED  BY <1>1, <1>2, <1>4, MovedQuietly DEF X, At

LEMMA DeleteDocumentsInv ==
    ASSUME IInv, DeleteDocuments
    PROVE  IInv'
<1>1. /\ clients[Daily].pc = "network" /\ UNCHANGED <<pools, locks, property_stats, status>>
      /\ Goto(Daily, "log") /\ "log" \in Phases \ {"build", "rows"}
  BY DEF DeleteDocuments, At, Phases
<1> DEFINE X == [clients[Daily] EXCEPT !.pc = "log"]
<1>2. /\ X.pc = "log" /\ X.kind = clients[Daily].kind /\ X.todo = clients[Daily].todo
      /\ X.written = clients[Daily].written /\ X.conns = clients[Daily].conns
      /\ X.raised = clients[Daily].raised
  BY <1>1, Moved, ClientsAndProcesses
<1> HIDE DEF X
<1>3. LocalOK(Daily, X)
  BY <1>1, <1>2, ClientsAndProcesses DEF IInv, LocalOK
<1> QED  BY <1>1, <1>3, MovedQuietly, ClientsAndProcesses DEF X, At

LEMMA SelectInactiveInv ==
    ASSUME IInv, SelectInactive
    PROVE  IInv'
<1>1. PICK phase \in {"network", "log"} :
        clients' = [clients EXCEPT ![Daily] = [clients[Daily] EXCEPT !.pc = phase, !.conns = @ - 1]]
  BY DEF SelectInactive, Become
<1>2. clients[Daily].pc = "select" /\ UNCHANGED <<pools, locks, property_stats, status>>
  BY DEF SelectInactive, At
<1> DEFINE h == clients[Daily]
           X == [h EXCEPT !.pc = phase, !.conns = @ - 1]
<1>3. IsClient(h) /\ Whole(h) /\ LocalOK(Daily, h)
  BY ClientsAndProcesses DEF IInv, TypeOK, IsClient, Whole
<1>4. /\ X.pc = phase /\ X.kind = h.kind /\ X.todo = h.todo
      /\ X.written = h.written /\ X.conns = h.conns - 1 /\ X.raised = h.raised
  BY <1>3 DEF Whole
<1>5. Whole(X)
  <2>1. X = [[h EXCEPT !.pc = phase] EXCEPT !.conns = h.conns - 1]
    OBVIOUS
  <2> QED  BY <2>1, <1>3, WholeChanged
<1>6. h.conns = 2 /\ max_size >= 2 /\ h.written = NoWrites
  BY <1>2, <1>3 DEF LocalOK
<1>7. clients' = [clients EXCEPT ![Daily] = X]
  BY <1>1
<1> HIDE DEF X
<1>8. LocalOK(Daily, X)
  BY <1>2, <1>3, <1>4, <1>6 DEF LocalOK
<1>9. IsClient(X)
  BY <1>3, <1>4, <1>5, <1>6, ClientType DEF IsClient, Phases
<1>10. locks' = Unlocked({Daily}) /\ ~At(Daily, "build")
  BY <1>2, UnlockedNothing, ClientsAndProcesses DEF At
<1>11. status' \in {None, "running", "success", "failed"} /\ (status' = "success" => max_size >= 2)
  BY <1>2 DEF IInv, TypeOK, PoolOfOneFails
<1> QED
  BY <1>2, <1>4, <1>6, <1>7, <1>8, <1>9, <1>10, <1>11, QuietStep, ClientsAndProcesses

LEMMA FinishLogInv ==
    ASSUME IInv, FinishLog
    PROVE  IInv'
<1>1. /\ clients[Daily].pc = "log" /\ clients' = [clients EXCEPT ![Daily] = NoClient]
      /\ UNCHANGED <<pools, locks, property_stats>>
      /\ status' = IF clients[Daily].raised THEN "failed" ELSE "success"
  BY DEF FinishLog, At, Become
<1>2. LocalOK(Daily, clients[Daily])
  BY ClientsAndProcesses DEF IInv
<1>3. status' \in {None, "running", "success", "failed"} /\ (status' = "success" => max_size >= 2)
  BY <1>1, <1>2 DEF LocalOK
<1>4. locks' = Unlocked({Daily}) /\ ~At(Daily, "build")
  BY <1>1, UnlockedNothing, ClientsAndProcesses DEF At
<1> QED  BY <1>1, <1>3, <1>4, QuietStep, ClientsAndProcesses, NoClientOK

LEMMA RaiseInv ==
    ASSUME IInv, NEW c \in Clients, Raise(c), ~At(c, "build")
    PROVE  IInv'
<1> DEFINE X == Unwound(c)
<1>1. /\ clients' = [clients EXCEPT ![c] = X] /\ locks' = Unlocked({c})
      /\ UNCHANGED <<pools, property_stats, status>>
  BY DEF Raise, Become
<1>2. IsClient(X) /\ LocalOK(c, X) /\ X.written = NoWrites /\ X.pc # "build"
  <2>1. CASE X = NoClient
    BY <2>1, NoClientOK
  <2>2. CASE c = Daily /\ X = [NoClient EXCEPT !.pc = "log", !.kind = "daily", !.conns = 1, !.raised = TRUE]
    <3>1. /\ X.pc = "log" /\ X.kind = "daily" /\ X.todo = <<>> /\ X.written = NoWrites
          /\ X.conns = 1 /\ X.raised = TRUE
      BY <2>2 DEF NoClient
    <3>2. Whole(X)
      <4>1. X = [[[[NoClient EXCEPT !.pc = "log"] EXCEPT !.kind = "daily"]
                       EXCEPT !.conns = 1] EXCEPT !.raised = TRUE]
        BY <2>2
      <4>2. Whole(NoClient)
        BY DEF Whole, NoClient
      <4>3. Whole([[NoClient EXCEPT !.pc = "log"] EXCEPT !.kind = "daily"])
        BY <4>2, WholeChanged
      <4>4. Whole([[[NoClient EXCEPT !.pc = "log"] EXCEPT !.kind = "daily"] EXCEPT !.conns = 1])
        BY <4>3, WholeChanged
      <4>5. Whole([[[[NoClient EXCEPT !.pc = "log"] EXCEPT !.kind = "daily"]
                       EXCEPT !.conns = 1] EXCEPT !.raised = TRUE])
        BY <4>4, WholeChanged
      <4> HIDE DEF X
      <4> QED  BY <4>1, <4>5, Zenon
    <3> HIDE DEF X
    <3>3. IsTable(X.written) /\ X.raised \in BOOLEAN
      BY <3>1, NoClientOK, Zenon
    <3>4. X.conns \in 0 .. 2 /\ X.todo \in Seq(Properties) /\ IsInjective(X.todo) /\ X.pc \in Phases
      BY <3>1 DEF Phases, IsInjective
    <3>5. IsClient(X)
      BY <3>1, <3>2, <3>3, <3>4, ClientType
    <3> QED  BY <2>2, <3>1, <3>4, <3>5 DEF LocalOK
  <2> QED  BY <2>1, <2>2 DEF Unwound
<1>3. status' \in {None, "running", "success", "failed"} /\ (status' = "success" => max_size >= 2)
  BY <1>1 DEF IInv, TypeOK, PoolOfOneFails
<1> HIDE DEF X
<1> QED  BY <1>1, <1>2, <1>3, QuietStep

\* The daily job comes to its second connection only when the pool has two.
LEMMA SecondOfTwo ==
    ASSUME IInv, clients[Daily].conns = 1, Lent("job") < max_size
    PROVE  max_size >= 2
<1> DEFINE S == {l \in Clients \X {1, 2} : Process(l[1]) = "job" /\ l[2] <= clients[l[1]].conns}
<1>1. S \subseteq {<<Daily, 1>>, <<Daily, 2>>}
  BY DEF Process
<1>2. IsFiniteSet({<<Daily, 1>>, <<Daily, 2>>})
  <2>1. IsFiniteSet({<<Daily, 1>>})
    BY FS_Singleton
  <2>2. {<<Daily, 1>>, <<Daily, 2>>} = {<<Daily, 1>>} \cup {<<Daily, 2>>}
    OBVIOUS
  <2> QED  BY <2>1, <2>2, FS_AddElement
<1>3. <<Daily, 1>> \in S
  BY ClientsAndProcesses DEF Process
<1>4. Cardinality(S) \in Nat /\ Cardinality(S) # 0
  BY <1>1, <1>2, <1>3, FS_Subset, FS_CardinalityType, FS_EmptySet
<1>5. max_size \in Nat /\ Lent("job") = Cardinality(S)
  BY DatabaseConstants DEF IInv, TypeOK, Lent
<1> QED  BY <1>4, <1>5

LEMMA ConnectInv ==
    ASSUME IInv, NEW c \in Clients, Connect(c)
    PROVE  IInv'
<1> DEFINE h == clients[c]
<1>1. IsClient(h) /\ Whole(h) /\ LocalOK(c, h)
  BY DEF IInv, TypeOK, IsClient, Whole
<1>2. /\ h.pc = "connect" /\ Lent(Process(c)) < max_size
      /\ UNCHANGED <<pools, locks, property_stats>>
  BY DEF Connect, At
<1>3. h.conns \in {0, 1} /\ h.written = NoWrites /\ ~h.raised
  BY <1>1, <1>2 DEF IsClient, LocalOK
<1>4. PICK phase \in {"rows", "select"}, s \in Seq(Properties) :
        /\ clients' = [clients EXCEPT ![c] =
              [[[h EXCEPT !.conns = h.conns + 1] EXCEPT !.pc = phase] EXCEPT !.todo = s]]
        /\ IsInjective(s)
        /\ phase = "rows" => h.conns = 0
        /\ phase = "select" => c = Daily /\ h.conns = 1
        /\ status' \in {status, "running"}
  <2>1. h.todo \in Seq(Properties) /\ IsInjective(h.todo)
    BY <1>1 DEF IsClient, LocalOK
  <2>2. \A phase : [[h EXCEPT !.conns = h.conns + 1] EXCEPT !.pc = phase]
                    = [[[h EXCEPT !.conns = h.conns + 1] EXCEPT !.pc = phase] EXCEPT !.todo = h.todo]
    BY <1>1 DEF Whole
  <2>3. CASE c # Daily
    <3>1. /\ clients' = [clients EXCEPT ![c] = [[h EXCEPT !.conns = h.conns + 1] EXCEPT !.pc = "rows"]]
          /\ UNCHANGED status /\ h.conns = 0
      BY <2>3, <1>1, <1>2 DEF Connect, Become, LocalOK
    <3> QED  BY <3>1, <2>1, <2>2
  <2>4. CASE c = Daily /\ h.conns = 1
    <3>1. /\ clients' = [clients EXCEPT ![c] = [[h EXCEPT !.conns = h.conns + 1] EXCEPT !.pc = "select"]]
          /\ UNCHANGED status
      BY <2>4 DEF Connect, Become
    <3> QED  BY <2>4, <3>1, <2>1, <2>2
  <2>5. CASE c = Daily /\ h.conns # 1
    <3>1. PICK s \in Orders(DOMAIN property_stats) :
            clients' = [clients EXCEPT ![c] =
                [[h EXCEPT !.conns = @ + 1] EXCEPT !.pc = "rows", !.todo = s]]
      BY <2>5 DEF Connect, Become
    <3>2. status' = "running"
      BY <2>5 DEF Connect
    <3>3. s \in Seq(Properties) /\ IsInjective(s)
      BY OrdersAreSequences DEF IInv, TypeOK, IsTable
    <3>4. [[h EXCEPT !.conns = @ + 1] EXCEPT !.pc = "rows", !.todo = s]
            = [[[h EXCEPT !.conns = h.conns + 1] EXCEPT !.pc = "rows"] EXCEPT !.todo = s]
      OBVIOUS
    <3> QED  BY <3>1, <3>2, <3>3, <3>4, <2>5, <1>3
  <2> QED  BY <2>3, <2>4, <2>5
<1> DEFINE X == [[[h EXCEPT !.conns = h.conns + 1] EXCEPT !.pc = phase] EXCEPT !.todo = s]
<1>5. /\ X.pc = phase /\ X.kind = h.kind /\ X.todo = s /\ X.written = NoWrites
      /\ X.conns = h.conns + 1 /\ X.raised = h.raised
  BY <1>1, <1>3 DEF Whole
<1>6. Whole(X)
  BY <1>1, WholeChanged
<1>7. clients' = [clients EXCEPT ![c] = X]
  BY <1>4
<1> HIDE DEF X
<1>8. phase = "select" => max_size >= 2
  <2> SUFFICES ASSUME phase = "select" PROVE max_size >= 2
    OBVIOUS
  <2>1. c = Daily /\ h.conns = 1 /\ Process(c) = "job"
    BY <1>4 DEF Process
  <2> QED  BY <1>2, <2>1, SecondOfTwo
<1>9. LocalOK(c, X)
  <2>1. h.kind \in IF c = Daily THEN {"daily"} ELSE Actions \cup {"search"}
    BY <1>1, <1>2 DEF LocalOK
  <2> QED  BY <2>1, <1>3, <1>4, <1>5, <1>8, NoClientOK DEF LocalOK
<1>10. IsClient(X)
  <2>1. X.conns \in 0 .. 2 /\ X.pc \in Phases /\ X.todo \in Seq(Properties)
    BY <1>3, <1>4, <1>5 DEF Phases
  <2>2. X.kind \in Actions \cup {"search", "daily", None}
    BY <1>1, <1>5 DEF IsClient
  <2>3. X.raised \in BOOLEAN
    BY <1>1, <1>5 DEF IsClient
  <2>4. IsTable(X.written)
    BY <1>5, NoClientOK, Zenon
  <2> QED  BY <1>6, <2>1, <2>2, <2>3, <2>4, ClientType
<1>11. locks' = Unlocked({c}) /\ ~At(c, "build")
  BY <1>2, UnlockedNothing DEF At
<1>12. status' \in {None, "running", "success", "failed"} /\ (status' = "success" => max_size >= 2)
  BY <1>4 DEF IInv, TypeOK, PoolOfOneFails
<1>13. X.pc # "build" /\ UNCHANGED <<pools, property_stats>>
  BY <1>2, <1>4, <1>5
<1> QED  BY <1>5, <1>7, <1>9, <1>10, <1>11, <1>12, <1>13, QuietStep

\* The steps that build the pool.
LEMMA LockPoolInv ==
    ASSUME IInv, NEW c \in Clients, LockPool(c)
    PROVE  IInv'
<1> DEFINE x == Process(c)
<1>1. clients[c].pc = "lock" /\ _POOL_LOCK[x] = None /\ x \in Processes
  BY ClientsAndProcesses DEF LockPool, At
<1>2. UNCHANGED <<max_size, _POOL, opened, locks, property_stats, status>>
  BY DEF LockPool
<1>3. CASE _POOL[x]
  <2>1. Goto(c, "connect") /\ UNCHANGED <<pools, locks, property_stats, status>>
    BY <1>2, <1>3 DEF LockPool, pools
  <2>2. "connect" \in Phases \ {"build", "rows"} /\ "connect" \in Phases
    BY DEF Phases
  <2> DEFINE X == [clients[c] EXCEPT !.pc = "connect"]
  <2>3. /\ X.pc = "connect" /\ X.kind = clients[c].kind /\ X.todo = clients[c].todo
        /\ X.written = clients[c].written /\ X.conns = clients[c].conns
        /\ X.raised = clients[c].raised
    BY <2>2, Moved
  <2> HIDE DEF X
  <2>4. LocalOK(c, X)
    BY <1>1, <2>3 DEF IInv, LocalOK
  <2> QED  BY <1>1, <2>1, <2>2, <2>4, MovedQuietly DEF X, At
<1>4. CASE ~_POOL[x]
  <2>0. PICK X : X = [clients[c] EXCEPT !.pc = "build"]
    OBVIOUS
  <2>1. /\ clients' = [clients EXCEPT ![c] = X]
        /\ _POOL_LOCK' = [_POOL_LOCK EXCEPT ![x] = c]
    BY <1>4, <2>0 DEF LockPool, Goto, Become
  <2>2. /\ X.pc = "build" /\ X.kind = clients[c].kind /\ X.todo = clients[c].todo
        /\ X.written = clients[c].written /\ X.conns = clients[c].conns
        /\ X.raised = clients[c].raised /\ IsClient(X)
    <3>1. "build" \in Phases
      BY DEF Phases
    <3> QED  BY <2>0, <3>1, Moved
  <2>3. X.written = NoWrites /\ LocalOK(c, X)' /\ locks' = Unlocked({c})
    <3>1. LocalOK(c, clients[c])
      BY DEF IInv
    <3>2. X.written = NoWrites
      BY <1>1, <2>2, <3>1 DEF LocalOK
    <3>3. LocalOK(c, X)'
      BY <1>1, <1>2, <2>2, <3>1 DEF LocalOK
    <3> QED  BY <1>1, <1>2, <3>2, <3>3, UnlockedNothing DEF At
  <2>4. /\ clients' = [d \in Clients |-> clients'[d]]
        /\ \A d \in Clients : IsClient(clients'[d])
        /\ DOMAIN locks' \subseteq Properties /\ locks' \in [DOMAIN locks' -> Clients]
        /\ LocksHeldByTransactions'
        /\ \A d \in Clients : LocalOK(d, clients[d])'
    BY <1>2, <2>1, <2>2, <2>3, RowlessStep
  <2>5. /\ clients'[c] = X /\ \A d \in Clients : d # c => clients'[d] = clients[d]
        /\ _POOL_LOCK'[x] = c /\ \A y \in Processes : y # x => _POOL_LOCK'[y] = _POOL_LOCK[y]
    BY <1>1, <2>1 DEF IInv, TypeOK
  <2>6. PoolInv'
    <3>1. PoolOpenedOnce'
      BY <1>2 DEF IInv, PoolInv, PoolOpenedOnce
    <3>2. ASSUME NEW y \in Processes, _POOL_LOCK'[y] # None
          PROVE  Process(_POOL_LOCK'[y]) = y /\ At(_POOL_LOCK[y], "build")'
      <4>1. CASE y = x
        BY <4>1, <2>2, <2>5 DEF At
      <4>2. CASE y # x
        <5>1. /\ _POOL_LOCK'[y] = _POOL_LOCK[y] /\ _POOL_LOCK[y] \in Clients
              /\ Process(_POOL_LOCK[y]) = y /\ clients[_POOL_LOCK[y]].pc = "build"
          BY <2>5, <3>2, <4>2 DEF IInv, TypeOK, PoolInv, At
        <5>2. _POOL_LOCK[y] # c
          BY <4>2, <5>1
        <5> QED  BY <5>1, <5>2, <2>5 DEF At
      <4> QED  BY <4>1, <4>2
    <3>3. ASSUME NEW d \in Clients, At(d, "build")'
          PROVE  (_POOL_LOCK[Process(d)] = d /\ ~_POOL[Process(d)])'
      <4>1. CASE d = c
        BY <4>1, <1>2, <1>4, <2>5
      <4>2. CASE d # c
        <5>1. _POOL_LOCK[Process(d)] = d /\ ~_POOL[Process(d)] /\ Process(d) \in Processes
          BY <3>3, <4>2, <2>5, ClientsAndProcesses DEF IInv, PoolInv, At
        <5>2. Process(d) # x
          BY <1>1, <5>1, ClientsAndProcesses
        <5> QED  BY <5>1, <5>2, <1>2, <2>5
      <4> QED  BY <4>1, <4>2
    <3> QED  BY <3>1, <3>2, <3>3 DEF PoolInv
  <2>7. _POOL_LOCK' \in [Processes -> Clients \cup {None}]
    BY <2>1 DEF IInv, TypeOK
  <2>8. /\ PoolOfOneFails' /\ IsTable(property_stats')
        /\ (\A p \in DOMAIN property_stats : Fresh(property_stats[p]))'
    BY <1>2 DEF PoolOfOneFails, IInv, TypeOK, Fresh
  <2> QED  BY <1>2, <2>4, <2>6, <2>7, <2>8 DEF IInv, TypeOK
<1> QED  BY <1>3, <1>4

LEMMA BuildPoolInv ==
    ASSUME IInv, NEW c \in Clients, BuildPool(c)
    PROVE  IInv'
<1> DEFINE x == Process(c)
<1>0. PICK X : X = [clients[c] EXCEPT !.pc = "connect"]
  OBVIOUS
<1>1. /\ clients[c].pc = "build" /\ x \in Processes
      /\ _POOL_LOCK[x] = c /\ ~_POOL[x]
  BY ClientsAndProcesses DEF BuildPool, At, IInv, PoolInv
<1>2. /\ clients' = [clients EXCEPT ![c] = X]
      /\ _POOL' = [_POOL EXCEPT ![x] = TRUE]
      /\ opened' = [opened EXCEPT ![x] = @ + 1]
      /\ _POOL_LOCK' = [_POOL_LOCK EXCEPT ![x] = None]
      /\ UNCHANGED <<max_size, locks, property_stats, status>>
  BY <1>0 DEF BuildPool, Goto, Become
<1>3. /\ X.pc = "connect" /\ X.kind = clients[c].kind /\ X.todo = clients[c].todo
      /\ X.written = clients[c].written /\ X.conns = clients[c].conns
      /\ X.raised = clients[c].raised /\ IsClient(X)
  <2>1. "connect" \in Phases
    BY DEF Phases
  <2> QED  BY <1>0, <2>1, Moved
<1>4. X.written = NoWrites /\ LocalOK(c, X)' /\ locks' = Unlocked({c})
  <2>1. LocalOK(c, clients[c])
    BY DEF IInv
  <2>2. X.written = NoWrites
    BY <1>1, <1>3, <2>1 DEF LocalOK
  <2>3. LocalOK(c, X)'
    BY <1>1, <1>2, <1>3, <2>1 DEF LocalOK
  <2> QED  BY <1>1, <1>2, <2>2, <2>3, UnlockedNothing DEF At
<1>5. /\ clients' = [d \in Clients |-> clients'[d]]
      /\ \A d \in Clients : IsClient(clients'[d])
      /\ DOMAIN locks' \subseteq Properties /\ locks' \in [DOMAIN locks' -> Clients]
      /\ LocksHeldByTransactions'
      /\ \A d \in Clients : LocalOK(d, clients[d])'
  BY <1>2, <1>3, <1>4, RowlessStep
<1>6. /\ clients'[c] = X /\ \A d \in Clients : d # c => clients'[d] = clients[d]
      /\ _POOL_LOCK'[x] = None /\ opened'[x] = opened[x] + 1 /\ _POOL'[x] = TRUE
      /\ \A y \in Processes : y # x => /\ _POOL_LOCK'[y] = _POOL_LOCK[y]
                                       /\ opened'[y] = opened[y] /\ _POOL'[y] = _POOL[y]
  BY <1>1, <1>2 DEF IInv, TypeOK
<1>7. PoolInv'
  <2>1. PoolOpenedOnce'
    BY <1>1, <1>6 DEF IInv, PoolInv, PoolOpenedOnce
  <2>2. ASSUME NEW y \in Processes, _POOL_LOCK'[y] # None
        PROVE  Process(_POOL_LOCK'[y]) = y /\ At(_POOL_LOCK[y], "build")'
    <3>1. /\ y # x /\ _POOL_LOCK'[y] = _POOL_LOCK[y] /\ _POOL_LOCK[y] \in Clients
          /\ Process(_POOL_LOCK[y]) = y /\ clients[_POOL_LOCK[y]].pc = "build"
      BY <1>6, <2>2 DEF IInv, TypeOK, PoolInv, At
    <3>2. _POOL_LOCK[y] # c
      BY <3>1
    <3> QED  BY <3>1, <3>2, <1>6 DEF At
  <2>3. ASSUME NEW d \in Clients, At(d, "build")'
        PROVE  (_POOL_LOCK[Process(d)] = d /\ ~_POOL[Process(d)])'
    <3>1. d # c
      BY <1>3, <1>6, <2>3 DEF At
    <3>2. _POOL_LOCK[Process(d)] = d /\ ~_POOL[Process(d)] /\ Process(d) \in Processes
      BY <2>3, <3>1, <1>6, ClientsAndProcesses DEF IInv, PoolInv, At
    <3>3. Process(d) # x
      BY <1>1, <3>1, <3>2
    <3> QED  BY <3>2, <3>3, <1>6
  <2> QED  BY <2>1, <2>2, <2>3 DEF PoolInv
<1>8. /\ _POOL_LOCK' \in [Processes -> Clients \cup {None}]
      /\ _POOL' \in [Processes -> BOOLEAN] /\ opened' \in [Processes -> Nat]
  <2>1. /\ _POOL_LOCK \in [Processes -> Clients \cup {None}]
        /\ _POOL \in [Processes -> BOOLEAN] /\ opened \in [Processes -> Nat]
    BY DEF IInv, TypeOK
  <2>2. _POOL' \in [Processes -> BOOLEAN]
    BY <1>2, <2>1, Zenon
  <2> QED  BY <1>2, <2>1, <2>2
<1>9. /\ PoolOfOneFails' /\ IsTable(property_stats')
      /\ (\A p \in DOMAIN property_stats : Fresh(property_stats[p]))'
  BY <1>2 DEF PoolOfOneFails, IInv, TypeOK, Fresh
<1> QED  BY <1>2, <1>5, <1>7, <1>8, <1>9 DEF IInv, TypeOK

LEMMA TouchRowInv ==
    ASSUME IInv, NEW c \in Clients, TouchRow(c)
    PROVE  IInv'
<1> DEFINE h == clients[c]
           p == Head(h.todo)
           row == EffectOn(h.kind, RowOf(property_stats, p))
           written == [q \in DOMAIN h.written \cup {p} |-> IF q = p THEN row ELSE h.written[q]]
<1>0. PICK X : X = [[h EXCEPT !.todo = Tail(h.todo)] EXCEPT !.written = written]
  OBVIOUS
<1>1. IsClient(h) /\ Whole(h) /\ LocalOK(c, h)
  BY DEF IInv, TypeOK, IsClient, Whole
<1>2. /\ h.pc = "rows" /\ h.todo # <<>> /\ p \notin DOMAIN locks
      /\ locks' = [q \in DOMAIN locks \cup {p} |-> IF q = p THEN c ELSE locks[q]]
      /\ UNCHANGED <<pools, property_stats, status>>
  BY DEF TouchRow, At
<1>3. clients' = [clients EXCEPT ![c] = X]
  <2>1. X = Written(c, p)
    BY <1>0 DEF Written
  <2> QED  BY <2>1 DEF TouchRow, Become
<1>4. /\ p \in Properties /\ Tail(h.todo) \in Seq(Properties) /\ IsInjective(Tail(h.todo))
      /\ Range(h.todo) = {p} \cup Range(Tail(h.todo)) /\ p \notin Range(Tail(h.todo))
  BY <1>1, <1>2, TodoSplits DEF IsClient, LocalOK
<1>5. row \in StatsRows
  <2>1. h.kind \in Actions \cup {"search", "daily"}
    BY <1>1, <1>2 DEF LocalOK
  <2> QED  BY <2>1, EffectFresh, RowOfType DEF IInv, TypeOK
<1> HIDE DEF row
<1>6. /\ X.pc = "rows" /\ X.kind = h.kind /\ X.todo = Tail(h.todo) /\ X.written = written
      /\ X.conns = h.conns /\ X.raised = h.raised /\ Whole(X)
  <2>1. Whole(X)
    BY <1>0, <1>1, WholeChanged
  <2> QED  BY <1>0, <1>1, <1>2, <2>1 DEF Whole
<1>7. IsTable(written)
  BY <1>1, <1>4, <1>5 DEF IsClient, IsTable
<1>8. DOMAIN written = DOMAIN h.written \cup {p} /\ written[p] = row
      /\ \A q \in DOMAIN h.written : q # p => written[q] = h.written[q]
  OBVIOUS
<1> HIDE DEF written
<1>9. IsClient(X)
  <2>1. /\ X.pc \in Phases /\ X.conns \in 0 .. 2 /\ X.todo \in Seq(Properties)
        /\ X.kind \in Actions \cup {"search", "daily", None}
    <3>1. h.pc \in Phases /\ h.conns \in 0 .. 2 /\ h.kind \in Actions \cup {"search", "daily", None}
      BY <1>1 DEF IsClient
    <3> QED  BY <3>1, <1>2, <1>4, <1>6
  <2>2. X.raised \in BOOLEAN /\ IsTable(X.written)
    BY <1>1, <1>6, <1>7 DEF IsClient
  <2> QED  BY <1>6, <2>1, <2>2, ClientType
<1>10. LocalOK(c, X)'
  <2>1. Range(X.todo) \cap DOMAIN X.written = {}
    BY <1>1, <1>2, <1>4, <1>6, <1>8 DEF LocalOK
  <2>2. \A q \in DOMAIN X.written : X.written[q] = EffectOn(X.kind, RowOf(property_stats', q))
    <3> SUFFICES ASSUME NEW q \in DOMAIN written
                 PROVE  written[q] = EffectOn(h.kind, RowOf(property_stats, q))
      BY <1>2, <1>6
    <3>1. CASE q = p
      BY <3>1, <1>8 DEF row
    <3>2. CASE q # p
      BY <3>2, <1>1, <1>2, <1>8 DEF LocalOK
    <3> QED  BY <3>1, <3>2
  <2>3. UNCHANGED <<max_size, property_stats>>
    BY <1>2 DEF pools
  <2> QED  BY <1>1, <1>2, <1>4, <1>6, <2>1, <2>2, <2>3 DEF LocalOK
<1>11. clients'[c] = X /\ \A d \in Clients : d # c => clients'[d] = clients[d]
  BY <1>3 DEF IInv, TypeOK
<1>12. clients' = [d \in Clients |-> clients'[d]] /\ \A d \in Clients : IsClient(clients'[d])
  BY <1>3, <1>9, <1>11 DEF IInv, TypeOK
<1>13. DOMAIN locks' \subseteq Properties /\ locks' \in [DOMAIN locks' -> Clients]
  BY <1>2, <1>4 DEF IInv, TypeOK
<1>14. LocksHeldByTransactions'
  <2> SUFFICES ASSUME NEW q \in Properties, NEW d \in Clients
               PROVE  (q \in DOMAIN locks' /\ locks'[q] = d)
                          <=> (clients'[d].pc = "rows" /\ q \in DOMAIN clients'[d].written)
    BY DEF LocksHeldByTransactions, At
  <2>1. (q \in DOMAIN locks /\ locks[q] = d)
            <=> (clients[d].pc = "rows" /\ q \in DOMAIN clients[d].written)
    BY DEF IInv, LocksHeldByTransactions, At
  <2>2. (q \in DOMAIN locks' /\ locks'[q] = d)
            <=> IF q = p THEN d = c ELSE q \in DOMAIN locks /\ locks[q] = d
    BY <1>2
  <2>3. CASE d = c
    BY <2>3, <2>1, <2>2, <1>2, <1>6, <1>8, <1>11
  <2>4. CASE d # c
    BY <2>4, <2>1, <2>2, <1>2, <1>11
  <2> QED  BY <2>3, <2>4
<1>15. \A d \in Clients : LocalOK(d, clients[d])'
  <2> SUFFICES ASSUME NEW d \in Clients, d # c PROVE LocalOK(d, clients[d])'
    BY <1>10, <1>11
  <2>1. LocalOK(d, clients[d]) /\ clients'[d] = clients[d]
    BY <1>11 DEF IInv
  <2> QED  BY <1>2, <2>1 DEF LocalOK, pools
<1>16. PoolInv'
  BY <1>2, <1>3, <1>6, PoolStep DEF At
<1>17. UNCHANGED <<max_size, _POOL, opened, _POOL_LOCK, property_stats, status>>
  BY <1>2 DEF pools
<1>18. (\A q \in DOMAIN property_stats : Fresh(property_stats[q]))'
  BY <1>17 DEF IInv, Fresh
<1> QED  BY <1>12, <1>13, <1>14, <1>15, <1>16, <1>17, <1>18 DEF IInv, TypeOK, PoolOfOneFails

LEMMA CommitRowsInv ==
    ASSUME IInv, NEW c \in Clients, CommitRows(c)
    PROVE  IInv'
<1> DEFINE h == clients[c]
<1>1. IsClient(h) /\ LocalOK(c, h)
  BY DEF IInv, TypeOK
<1>2. /\ h.pc = "rows" /\ property_stats' = Visible(c) /\ locks' = Unlocked({c})
      /\ UNCHANGED <<pools, status>>
  BY DEF CommitRows, At
<1>3. PICK X : /\ clients' = [clients EXCEPT ![c] = X]
               /\ X = IF c = Daily THEN [NoClient EXCEPT !.pc = "check", !.kind = "daily", !.conns = 1]
                       ELSE NoClient
  BY DEF CommitRows, Become
<1>4. UNCHANGED <<max_size, _POOL, opened, _POOL_LOCK, status>>
  BY <1>2 DEF pools
<1>5. IsClient(X) /\ LocalOK(c, X)' /\ X.written = NoWrites /\ X.pc # "build"
  <2>1. CASE c # Daily
    <3>1. X = NoClient
      BY <1>3, <2>1
    <3>2. LocalOK(c, NoClient)'
      BY NoClientOK, <1>4 DEF LocalOK, NoClient
    <3> QED  BY <3>1, <3>2, NoClientOK
  <2>2. CASE c = Daily
    <3>1. X = [[[NoClient EXCEPT !.pc = "check"] EXCEPT !.kind = "daily"] EXCEPT !.conns = 1]
      BY <1>3, <2>2
    <3>2. /\ X.pc = "check" /\ X.kind = "daily" /\ X.todo = <<>> /\ X.written = NoWrites
          /\ X.conns = 1 /\ X.raised = FALSE
      BY <3>1 DEF NoClient
    <3>3. Whole(X)
      <4>1. Whole(NoClient)
        BY DEF Whole, NoClient
      <4>2. Whole([[NoClient EXCEPT !.pc = "check"] EXCEPT !.kind = "daily"])
        BY <4>1, WholeChanged
      <4>3. Whole([[[NoClient EXCEPT !.pc = "check"] EXCEPT !.kind = "daily"] EXCEPT !.conns = 1])
        BY <4>2, WholeChanged
      <4> QED  BY <3>1, <4>3, Zenon
    <3>4. IsTable(X.written) /\ X.raised \in BOOLEAN
      BY <3>2, NoClientOK, Zenon
    <3>5. X.conns \in 0 .. 2 /\ X.todo \in Seq(Properties) /\ IsInjective(X.todo) /\ X.pc \in Phases
      BY <3>2 DEF Phases, IsInjective
    <3>6. X.kind \in Actions \cup {"search", "daily", None}
      BY <3>2
    <3>7. IsClient(X)
      BY <3>3, <3>4, <3>5, <3>6, ClientType
    <3> QED  BY <2>2, <3>2, <3>5, <3>7 DEF LocalOK
  <2> QED  BY <2>1, <2>2
<1>6. /\ DOMAIN property_stats' = DOMAIN property_stats \cup DOMAIN h.written
      /\ property_stats' \in [DOMAIN property_stats' ->
             {property_stats[p] : p \in DOMAIN property_stats} \cup {h.written[p] : p \in DOMAIN h.written}]
      /\ \A p \in DOMAIN property_stats' :
            property_stats'[p] = IF p \in DOMAIN h.written THEN h.written[p] ELSE property_stats[p]
  BY <1>2 DEF Visible
<1>7. \A p \in Properties \ DOMAIN h.written : RowOf(property_stats, p)' = RowOf(property_stats, p)
  BY <1>6 DEF RowOf
<1>8. IsTable(property_stats')
  <2>1. \A p \in DOMAIN h.written : h.written[p] \in StatsRows
    BY <1>1 DEF IsClient, IsTable
  <2>2. \A p \in DOMAIN property_stats : property_stats[p] \in StatsRows
    BY DEF IInv, TypeOK, IsTable
  <2>3. DOMAIN property_stats' \subseteq Properties
    BY <1>1, <1>6 DEF IsClient, IInv, TypeOK, IsTable
  <2>4. property_stats' \in [DOMAIN property_stats' -> StatsRows]
    BY <1>6, <2>1, <2>2
  <2> QED  BY <2>3, <2>4 DEF IsTable
<1>9. (\A p \in DOMAIN property_stats : Fresh(property_stats[p]))'
  <2> SUFFICES ASSUME NEW p \in DOMAIN property_stats' PROVE Fresh(property_stats'[p])
    BY DEF Fresh
  <2>1. CASE p \in DOMAIN h.written
    <3>1. h.written[p] = EffectOn(h.kind, RowOf(property_stats, p))
      BY <2>1, <1>1, <1>2 DEF LocalOK
    <3>2. h.kind \in Actions \cup {"search", "daily"}
      BY <1>1, <1>2 DEF LocalOK
    <3>3. RowOf(property_stats, p) \in StatsRows
      BY RowOfType DEF IInv, TypeOK
    <3>4. Fresh(h.written[p])
      BY <3>1, <3>2, <3>3, EffectFresh
    <3> QED  BY <2>1, <3>4, <1>6
  <2>2. CASE p \notin DOMAIN h.written
    BY <2>2, <1>6 DEF IInv
  <2> QED  BY <2>1, <2>2
<1>10. /\ clients' = [d \in Clients |-> clients'[d]]
       /\ \A d \in Clients : IsClient(clients'[d])
       /\ DOMAIN locks' \subseteq Properties /\ locks' \in [DOMAIN locks' -> Clients]
       /\ LocksHeldByTransactions'
       /\ \A d \in Clients : LocalOK(d, clients[d])'
  BY <1>2, <1>3, <1>4, <1>5, <1>7, RowlessStep
<1>11. PoolInv'
  BY <1>2, <1>3, <1>5, PoolStep DEF At
<1>12. PoolOfOneFails'
  BY <1>4 DEF IInv, PoolOfOneFails
<1> QED  BY <1>4, <1>8, <1>9, <1>10, <1>11, <1>12 DEF IInv, TypeOK

LEMMA CrashInv ==
    ASSUME IInv, NEW x \in Processes, Crash(x)
    PROVE  IInv'
<1> DEFINE dead == {c \in Clients : Process(c) = x}
<1>1. /\ clients' = [c \in Clients |-> IF c \in dead THEN NoClient ELSE clients[c]]
      /\ locks' = Unlocked(dead)
      /\ _POOL' = [_POOL EXCEPT ![x] = FALSE]
      /\ opened' = [opened EXCEPT ![x] = 0]
      /\ _POOL_LOCK' = [_POOL_LOCK EXCEPT ![x] = None]
      /\ UNCHANGED <<max_size, property_stats, status>>
  BY DEF Crash
<1>2. \A c \in Clients : clients'[c] = IF Process(c) = x THEN NoClient ELSE clients[c]
  BY <1>1
<1>3. clients' = [c \in Clients |-> clients'[c]]
  BY <1>1
<1>4. \A c \in Clients : IsClient(clients'[c])
  BY <1>2, NoClientOK DEF IInv, TypeOK
<1>5. /\ DOMAIN locks' = {p \in DOMAIN locks : locks[p] \notin dead}
      /\ \A p \in DOMAIN locks' : locks'[p] = locks[p]
  BY <1>1 DEF Unlocked, Restrict
<1>6. DOMAIN locks' \subseteq Properties /\ locks' \in [DOMAIN locks' -> Clients]
  <2>1. locks' = [p \in DOMAIN locks' |-> locks'[p]]
    BY <1>1 DEF Unlocked, Restrict
  <2> QED  BY <1>5, <2>1 DEF IInv, TypeOK
<1>7. LocksHeldByTransactions'
  <2> SUFFICES ASSUME NEW p \in Properties, NEW d \in Clients
               PROVE  (p \in DOMAIN locks' /\ locks'[p] = d)
                          <=> (clients'[d].pc = "rows" /\ p \in DOMAIN clients'[d].written)
    BY DEF LocksHeldByTransactions, At
  <2>1. (p \in DOMAIN locks /\ locks[p] = d)
            <=> (clients[d].pc = "rows" /\ p \in DOMAIN clients[d].written)
    BY DEF IInv, LocksHeldByTransactions, At
  <2>2. (p \in DOMAIN locks' /\ locks'[p] = d) <=> (p \in DOMAIN locks /\ locks[p] = d /\ d \notin dead)
    BY <1>5
  <2>3. CASE Process(d) = x
    BY <2>3, <2>2, <1>2, NoClientOK
  <2>4. CASE Process(d) # x
    BY <2>4, <2>1, <2>2, <1>2
  <2> QED  BY <2>3, <2>4
<1>8. \A c \in Clients : LocalOK(c, clients[c])'
  <2> SUFFICES ASSUME NEW c \in Clients PROVE LocalOK(c, clients[c])'
    OBVIOUS
  <2>1. LocalOK(c, clients'[c])
    <3>1. LocalOK(c, clients[c])
      BY DEF IInv
    <3> QED  BY <3>1, <1>2, NoClientOK
  <2> QED  BY <2>1, <1>1 DEF LocalOK
<1>9. /\ _POOL'[x] = FALSE /\ opened'[x] = 0 /\ _POOL_LOCK'[x] = None
      /\ \A y \in Processes : y # x => /\ _POOL_LOCK'[y] = _POOL_LOCK[y]
                                       /\ opened'[y] = opened[y] /\ _POOL'[y] = _POOL[y]
  BY <1>1 DEF IInv, TypeOK
<1>10. PoolInv'
  <2>1. PoolOpenedOnce'
    BY <1>9 DEF IInv, PoolInv, PoolOpenedOnce
  <2>2. ASSUME NEW y \in Processes, _POOL_LOCK'[y] # None
        PROVE  Process(_POOL_LOCK'[y]) = y /\ At(_POOL_LOCK[y], "build")'
    <3>1. /\ y # x /\ _POOL_LOCK'[y] = _POOL_LOCK[y] /\ _POOL_LOCK[y] \in Clients
          /\ Process(_POOL_LOCK[y]) = y /\ clients[_POOL_LOCK[y]].pc = "build"
      BY <1>9, <2>2 DEF IInv, TypeOK, PoolInv, At
    <3> QED  BY <3>1, <1>2 DEF At
  <2>3. ASSUME NEW d \in Clients, At(d, "build")'
        PROVE  (_POOL_LOCK[Process(d)] = d /\ ~_POOL[Process(d)])'
    <3>1. Process(d) # x /\ clients[d].pc = "build"
      BY <1>2, <2>3, NoClientOK DEF At
    <3>2. _POOL_LOCK[Process(d)] = d /\ ~_POOL[Process(d)] /\ Process(d) \in Processes
      BY <3>1, ClientsAndProcesses DEF IInv, PoolInv, At
    <3> QED  BY <3>1, <3>2, <1>9
  <2> QED  BY <2>1, <2>2, <2>3 DEF PoolInv
<1>11. /\ _POOL_LOCK' \in [Processes -> Clients \cup {None}]
       /\ _POOL' \in [Processes -> BOOLEAN] /\ opened' \in [Processes -> Nat]
  <2>1. /\ _POOL_LOCK \in [Processes -> Clients \cup {None}]
        /\ _POOL \in [Processes -> BOOLEAN] /\ opened \in [Processes -> Nat]
    BY DEF IInv, TypeOK
  <2>2. _POOL' \in [Processes -> BOOLEAN]
    BY <1>1, <2>1, Zenon
  <2> QED  BY <1>1, <2>1, <2>2
<1>12. /\ PoolOfOneFails' /\ IsTable(property_stats')
       /\ (\A p \in DOMAIN property_stats : Fresh(property_stats[p]))'
  BY <1>1 DEF PoolOfOneFails, IInv, TypeOK, Fresh
<1> QED  BY <1>1, <1>3, <1>4, <1>6, <1>7, <1>8, <1>10, <1>11, <1>12 DEF IInv, TypeOK

LEMMA NextInv == IInv /\ [Next]_vars => IInv'
<1> SUFFICES ASSUME IInv, [Next]_vars PROVE IInv'
  OBVIOUS
<1>1. CASE \E t \in Threads : Begin(t)
  BY <1>1, BeginInv
<1>2. CASE BeginDaily
  BY <1>2, BeginDailyInv
<1>3. ASSUME NEW c \in Clients, Go(c) PROVE IInv'
  <2>1. CASE CheckPool(c)  BY <2>1, CheckPoolInv
  <2>2. CASE LockPool(c)   BY <2>2, LockPoolInv
  <2>3. CASE BuildPool(c)  BY <2>3, BuildPoolInv
  <2>4. CASE Connect(c)    BY <2>4, ConnectInv
  <2>5. CASE TimeOut(c)    BY <2>5, RaiseInv DEF TimeOut, At
  <2>6. CASE CommitRows(c) BY <2>6, CommitRowsInv
  <2>7. CASE BreakDeadlock(c)
    BY <2>7, RaiseInv DEF BreakDeadlock, Deadlocked, Waits, At
  <2>8. CASE SelectInactive  BY <2>8, SelectInactiveInv
  <2>9. CASE DeleteDocuments BY <2>9, DeleteDocumentsInv
  <2>10. CASE FinishLog      BY <2>10, FinishLogInv
  <2> QED
    BY <1>3, <2>1, <2>2, <2>3, <2>4, <2>5, <2>6, <2>7, <2>8, <2>9, <2>10 DEF Go
<1>4. CASE \E c \in Clients : TouchRow(c)
  BY <1>4, TouchRowInv
<1>5. CASE \E c \in Clients : Fail(c)
  BY <1>5, RaiseInv DEF Fail, At
<1>6. CASE \E x \in Processes : Crash(x)
  BY <1>6, CrashInv
<1>7. CASE UNCHANGED vars
  <2>1. UNCHANGED <<max_size, _POOL, opened, _POOL_LOCK, clients, locks, property_stats, status>>
    BY <1>7 DEF vars, pools
  <2>2. TypeOK' /\ PoolOfOneFails' /\ LocksHeldByTransactions'
    BY <2>1 DEF IInv, TypeOK, PoolOfOneFails, LocksHeldByTransactions, At
  <2>3. PoolInv'
    BY <2>1 DEF IInv, PoolInv, PoolOpenedOnce, At
  <2>4. \A c \in Clients : LocalOK(c, clients[c])'
    BY <2>1 DEF IInv, LocalOK
  <2>5. (\A p \in DOMAIN property_stats : Fresh(property_stats[p]))'
    BY <2>1 DEF IInv, Fresh
  <2> QED  BY <2>2, <2>3, <2>4, <2>5 DEF IInv
<1> QED  BY <1>1, <1>2, <1>3, <1>4, <1>5, <1>6, <1>7 DEF Next

\* The inductive invariant holds.
THEOREM Invariance == Spec => []IInv
BY InitInv, NextInv, PTL DEF Spec

\* Connections, locks and rows are always what their types say (core/db.py and
\* the statements of the repositories).
THEOREM Types == Spec => []TypeOK
BY Invariance, PTL DEF IInv

\* _get_pool opens at most one pool in a process, however many threads ask.
THEOREM OnePool == Spec => []PoolOpenedOnce
BY Invariance, PTL DEF IInv, PoolInv

\* get_db_connection ends every transaction it lends a connection to, and no
\* client waits for anything but a row while it has rows locked.
THEOREM LocksEnd == Spec => []LocksHeldByTransactions
BY Invariance, PTL DEF IInv

\* The daily job's nested connection cannot be had from a pool of one.
THEOREM OneConnection == Spec => []PoolOfOneFails
BY Invariance, PTL DEF IInv

\* Rates always belong to their counters, whatever the threads and the job do.
THEOREM Rates == Spec => []RatesFresh
<1>1. IInv => RatesFresh
  BY DEF IInv, Fresh, RatesFresh, Atomic!RatesFresh, Atomic!Rate, Atomic!Zero, Rate, Zero
<1> QED  BY <1>1, Invariance, PTL
-----------------------------------------------------------------------------
(* Every update is as good as done at its commit.                          *)

\* What a step of one client does to Asked.
AskedOf(h) ==
    IF h.pc = "rows" THEN [kind |-> h.kind, rows |-> DOMAIN h.written \cup Range(h.todo)]
    ELSE None

LEMMA AskedIs == Asked = [c \in Clients |-> AskedOf(clients[c])]
BY DEF Asked, AskedOf, At

LEMMA AskedStays ==
    ASSUME IInv, NEW c \in Clients, NEW X, clients' = [clients EXCEPT ![c] = X],
           AskedOf(X) = AskedOf(clients[c]), UNCHANGED property_stats
    PROVE  UNCHANGED Atomic!vars
<1>1. clients'[c] = X /\ \A d \in Clients : d # c => clients'[d] = clients[d]
  BY DEF IInv, TypeOK
<1>2. \A d \in Clients : AskedOf(clients'[d]) = AskedOf(clients[d])
  BY <1>1
<1>3. Asked' = [d \in Clients |-> AskedOf(clients'[d])]
  BY DEF Asked, AskedOf, At
<1>4. Asked' = Asked
  BY <1>2, <1>3, AskedIs
<1> QED  BY <1>4 DEF Atomic!vars

LEMMA InitRefines == Init => Atomic!Init
<1> SUFFICES ASSUME Init PROVE Atomic!Init
  OBVIOUS
<1>1. \A c \in Clients : ~At(c, "rows")
  BY DEF Init, At, NoClient
<1> QED
  BY <1>1 DEF Init, Atomic!Init, Asked, NoWrites, NoStats, Atomic!NoStats, Zero, Atomic!Zero

LEMMA ConnectRefines ==
    ASSUME IInv, NEW c \in Clients, Connect(c)
    PROVE  [Atomic!Next]_Atomic!vars
<1> DEFINE h == clients[c]
<1>1. IsClient(h) /\ Whole(h) /\ LocalOK(c, h)
  BY DEF IInv, TypeOK, IsClient, Whole
<1>2. h.pc = "connect" /\ UNCHANGED property_stats
  BY DEF Connect, At
<1>3. PICK X : clients' = [clients EXCEPT ![c] = X] /\ Whole(X)
               /\ X.kind = h.kind /\ X.written = h.written /\ Range(X.todo) \subseteq Properties
  <2>1. Range(h.todo) \subseteq Properties
    BY <1>1 DEF IsClient, Range
  <2>2. CASE \E phase : clients' = [clients EXCEPT ![c] = [[h EXCEPT !.conns = @ + 1] EXCEPT !.pc = phase]]
    <3>1. PICK phase : clients' = [clients EXCEPT ![c] = [[h EXCEPT !.conns = h.conns + 1] EXCEPT !.pc = phase]]
      BY <2>2
    <3>2. PICK X : X = [[h EXCEPT !.conns = h.conns + 1] EXCEPT !.pc = phase]
      OBVIOUS
    <3>3. Whole(X)
      BY <1>1, <3>2, WholeChanged
    <3>4. X.kind = h.kind /\ X.written = h.written /\ X.todo = h.todo
      BY <1>1, <3>2 DEF Whole
    <3> QED  BY <3>1, <3>2, <3>3, <3>4, <2>1
  <2>3. CASE \E s \in Orders(DOMAIN property_stats) : clients' =
            [clients EXCEPT ![c] = [[h EXCEPT !.conns = @ + 1] EXCEPT !.pc = "rows", !.todo = s]]
    <3>1. PICK s \in Orders(DOMAIN property_stats) : clients' =
            [clients EXCEPT ![c] = [[[h EXCEPT !.conns = h.conns + 1] EXCEPT !.pc = "rows"] EXCEPT !.todo = s]]
      BY <2>3
    <3>2. PICK X : X = [[[h EXCEPT !.conns = h.conns + 1] EXCEPT !.pc = "rows"] EXCEPT !.todo = s]
      OBVIOUS
    <3>3. Whole(X)
      BY <1>1, <3>2, WholeChanged
    <3>4. X.kind = h.kind /\ X.written = h.written /\ X.todo = s
      BY <1>1, <3>2 DEF Whole
    <3>5. Range(s) \subseteq Properties
      <4>1. DOMAIN property_stats \in SUBSET Properties
        BY DEF IInv, TypeOK, IsTable
      <4> QED  BY <4>1, OrdersAreSequences
    <3> QED  BY <3>1, <3>2, <3>3, <3>4, <3>5
  <2> QED  BY <2>2, <2>3 DEF Connect, Become
<1>4. AskedOf(h) = None
  BY <1>2 DEF AskedOf
<1>5. CASE X.pc # "rows"
  BY <1>2, <1>3, <1>4, <1>5, AskedStays DEF AskedOf
<1>6. CASE X.pc = "rows"
  <2>1. h.kind \in Actions \cup {"search", "daily"} /\ h.written = NoWrites
    BY <1>1, <1>2 DEF LocalOK
  <2>2. AskedOf(X) = [kind |-> h.kind, rows |-> Range(X.todo)]
    BY <1>3, <1>6, <2>1, NoClientOK DEF AskedOf
  <2>3. AskedOf(X) \in Atomic!Updates
    BY <1>3, <2>1, <2>2 DEF Atomic!Updates, Atomic!Kinds
  <2>4. clients'[c] = X /\ \A d \in Clients : d # c => clients'[d] = clients[d]
    BY <1>3 DEF IInv, TypeOK
  <2>5. Asked[c] = None
    BY <1>4, AskedIs
  <2>6. Asked' = [Asked EXCEPT ![c] = AskedOf(X)]
    <3>1. Asked' = [d \in Clients |-> AskedOf(clients'[d])]
      BY DEF Asked, AskedOf, At
    <3> QED  BY <3>1, <2>4, AskedIs
  <2>7. Atomic!Ask(c)
    BY <1>2, <2>3, <2>5, <2>6 DEF Atomic!Ask
  <2> QED  BY <2>7 DEF Atomic!Next
<1> QED  BY <1>5, <1>6

LEMMA TouchRowRefines ==
    ASSUME IInv, NEW c \in Clients, TouchRow(c)
    PROVE  UNCHANGED Atomic!vars
<1> DEFINE h == clients[c]
           p == Head(h.todo)
           written == [q \in DOMAIN h.written \cup {p} |->
                          IF q = p THEN EffectOn(h.kind, RowOf(property_stats, p)) ELSE h.written[q]]
<1>1. PICK X : X = [[h EXCEPT !.todo = Tail(h.todo)] EXCEPT !.written = written]
  OBVIOUS
<1>2. IsClient(h) /\ Whole(h) /\ LocalOK(c, h)
  BY DEF IInv, TypeOK, IsClient, Whole
<1>3. h.pc = "rows" /\ h.todo # <<>> /\ UNCHANGED property_stats
  BY DEF TouchRow, At
<1>4. clients' = [clients EXCEPT ![c] = X]
  <2>1. X = Written(c, p)
    BY <1>1 DEF Written
  <2> QED  BY <2>1 DEF TouchRow, Become
<1>5. Range(h.todo) = {p} \cup Range(Tail(h.todo))
  BY <1>2, <1>3, TodoSplits DEF IsClient, LocalOK
<1>6. X.pc = "rows" /\ X.kind = h.kind /\ X.todo = Tail(h.todo) /\ X.written = written
  BY <1>1, <1>2, <1>3 DEF Whole
<1>7. DOMAIN written = DOMAIN h.written \cup {p}
  OBVIOUS
<1> HIDE DEF written
<1>8. DOMAIN X.written \cup Range(X.todo) = DOMAIN h.written \cup Range(h.todo)
  BY <1>5, <1>6, <1>7
<1>9. AskedOf(X) = AskedOf(h)
  BY <1>3, <1>6, <1>8 DEF AskedOf
<1> QED  BY <1>3, <1>4, <1>9, AskedStays

\* The commit is the moment at which the whole update happens.
LEMMA CommitRowsRefines ==
    ASSUME IInv, NEW c \in Clients, CommitRows(c)
    PROVE  Atomic!Do(c)
<1> DEFINE h == clients[c]
<1>1. h.pc = "rows" /\ h.todo = <<>> /\ property_stats' = Visible(c)
  BY DEF CommitRows, At
<1>2. PICK X : clients' = [clients EXCEPT ![c] = X] /\ X.pc # "rows"
  <2>1. NoClient.pc # "rows"
           /\ [NoClient EXCEPT !.pc = "check", !.kind = "daily", !.conns = 1].pc # "rows"
    BY DEF NoClient
  <2> QED  BY <2>1 DEF CommitRows, Become
<1>3. LocalOK(c, h)
  BY DEF IInv
<1>4. Asked[c] = [kind |-> h.kind, rows |-> DOMAIN h.written]
  <2>1. Range(h.todo) = {}
    BY <1>1 DEF Range
  <2> QED  BY <1>1, <2>1, AskedIs DEF AskedOf
<1>5. Asked[c] # None
  <2>1. h.kind \in Actions \cup {"search", "daily"}
    BY <1>1, <1>3 DEF LocalOK
  <2>2. DOMAIN h.written \in SUBSET Properties
    BY DEF IInv, TypeOK, IsClient, IsTable
  <2> QED  BY <1>4, <2>1, <2>2, DatabaseConstants
<1>6. Asked' = [Asked EXCEPT ![c] = None]
  <2>1. Asked' = [d \in Clients |-> AskedOf(clients'[d])]
    BY DEF Asked, AskedOf, At
  <2>2. clients'[c] = X /\ \A d \in Clients : d # c => clients'[d] = clients[d]
    BY <1>2 DEF IInv, TypeOK
  <2>3. AskedOf(X) = None
    BY <1>2 DEF AskedOf
  <2> QED  BY <2>1, <2>2, <2>3, AskedIs
<1>7. property_stats' = Atomic!Updated(property_stats, Asked[c])
  <2>1. ASSUME NEW p \in DOMAIN h.written
        PROVE  h.written[p] = Atomic!EffectOn(h.kind, Atomic!RowOf(property_stats, p))
    <3>1. h.written[p] = EffectOn(h.kind, RowOf(property_stats, p))
      BY <1>1, <1>3 DEF LocalOK
    <3>2. RowOf(property_stats, p) = Atomic!RowOf(property_stats, p)
      BY DEF RowOf, Atomic!RowOf, NoStats, Atomic!NoStats, Zero, Atomic!Zero
    <3>3. \A kind, row : EffectOn(kind, row) = Atomic!EffectOn(kind, row)
      BY DEF EffectOn, Atomic!EffectOn, ImpressedRow, Atomic!ImpressedRow, ActedRow, Atomic!ActedRow,
             RecalculatedRow, Atomic!RecalculatedRow, Rate, Atomic!Rate, Zero, Atomic!Zero
    <3> QED  BY <3>1, <3>2, <3>3
  <2>2. Asked[c].kind = h.kind /\ Asked[c].rows = DOMAIN h.written
    BY <1>4
  <2>3. Visible(c) = [p \in DOMAIN property_stats \cup DOMAIN h.written |->
            IF p \in DOMAIN h.written THEN Atomic!EffectOn(h.kind, Atomic!RowOf(property_stats, p))
            ELSE property_stats[p]]
    BY <2>1 DEF Visible
  <2> QED  BY <1>1, <2>2, <2>3 DEF Atomic!Updated
<1> QED  BY <1>5, <1>6, <1>7 DEF Atomic!Do

LEMMA RaiseRefines ==
    ASSUME IInv, NEW c \in Clients, Raise(c)
    PROVE  Atomic!GiveUp
<1>1. PICK X : clients' = [clients EXCEPT ![c] = X] /\ X.pc # "rows"
  <2>1. NoClient.pc # "rows" /\
          [NoClient EXCEPT !.pc = "log", !.kind = "daily", !.conns = 1, !.raised = TRUE].pc # "rows"
    BY DEF NoClient
  <2>2. Unwound(c).pc # "rows"
    BY <2>1 DEF Unwound
  <2> QED  BY <2>2 DEF Raise, Become
<1>2. clients'[c] = X /\ \A d \in Clients : d # c => clients'[d] = clients[d]
  BY <1>1 DEF IInv, TypeOK
<1>3. Asked' = [d \in Clients |-> AskedOf(clients'[d])]
  BY DEF Asked, AskedOf, At
<1>4. AskedOf(X) = None
  BY <1>1 DEF AskedOf
<1>5. Asked' = [d \in Clients |-> IF d \in {c} THEN None ELSE Asked[d]]
  BY <1>2, <1>3, <1>4, AskedIs
<1> QED  BY <1>5 DEF Raise, Atomic!GiveUp

LEMMA CrashRefines ==
    ASSUME NEW x \in Processes, Crash(x)
    PROVE  Atomic!GiveUp
<1> DEFINE dead == {c \in Clients : Process(c) = x}
<1>1. /\ clients' = [c \in Clients |-> IF c \in dead THEN NoClient ELSE clients[c]]
      /\ UNCHANGED property_stats
  BY DEF Crash
<1>2. Asked' = [d \in Clients |-> AskedOf(clients'[d])]
  BY DEF Asked, AskedOf, At
<1>3. AskedOf(NoClient) = None
  BY DEF AskedOf, NoClient
<1>4. Asked' = [d \in Clients |-> IF d \in dead THEN None ELSE Asked[d]]
  BY <1>1, <1>2, <1>3, AskedIs
<1> QED  BY <1>1, <1>4 DEF Atomic!GiveUp

\* The steps that neither come to the rows nor leave them.
LEMMA Aside ==
    ASSUME IInv, NEW c \in Clients, NEW X, clients' = [clients EXCEPT ![c] = X],
           clients[c].pc # "rows", X.pc # "rows", UNCHANGED property_stats
    PROVE  UNCHANGED Atomic!vars
BY AskedStays DEF AskedOf

LEMMA GotoAside ==
    ASSUME IInv, NEW c \in Clients, NEW phase, phase # "rows", Goto(c, phase),
           clients[c].pc # "rows", UNCHANGED property_stats
    PROVE  UNCHANGED Atomic!vars
<1>1. Whole(clients[c])
  BY DEF IInv, TypeOK, IsClient, Whole
<1>2. [clients[c] EXCEPT !.pc = phase].pc = phase
  BY <1>1 DEF Whole
<1> QED  BY <1>2, Aside DEF Goto, Become

LEMMA StepRefines == IInv /\ [Next]_vars => [Atomic!Next]_Atomic!vars
<1> SUFFICES ASSUME IInv, [Next]_vars PROVE [Atomic!Next]_Atomic!vars
  OBVIOUS
<1>1. ASSUME NEW t \in Threads, Begin(t) PROVE UNCHANGED Atomic!vars
  <2>1. t \in Clients /\ clients[t].pc # "rows" /\ UNCHANGED property_stats
    BY <1>1 DEF Begin, At, Clients
  <2>2. PICK update \in Statements : clients' = [clients EXCEPT ![t] =
            [NoClient EXCEPT !.pc = "check", !.kind = update.kind, !.todo = update.todo]]
    BY <1>1 DEF Begin, Become
  <2>3. [NoClient EXCEPT !.pc = "check", !.kind = update.kind, !.todo = update.todo].pc # "rows"
    BY DEF NoClient
  <2> QED  BY <2>1, <2>2, <2>3, Aside
<1>2. CASE BeginDaily
  <2>1. [NoClient EXCEPT !.pc = "check", !.kind = "daily"].pc # "rows"
    BY DEF NoClient
  <2> QED  BY <1>2, <2>1, Aside, ClientsAndProcesses DEF BeginDaily, Become, At
<1>3. ASSUME NEW c \in Clients, Go(c) PROVE [Atomic!Next]_Atomic!vars
  <2>1. CASE CheckPool(c)
    BY <2>1, GotoAside DEF CheckPool, At
  <2>2. CASE LockPool(c)
    BY <2>2, GotoAside DEF LockPool, At
  <2>3. CASE BuildPool(c)
    BY <2>3, GotoAside DEF BuildPool, At
  <2>4. CASE Connect(c)
    BY <2>4, ConnectRefines
  <2>5. CASE TimeOut(c) \/ BreakDeadlock(c)
    BY <2>5, RaiseRefines DEF TimeOut, BreakDeadlock, Atomic!Next
  <2>6. CASE CommitRows(c)
    BY <2>6, CommitRowsRefines DEF Atomic!Next
  <2>7. CASE SelectInactive
    <3>1. PICK phase \in {"network", "log"} : clients' =
            [clients EXCEPT ![Daily] = [clients[Daily] EXCEPT !.pc = phase, !.conns = @ - 1]]
      BY <2>7 DEF SelectInactive, Become
    <3>2. Whole(clients[Daily])
      BY ClientsAndProcesses DEF IInv, TypeOK, IsClient, Whole
    <3>3. [clients[Daily] EXCEPT !.pc = phase, !.conns = @ - 1].pc # "rows"
      BY <3>2 DEF Whole
    <3> QED  BY <2>7, <3>1, <3>3, Aside, ClientsAndProcesses DEF SelectInactive, At
  <2>8. CASE DeleteDocuments
    BY <2>8, GotoAside, ClientsAndProcesses DEF DeleteDocuments, At
  <2>9. CASE FinishLog
    <3>1. NoClient.pc # "rows"
      BY NoClientOK
    <3> QED  BY <2>9, <3>1, Aside, ClientsAndProcesses DEF FinishLog, Become, At
  <2> QED  BY <1>3, <2>1, <2>2, <2>3, <2>4, <2>5, <2>6, <2>7, <2>8, <2>9 DEF Go
<1>4. CASE \E c \in Clients : TouchRow(c)
  BY <1>4, TouchRowRefines
<1>5. CASE \E c \in Clients : Fail(c)
  BY <1>5, RaiseRefines DEF Fail, Atomic!Next
<1>6. CASE \E x \in Processes : Crash(x)
  BY <1>6, CrashRefines DEF Atomic!Next
<1>7. CASE UNCHANGED vars
  BY <1>7 DEF vars, Asked, At, Atomic!vars
<1> QED  BY <1>1, <1>2, <1>3, <1>4, <1>5, <1>6, <1>7 DEF Next

\* Statements that take row after row, under locks, through a pool, with failures
\* and deaths at every point, implement updates that happen at once or not at all.
THEOREM UpdatesAreAtomic == Spec => AtomicSpec
BY InitRefines, StepRefines, Invariance, PTL DEF Spec, AtomicSpec, Atomic!Spec
=============================================================================
