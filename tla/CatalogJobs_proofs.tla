------------------------- MODULE CatalogJobs_proofs -------------------------
(***************************************************************************)
(* Proofs about CatalogJobs, for any catalogue, any queue and any number   *)
(* of edits: type correctness, and the four invariants of the jobs.        *)
(***************************************************************************)
EXTENDS CatalogJobs, SequenceTheorems, TLAPS

-----------------------------------------------------------------------------
(* The queue.                                                              *)

Attended(i) == tasks[i].by # None

\* Only a client that still asks has a task of its own in the queue, and it has
\* one; documents to add are documents.  What is behind a client's task, in
\* the queue or once the task is over, is about what `touched` tells.
QueueInv ==
    /\ \A i \in DOMAIN tasks : Attended(i) => answers[tasks[i].by] = "enqueued"
    /\ \A i, j \in DOMAIN tasks : Attended(i) /\ tasks[i].by = tasks[j].by => i = j
    /\ \A i \in DOMAIN tasks : tasks[i].op = "add" => tasks[i].docs \in Documents
    /\ \A i, j \in DOMAIN tasks :
           Attended(i) /\ i < j => DOMAIN tasks[j].docs \subseteq touched[tasks[i].by]
    /\ \A c \in Clients : answers[c] = "succeeded" =>
           \A i \in DOMAIN tasks : DOMAIN tasks[i].docs \subseteq touched[c]

\* What c waits for is this request.
Owes(c, op, docs) ==
    \A i \in DOMAIN tasks : tasks[i].by = c => tasks[i].op = op /\ tasks[i].docs = docs

LEMMA DocumentsAreFunctions ==
    ASSUME NEW f
    PROVE  f \in Documents <=> DOMAIN f \subseteq Properties /\ f \in [DOMAIN f -> Contents]
BY DEF Documents

LEMMA TaskDocs ==
    ASSUME NEW op \in {"create", "settings", "add", "delete"}, NEW c \in Clients \cup {None},
           NEW S \in SUBSET Properties, NEW docs \in [S -> Contents \cup {None}]
    PROVE  [op |-> op, docs |-> docs, by |-> c] \in Tasks
BY DEF Tasks

LEMMA TaskFields ==
    ASSUME MeiliTypeOK
    PROVE  \A i \in DOMAIN tasks : tasks[i] \in Tasks /\ tasks[i].by \in Clients \cup {None}
<1> SUFFICES ASSUME NEW i \in DOMAIN tasks
             PROVE  tasks[i] \in Tasks /\ tasks[i].by \in Clients \cup {None}
  OBVIOUS
<1>1. tasks \in Seq(Tasks)
  BY DEF MeiliTypeOK
<1>2. tasks[i] \in Tasks
  BY <1>1, LenProperties, ElementOfSeq
<1> QED  BY <1>2 DEF Tasks

\* The queue without c is the queue, but for who asks.
LEMMA UnattendedKeeps ==
    ASSUME MeiliTypeOK, NEW c \in Clients
    PROVE  /\ Unattended(c) \in Seq(Tasks)
           /\ Len(Unattended(c)) = Len(tasks)
           /\ DOMAIN Unattended(c) = DOMAIN tasks
           /\ \A i \in DOMAIN tasks :
                  /\ Unattended(c)[i].op = tasks[i].op
                  /\ Unattended(c)[i].docs = tasks[i].docs
                  /\ Unattended(c)[i].by = IF tasks[i].by = c THEN None ELSE tasks[i].by
<1>1. tasks \in Seq(Tasks) /\ DOMAIN tasks = 1 .. Len(tasks) /\ Len(tasks) \in Nat
  BY LenProperties DEF MeiliTypeOK
<1>2. ASSUME NEW i \in DOMAIN tasks
      PROVE  /\ Unattended(c)[i] \in Tasks
             /\ Unattended(c)[i].op = tasks[i].op
             /\ Unattended(c)[i].docs = tasks[i].docs
             /\ Unattended(c)[i].by = IF tasks[i].by = c THEN None ELSE tasks[i].by
  <2>1. tasks[i] \in Tasks
    BY <1>1, <1>2, ElementOfSeq
  <2>2. CASE tasks[i].by = c
    <3>1. Unattended(c)[i] = [tasks[i] EXCEPT !.by = None]
      BY <1>2, <2>2 DEF Unattended
    <3> QED  BY <2>1, <2>2, <3>1 DEF Tasks
  <2>3. CASE tasks[i].by # c
    BY <1>2, <2>1, <2>3 DEF Unattended
  <2> QED  BY <2>2, <2>3
<1>3. Unattended(c) \in [1 .. Len(tasks) -> Tasks]
  BY <1>1, <1>2 DEF Unattended
<1>4. Unattended(c) \in Seq(Tasks) /\ Len(Unattended(c)) = Len(tasks)
  BY <1>1, <1>3
<1> QED  BY <1>1, <1>2, <1>3, <1>4

\* What each of the four ways of changing the queue keeps of every client's
\* state that it is not about.
Others(c) ==
    \A d \in Clients \ {c} :
        /\ answers'[d] = answers[d] /\ touched[d] \subseteq touched'[d]
        /\ \A op, docs : Owes(d, op, docs) => Owes(d, op, docs)'

\* Whose answers a request adds to touched.
LEMMA TouchKeeps ==
    ASSUME touched \in [Clients -> SUBSET Properties], NEW c \in Clients,
           NEW S \in SUBSET Properties, NEW T, NEW docs \in [S -> T], Touch(c, docs)
    PROVE  /\ touched' \in [Clients -> SUBSET Properties]
           /\ \A d \in Clients \ {c} :
                  /\ touched[d] \subseteq touched'[d]
                  /\ answers[d] # "none" => DOMAIN docs \subseteq touched'[d]
BY DEF Touch

LEMMA SubmitKeeps ==
    ASSUME MeiliTypeOK, QueueInv, None \notin Clients, MaxTasks \in Nat,
           NEW c \in Clients, answers[c] # "enqueued",
           NEW op \in {"create", "settings", "add", "delete"},
           NEW S \in SUBSET Properties, NEW docs \in [S -> Contents \cup {None}],
           op = "add" => docs \in Documents,
           Submit(c, op, docs)
    PROVE  /\ MeiliTypeOK' /\ QueueInv' /\ Others(c)
           /\ Owes(c, op, docs)' /\ answers'[c] = "enqueued" /\ index' = index
<1> DEFINE task == [op |-> op, docs |-> docs, by |-> c]
<1>1. task \in Tasks
  BY TaskDocs
<1>2. /\ tasks \in Seq(Tasks) /\ Len(tasks) \in Nat /\ Len(tasks) <= MaxTasks
      /\ DOMAIN tasks = 1 .. Len(tasks)
      /\ answers \in [Clients -> {"none", "enqueued", "succeeded", "failed"}]
      /\ touched \in [Clients -> SUBSET Properties]
  BY LenProperties DEF MeiliTypeOK
<1>3. /\ tasks' = Append(tasks, task) /\ Len(tasks) < MaxTasks
      /\ answers' = [answers EXCEPT ![c] = "enqueued"]
      /\ Touch(c, docs)
      /\ index' = index /\ index_exists' = index_exists
  BY DEF Submit
<1>4. task.op = op /\ task.docs = docs /\ task.by = c
  OBVIOUS
<1> HIDE DEF task
<1>5. /\ tasks' \in Seq(Tasks) /\ Len(tasks') = Len(tasks) + 1
      /\ DOMAIN tasks' = 1 .. Len(tasks) + 1
      /\ \A i \in DOMAIN tasks : tasks'[i] = tasks[i]
      /\ tasks'[Len(tasks) + 1] = task
  BY <1>1, <1>2, <1>3, AppendProperties
<1>6. \A i \in DOMAIN tasks' : i \in DOMAIN tasks \/ (i = Len(tasks) + 1 /\ i \notin DOMAIN tasks)
  BY <1>2, <1>5
<1>7. \A i \in DOMAIN tasks : tasks[i].by # c
  BY <1>2 DEF QueueInv, Attended
<1>8. /\ touched' \in [Clients -> SUBSET Properties]
       /\ \A d \in Clients \ {c} :
              /\ touched[d] \subseteq touched'[d]
              /\ answers[d] # "none" => DOMAIN task.docs \subseteq touched'[d]
  BY <1>2, <1>3, <1>4, TouchKeeps
<1>9. MeiliTypeOK'
  <2>1. index' \in Documents /\ index_exists' \in BOOLEAN
    BY <1>3 DEF MeiliTypeOK, Documents
  <2>2. Len(tasks') <= MaxTasks
    BY <1>2, <1>3, <1>5
  <2>3. answers' \in [Clients -> {"none", "enqueued", "succeeded", "failed"}]
    BY <1>2, <1>3
  <2> QED  BY <1>5, <1>8, <2>1, <2>2, <2>3 DEF MeiliTypeOK
<1>10. /\ answers'[c] = "enqueued"
      /\ \A d \in Clients \ {c} : answers'[d] = answers[d]
  BY <1>2, <1>3
<1>11. \A i \in DOMAIN tasks : tasks[i].by \in Clients \cup {None}
  BY TaskFields
<1>12. QueueInv'
  <2>1. ASSUME NEW i \in DOMAIN tasks', tasks'[i].by # None
        PROVE  answers'[tasks'[i].by] = "enqueued"
    BY <1>4, <1>5, <1>6, <1>7, <1>10, <1>11, <2>1 DEF QueueInv, Attended
  <2>2. ASSUME NEW i \in DOMAIN tasks', NEW j \in DOMAIN tasks',
               tasks'[i].by # None, tasks'[i].by = tasks'[j].by
        PROVE  i = j
    BY <1>4, <1>5, <1>6, <1>7, <2>2 DEF QueueInv, Attended
  <2>3. ASSUME NEW i \in DOMAIN tasks', tasks'[i].op = "add"
        PROVE  tasks'[i].docs \in Documents
    BY <1>4, <1>5, <1>6, <2>3 DEF QueueInv
  <2>4. ASSUME NEW i \in DOMAIN tasks', NEW j \in DOMAIN tasks', tasks'[i].by # None, i < j
        PROVE  DOMAIN tasks'[j].docs \subseteq touched'[tasks'[i].by]
    <3>1. i \in DOMAIN tasks /\ tasks'[i] = tasks[i]
      BY <1>2, <1>5, <1>6, <2>4
    <3>2. PICK d \in Clients \ {c} : d = tasks[i].by /\ answers[d] = "enqueued"
      BY <1>7, <1>11, <2>4, <3>1 DEF QueueInv, Attended
    <3>3. CASE j \in DOMAIN tasks
      BY <1>5, <1>8, <2>4, <3>1, <3>2, <3>3 DEF QueueInv, Attended
    <3>4. CASE j = Len(tasks) + 1
      BY <1>5, <1>8, <3>1, <3>2, <3>4
    <3> QED  BY <1>6, <3>3, <3>4
  <2>5. ASSUME NEW d \in Clients, answers'[d] = "succeeded", NEW i \in DOMAIN tasks'
        PROVE  DOMAIN tasks'[i].docs \subseteq touched'[d]
    <3>1. d \in Clients \ {c} /\ answers[d] = "succeeded"
      BY <1>10, <2>5
    <3>2. CASE i \in DOMAIN tasks
      BY <1>5, <1>8, <3>1, <3>2 DEF QueueInv
    <3>3. CASE i = Len(tasks) + 1
      BY <1>5, <1>8, <3>1, <3>3
    <3> QED  BY <1>6, <3>2, <3>3
  <2> QED  BY <2>1, <2>2, <2>3, <2>4, <2>5 DEF QueueInv, Attended, Documents
<1>13. Owes(c, op, docs)'
  BY <1>4, <1>5, <1>6, <1>7 DEF Owes
<1>14. Others(c)
  <2> SUFFICES ASSUME NEW d \in Clients \ {c}, NEW o, NEW s, Owes(d, o, s)
               PROVE  Owes(d, o, s)'
    BY <1>10, <1>8 DEF Others
  <2> QED  BY <1>4, <1>5, <1>6 DEF Owes
<1> QED  BY <1>3, <1>9, <1>10, <1>12, <1>13, <1>14

LEMMA ForgetKeeps ==
    ASSUME MeiliTypeOK, QueueInv, None \notin Clients, NEW c \in Clients, Forget(c)
    PROVE  /\ MeiliTypeOK' /\ QueueInv' /\ Others(c)
           /\ answers'[c] = "none" /\ index' = index
<1>1. /\ answers \in [Clients -> {"none", "enqueued", "succeeded", "failed"}]
      /\ touched \in [Clients -> SUBSET Properties]
      /\ Len(tasks) <= MaxTasks
  BY DEF MeiliTypeOK
<1>2. /\ tasks' = Unattended(c)
      /\ answers' = [answers EXCEPT ![c] = "none"]
      /\ touched' = [touched EXCEPT ![c] = {}]
      /\ index' = index /\ index_exists' = index_exists
  BY DEF Forget
<1>3. /\ tasks' \in Seq(Tasks) /\ Len(tasks') = Len(tasks) /\ DOMAIN tasks' = DOMAIN tasks
      /\ \A i \in DOMAIN tasks :
             /\ tasks'[i].op = tasks[i].op /\ tasks'[i].docs = tasks[i].docs
             /\ tasks'[i].by = IF tasks[i].by = c THEN None ELSE tasks[i].by
  BY <1>2, UnattendedKeeps
<1>4. MeiliTypeOK'
  BY <1>1, <1>2, <1>3 DEF MeiliTypeOK
<1>5. /\ answers'[c] = "none"
      /\ \A d \in Clients \ {c} : answers'[d] = answers[d] /\ touched'[d] = touched[d]
  BY <1>1, <1>2
<1>6. \A i \in DOMAIN tasks : tasks[i].by \in Clients \cup {None}
  BY TaskFields
<1>7. QueueInv'
  <2>1. ASSUME NEW i \in DOMAIN tasks', tasks'[i].by # None
        PROVE  /\ i \in DOMAIN tasks /\ tasks[i].by \in Clients \ {c} /\ tasks'[i].by = tasks[i].by
               /\ tasks[i].by # None
    BY <1>3, <1>6, <2>1
  <2>2. /\ \A i \in DOMAIN tasks' : tasks'[i].by # None => answers'[tasks'[i].by] = "enqueued"
        /\ \A i, j \in DOMAIN tasks' : tasks'[i].by # None /\ tasks'[i].by = tasks'[j].by => i = j
        /\ \A i \in DOMAIN tasks' : tasks'[i].op = "add" => tasks'[i].docs \in Documents
    BY <1>3, <1>5, <1>6, <2>1 DEF QueueInv, Attended
  <2>3. \A i, j \in DOMAIN tasks' :
            tasks'[i].by # None /\ i < j => DOMAIN tasks'[j].docs \subseteq touched'[tasks'[i].by]
    BY <1>3, <1>5, <2>1 DEF QueueInv, Attended
  <2>4. \A d \in Clients : answers'[d] = "succeeded" =>
            \A i \in DOMAIN tasks' : DOMAIN tasks'[i].docs \subseteq touched'[d]
    BY <1>3, <1>5 DEF QueueInv
  <2> QED  BY <2>2, <2>3, <2>4 DEF QueueInv, Attended, Documents
<1>8. Others(c)
  <2> SUFFICES ASSUME NEW d \in Clients \ {c}, NEW o, NEW s, Owes(d, o, s)
               PROVE  Owes(d, o, s)'
    BY <1>5 DEF Others
  <2> QED  BY <1>3 DEF Owes
<1> QED  BY <1>2, <1>4, <1>5, <1>7, <1>8

LEMMA SubmitLostKeeps ==
    ASSUME MeiliTypeOK, QueueInv, None \notin Clients, MaxTasks \in Nat, NEW c \in Clients,
           NEW op \in {"create", "settings", "add", "delete"},
           NEW S \in SUBSET Properties, NEW docs \in [S -> Contents \cup {None}],
           op = "add" => docs \in Documents,
           SubmitLost(c, op, docs)
    PROVE  /\ MeiliTypeOK' /\ QueueInv' /\ Others(c)
           /\ answers'[c] = "none" /\ index' = index
<1> DEFINE task == [op |-> op, docs |-> docs, by |-> None]
<1>1. task \in Tasks
  BY TaskDocs
<1>2. /\ tasks \in Seq(Tasks) /\ Len(tasks) \in Nat /\ Len(tasks) <= MaxTasks
      /\ DOMAIN tasks = 1 .. Len(tasks)
      /\ answers \in [Clients -> {"none", "enqueued", "succeeded", "failed"}]
      /\ touched \in [Clients -> SUBSET Properties]
  BY LenProperties DEF MeiliTypeOK
<1>3. /\ tasks' = Append(Unattended(c), task) /\ Len(tasks) < MaxTasks
      /\ answers' = [answers EXCEPT ![c] = "none"]
      /\ Touch(c, docs)
      /\ index' = index /\ index_exists' = index_exists
  BY DEF SubmitLost
<1>4. task.op = op /\ task.docs = docs /\ task.by = None
  OBVIOUS
<1> HIDE DEF task
<1>5. /\ tasks' \in Seq(Tasks) /\ Len(tasks') = Len(tasks) + 1
      /\ DOMAIN tasks' = 1 .. Len(tasks) + 1
      /\ \A i \in DOMAIN tasks : tasks'[i] = Unattended(c)[i]
      /\ tasks'[Len(tasks) + 1] = task
  BY <1>1, <1>2, <1>3, UnattendedKeeps, AppendProperties
<1>6. /\ \A i \in DOMAIN tasks' : i \in DOMAIN tasks \/ i = Len(tasks) + 1
      /\ \A i \in DOMAIN tasks :
             /\ tasks'[i].op = tasks[i].op /\ tasks'[i].docs = tasks[i].docs
             /\ tasks'[i].by = IF tasks[i].by = c THEN None ELSE tasks[i].by
  <2>1. \A i \in 1 .. Len(tasks) + 1 : i \in 1 .. Len(tasks) \/ i = Len(tasks) + 1
    BY <1>2
  <2>2. ASSUME NEW i \in DOMAIN tasks
        PROVE  /\ tasks'[i].op = tasks[i].op /\ tasks'[i].docs = tasks[i].docs
               /\ tasks'[i].by = IF tasks[i].by = c THEN None ELSE tasks[i].by
    <3>1. tasks'[i] = Unattended(c)[i]
      BY <1>5
    <3> QED  BY <3>1, UnattendedKeeps
  <2> QED  BY <1>2, <1>5, <2>1, <2>2
<1>7. /\ touched' \in [Clients -> SUBSET Properties]
       /\ \A d \in Clients \ {c} :
              /\ touched[d] \subseteq touched'[d]
              /\ answers[d] # "none" => DOMAIN task.docs \subseteq touched'[d]
  BY <1>2, <1>3, <1>4, TouchKeeps
<1>8. MeiliTypeOK'
  <2>1. index' \in Documents /\ index_exists' \in BOOLEAN
    BY <1>3 DEF MeiliTypeOK, Documents
  <2>2. Len(tasks') <= MaxTasks
    BY <1>2, <1>3, <1>5
  <2>3. answers' \in [Clients -> {"none", "enqueued", "succeeded", "failed"}]
    BY <1>2, <1>3
  <2> QED  BY <1>5, <1>7, <2>1, <2>2, <2>3 DEF MeiliTypeOK
<1>9. /\ answers'[c] = "none"
      /\ \A d \in Clients \ {c} : answers'[d] = answers[d]
  BY <1>2, <1>3
<1>10. \A i \in DOMAIN tasks : tasks[i].by \in Clients \cup {None}
  BY TaskFields
<1>11. QueueInv'
  <2>1. ASSUME NEW i \in DOMAIN tasks', tasks'[i].by # None
        PROVE  answers'[tasks'[i].by] = "enqueued"
    BY <1>4, <1>5, <1>6, <1>9, <1>10, <2>1 DEF QueueInv, Attended
  <2>2. ASSUME NEW i \in DOMAIN tasks', NEW j \in DOMAIN tasks',
               tasks'[i].by # None, tasks'[i].by = tasks'[j].by
        PROVE  i = j
    BY <1>4, <1>5, <1>6, <2>2 DEF QueueInv, Attended
  <2>3. ASSUME NEW i \in DOMAIN tasks', tasks'[i].op = "add"
        PROVE  tasks'[i].docs \in Documents
    BY <1>4, <1>5, <1>6, <2>3 DEF QueueInv
  <2>4. ASSUME NEW i \in DOMAIN tasks', NEW j \in DOMAIN tasks', tasks'[i].by # None, i < j
        PROVE  DOMAIN tasks'[j].docs \subseteq touched'[tasks'[i].by]
    <3>1. i \in DOMAIN tasks /\ tasks'[i].by = tasks[i].by /\ tasks[i].by # c
      BY <1>4, <1>5, <1>6, <2>4
    <3>2. PICK d \in Clients \ {c} : d = tasks[i].by /\ answers[d] = "enqueued"
      BY <1>10, <2>4, <3>1 DEF QueueInv, Attended
    <3>3. CASE j \in DOMAIN tasks
      BY <1>6, <1>7, <2>4, <3>1, <3>2, <3>3 DEF QueueInv, Attended
    <3>4. CASE j = Len(tasks) + 1
      BY <1>5, <1>7, <3>1, <3>2, <3>4
    <3> QED  BY <1>6, <3>3, <3>4
  <2>5. ASSUME NEW d \in Clients, answers'[d] = "succeeded", NEW i \in DOMAIN tasks'
        PROVE  DOMAIN tasks'[i].docs \subseteq touched'[d]
    <3>1. d \in Clients \ {c} /\ answers[d] = "succeeded"
      BY <1>9, <2>5
    <3>2. CASE i \in DOMAIN tasks
      BY <1>6, <1>7, <3>1, <3>2 DEF QueueInv
    <3>3. CASE i = Len(tasks) + 1
      BY <1>5, <1>7, <3>1, <3>3
    <3> QED  BY <1>6, <3>2, <3>3
  <2> QED  BY <2>1, <2>2, <2>3, <2>4, <2>5 DEF QueueInv, Attended, Documents
<1>12. Others(c)
  <2> SUFFICES ASSUME NEW d \in Clients \ {c}, NEW o, NEW s, Owes(d, o, s)
               PROVE  Owes(d, o, s)'
    BY <1>9, <1>7 DEF Others
  <2> QED  BY <1>4, <1>5, <1>6 DEF Owes
<1> QED  BY <1>3, <1>8, <1>9, <1>11, <1>12

\* What a task does to the index.
LEMMA ApplyEffect ==
    ASSUME MeiliTypeOK, NEW task \in Tasks, task.op = "add" => task.docs \in Documents,
           Apply(task)
    PROVE  /\ index' \in Documents /\ index_exists' = TRUE
           /\ \A p \in Properties \ DOMAIN task.docs :
                  /\ p \in DOMAIN index' <=> p \in DOMAIN index
                  /\ p \in DOMAIN index => index'[p] = index[p]
           /\ task.op = "add" =>
                  \A p \in DOMAIN task.docs : p \in DOMAIN index' /\ index'[p] = task.docs[p]
           /\ task.op = "delete" => \A p \in DOMAIN task.docs : p \notin DOMAIN index'
<1>1. DOMAIN index \subseteq Properties /\ index \in [DOMAIN index -> Contents]
  BY DocumentsAreFunctions DEF MeiliTypeOK
<1>2. index_exists' = TRUE
  BY DEF Apply
<1>3. CASE task.op = "add"
  <2>1. DOMAIN task.docs \subseteq Properties /\ task.docs \in [DOMAIN task.docs -> Contents]
    BY <1>3, DocumentsAreFunctions
  <2>2. index' = [p \in DOMAIN index \cup DOMAIN task.docs |->
                     IF p \in DOMAIN task.docs THEN task.docs[p] ELSE index[p]]
    BY <1>3 DEF Apply
  <2>3. DOMAIN index' \subseteq Properties /\ index' \in [DOMAIN index' -> Contents]
    BY <1>1, <2>1, <2>2
  <2>4. index' \in Documents
    BY <2>3 DEF Documents
  <2> QED  BY <1>2, <1>3, <2>1, <2>2, <2>4
<1>4. CASE task.op = "delete"
  <2>1. index' = [p \in DOMAIN index \ DOMAIN task.docs |-> index[p]]
    BY <1>4 DEF Apply, Restrict
  <2>2. DOMAIN index' \subseteq Properties /\ index' \in [DOMAIN index' -> Contents]
    BY <1>1, <2>1
  <2>3. index' \in Documents
    BY <2>2 DEF Documents
  <2> QED  BY <1>2, <1>4, <2>1, <2>3
<1>5. CASE task.op \notin {"add", "delete"}
  <2>1. index' = index
    BY <1>5 DEF Apply
  <2> QED  BY <1>2, <1>5, <2>1 DEF MeiliTypeOK, Documents
<1> QED  BY <1>3, <1>4, <1>5

\* To a client whose task has succeeded, a task behind it changes nothing but
\* what has been touched.
Untouched(c) ==
    /\ touched'[c] = touched[c]
    /\ \A p \in Properties \ touched[c] :
           /\ p \in DOMAIN index' <=> p \in DOMAIN index
           /\ p \in DOMAIN index => index'[p] = index[p]

LEMMA ProcessKeeps ==
    ASSUME MeiliTypeOK, QueueInv, None \notin Clients, MaxTasks \in Nat, ProcessTask
    PROVE  /\ MeiliTypeOK' /\ QueueInv'
           /\ \A c \in Clients :
                  /\ \A op, docs : Owes(c, op, docs) => Owes(c, op, docs)'
                  /\ answers[c] # "enqueued" => answers'[c] = answers[c]
                  /\ answers[c] = "succeeded" => Untouched(c)
                  /\ answers[c] = "enqueued" /\ answers'[c] = "succeeded" =>
                         \E i \in DOMAIN tasks : tasks[i].by = c /\ Apply(tasks[i])
<1> DEFINE task == Head(tasks)
<1>1. /\ tasks \in Seq(Tasks) /\ tasks # <<>> /\ Len(tasks) \in Nat /\ Len(tasks) # 0
      /\ Len(tasks) <= MaxTasks /\ DOMAIN tasks = 1 .. Len(tasks)
      /\ answers \in [Clients -> {"none", "enqueued", "succeeded", "failed"}]
      /\ touched \in [Clients -> SUBSET Properties]
      /\ index \in Documents /\ index_exists \in BOOLEAN
  BY LenProperties, EmptySeq DEF MeiliTypeOK, ProcessTask
<1>2. /\ task = tasks[1] /\ 1 \in DOMAIN tasks /\ task \in Tasks
      /\ tasks' \in Seq(Tasks) /\ Len(tasks') = Len(tasks) - 1
      /\ DOMAIN tasks' = 1 .. Len(tasks) - 1
      /\ \A i \in 1 .. Len(tasks) - 1 : tasks'[i] = tasks[i + 1]
  <2>1. tasks' = Tail(tasks)
    BY DEF ProcessTask
  <2> QED  BY <1>1, <2>1, HeadTailProperties, LenProperties
<1>3. /\ task.by \in Clients \cup {None} /\ DOMAIN task.docs \subseteq Properties
      /\ task.op = "add" => task.docs \in Documents
  BY <1>2 DEF Tasks, QueueInv
<1>4. PICK answer \in {"succeeded", "failed"} :
          /\ answers' = [c \in Clients |-> IF c = task.by THEN answer ELSE answers[c]]
          /\ answer = "succeeded" => Apply(task)
          /\ answer = "failed" => UNCHANGED <<index, index_exists>>
  BY DEF ProcessTask
<1> HIDE DEF task
<1>5. /\ index' \in Documents /\ index_exists' \in BOOLEAN
      /\ touched' = touched
  <2>1. CASE answer = "succeeded"
    BY <1>2, <1>3, <1>4, <2>1, ApplyEffect DEF ProcessTask
  <2>2. CASE answer = "failed"
    BY <1>1, <1>4, <2>2 DEF Documents, ProcessTask
  <2> QED  BY <2>1, <2>2
<1>6. MeiliTypeOK'
  <2>1. Len(tasks') <= MaxTasks
    BY <1>1, <1>2
  <2>2. answers' \in [Clients -> {"none", "enqueued", "succeeded", "failed"}]
    BY <1>1, <1>4
  <2> QED  BY <1>1, <1>2, <1>5, <2>1, <2>2 DEF MeiliTypeOK, Documents
<1>7. \A i \in DOMAIN tasks' : i + 1 \in DOMAIN tasks /\ i + 1 # 1 /\ tasks'[i] = tasks[i + 1]
  BY <1>1, <1>2
<1>8. QueueInv'
  <2>1. ASSUME NEW i \in DOMAIN tasks', tasks'[i].by # None
        PROVE  answers'[tasks'[i].by] = "enqueued"
    <3>1. i + 1 \in DOMAIN tasks /\ tasks[i + 1].by # None /\ i + 1 # 1
      BY <1>7, <2>1
    <3>2. tasks[i + 1].by \in Clients /\ answers[tasks[i + 1].by] = "enqueued"
      BY <3>1, TaskFields DEF QueueInv, Attended
    <3>3. tasks[i + 1].by # task.by
      BY <1>2, <3>1 DEF QueueInv, Attended
    <3> QED  BY <1>4, <1>7, <3>2, <3>3
  <2>2. ASSUME NEW i \in DOMAIN tasks', NEW j \in DOMAIN tasks',
               tasks'[i].by # None, tasks'[i].by = tasks'[j].by
        PROVE  i = j
    <3>1. i + 1 = j + 1
      BY <1>7, <2>2 DEF QueueInv, Attended
    <3> QED  BY <1>2, <3>1
  <2>3. ASSUME NEW i \in DOMAIN tasks', tasks'[i].op = "add"
        PROVE  tasks'[i].docs \in Documents
    BY <1>7, <2>3 DEF QueueInv
  <2>4. ASSUME NEW i \in DOMAIN tasks', NEW j \in DOMAIN tasks', tasks'[i].by # None, i < j
        PROVE  DOMAIN tasks'[j].docs \subseteq touched'[tasks'[i].by]
    <3>1. i + 1 < j + 1
      BY <1>2, <2>4
    <3> QED  BY <1>5, <1>7, <2>4, <3>1 DEF QueueInv, Attended
  <2>5. ASSUME NEW c \in Clients, answers'[c] = "succeeded", NEW i \in DOMAIN tasks'
        PROVE  DOMAIN tasks'[i].docs \subseteq touched'[c]
    <3>1. i + 1 \in DOMAIN tasks /\ 1 < i + 1 /\ tasks'[i] = tasks[i + 1]
      BY <1>2, <1>7
    <3>2. CASE c = task.by
      BY <1>2, <1>5, <3>1, <3>2 DEF QueueInv, Attended
    <3>3. CASE c # task.by
      BY <1>4, <1>5, <2>5, <3>1, <3>3 DEF QueueInv
    <3> QED  BY <3>2, <3>3
  <2> QED  BY <2>1, <2>2, <2>3, <2>4, <2>5 DEF QueueInv, Attended, Documents
<1>9. ASSUME NEW c \in Clients
      PROVE  /\ \A op, docs : Owes(c, op, docs) => Owes(c, op, docs)'
             /\ answers[c] # "enqueued" => answers'[c] = answers[c]
             /\ answers[c] = "succeeded" => Untouched(c)
             /\ answers[c] = "enqueued" /\ answers'[c] = "succeeded" =>
                    \E i \in DOMAIN tasks : tasks[i].by = c /\ Apply(tasks[i])
  <2>1. ASSUME NEW op, NEW docs, Owes(c, op, docs)
        PROVE  Owes(c, op, docs)'
    BY <1>7, <2>1 DEF Owes
  <2>2. answers[c] # "enqueued" => c # task.by
    BY <1>2, <1>9 DEF QueueInv, Attended
  <2>3. answers[c] # "enqueued" => answers'[c] = answers[c]
    BY <1>4, <2>2
  <2>4. ASSUME answers[c] = "succeeded"
        PROVE  Untouched(c)
    <3>1. CASE answer = "succeeded"
      <4>1. DOMAIN task.docs \subseteq touched[c]
        BY <1>2, <2>4 DEF QueueInv
      <4>2. \A p \in Properties \ DOMAIN task.docs :
               /\ p \in DOMAIN index' <=> p \in DOMAIN index
               /\ p \in DOMAIN index => index'[p] = index[p]
        BY <1>2, <1>3, <1>4, <3>1, ApplyEffect
      <4> QED  BY <1>5, <4>1, <4>2 DEF Untouched
    <3>2. CASE answer = "failed"
      BY <1>4, <1>5, <3>2 DEF Untouched
    <3> QED  BY <3>1, <3>2
  <2>5. answers[c] = "enqueued" /\ answers'[c] = "succeeded" =>
            \E i \in DOMAIN tasks : tasks[i].by = c /\ Apply(tasks[i])
    BY <1>2, <1>4
  <2> QED  BY <2>1, <2>3, <2>4, <2>5
<1> QED  BY <1>6, <1>8, <1>9
-----------------------------------------------------------------------------
(* The jobs.                                                               *)

Written ==
    \A p \in DOMAIN sync.documents \ touched["sync"] :
        p \in DOMAIN index /\ index[p] = sync.documents[p]

Gone == \A p \in daily.ids \ touched["daily"] : p \notin DOMAIN index

\* The sync waits for the task it has asked for, and is done when that task is.
SyncInv ==
    /\ sync.pc \notin {"create_wait", "settings_wait", "add_wait"} => answers["sync"] # "enqueued"
    /\ sync.pc = "add_wait" => Owes("sync", "add", sync.documents)
    /\ sync.pc = "add_wait" /\ answers["sync"] = "succeeded" => Written
    /\ sync.pc = "done" =>
           DOMAIN sync.documents = {} \/ (answers["sync"] = "succeeded" /\ Written)

\* The daily job does so with its deletions.
DailyInv ==
    /\ daily.pc # "delete_wait" => answers["daily"] # "enqueued"
    /\ daily.pc = "delete_wait" => Owes("daily", "delete", [p \in daily.ids |-> None])
    /\ daily.pc = "delete_wait" /\ answers["daily"] = "succeeded" => Gone
    /\ daily.pc = "finish" => daily.ids = {} \/ (answers["daily"] = "succeeded" /\ Gone)

\* features hold the active properties that have not been edited since, with
\* their columns.
Covers(features, p) ==
    /\ p \in DOMAIN features <=> properties[p].is_active
    /\ p \in DOMAIN features => features[p].content = properties[p].content

\* What the daily job has done to its features, and what it has committed.
FeaturesInv ==
    /\ daily.pc = "remove" =>
           \A p \in Active \ edited :
               p \in DOMAIN daily.features /\ daily.features[p].content = properties[p].content
    /\ daily.pc = "commit" => \A p \in Properties \ edited : Covers(daily.features, p)
    /\ daily.pc \in {"select", "delete", "delete_wait", "finish"} \/ batch_job_logs = "success" =>
           \A p \in Properties \ edited : Covers(property_features, p)
    /\ daily.pc \notin {"idle", "failed"} => batch_job_logs = "running"

\* The rates it has copied are those of the rows it holds.
RatesInv ==
    /\ daily.pc = "remove" =>
           \A p \in (Active \cap daily.recalculated) \ edited :
               daily.features[p].rate = StatsSeen[p].rate
    /\ RatesHeld

IInv == TypeOK /\ QueueInv /\ SyncInv /\ DailyInv /\ FeaturesInv /\ RatesInv
-----------------------------------------------------------------------------
(* What a step leaves alone stays as it is.                                *)

\* A step that is not about c: c's answer, its task and the index remain.
Apart(c) ==
    /\ answers'[c] = answers[c] /\ touched[c] \subseteq touched'[c] /\ index' = index
    /\ \A op, docs : Owes(c, op, docs) => Owes(c, op, docs)'

LEMMA SyncUnmoved ==
    ASSUME SyncInv, Apart("sync"), sync' = sync
    PROVE  SyncInv'
<1>1. Owes("sync", "add", sync.documents) => Owes("sync", "add", sync.documents)'
  BY DEF Apart
<1> QED  BY <1>1 DEF SyncInv, Apart, Written, Owes

LEMMA DailyUnmoved ==
    ASSUME DailyInv, Apart("daily"), daily' = daily
    PROVE  DailyInv'
<1>1. Owes("daily", "delete", [p \in daily.ids |-> None])
          => Owes("daily", "delete", [p \in daily.ids |-> None])'
  BY DEF Apart
<1> QED  BY <1>1 DEF DailyInv, Apart, Gone, Owes

LEMMA FeaturesUnmoved ==
    ASSUME FeaturesInv, RatesInv, UNCHANGED <<tables, catalog, daily>>
    PROVE  FeaturesInv' /\ RatesInv'
BY DEF FeaturesInv, RatesInv, RatesHeld, StatsSeen, Active, Covers, tables, catalog

LEMMA MeiliUnmoved ==
    ASSUME MeiliTypeOK, QueueInv, UNCHANGED meili
    PROVE  /\ MeiliTypeOK' /\ QueueInv'
           /\ \A c \in Clients : Apart(c)
<1>1. MeiliTypeOK' /\ QueueInv'
  BY DEF MeiliTypeOK, QueueInv, Attended, meili, Tasks, Documents
<1>2. \A c \in Clients : Apart(c)
  BY DEF Apart, Owes, meili
<1> QED  BY <1>1, <1>2

\* The type invariant without the queue and the jobs.
TablesOK ==
    /\ properties \in [Properties -> [is_active : BOOLEAN, content : Contents]]
    /\ edits \in 0 .. MaxEdits
    /\ DOMAIN property_stats \subseteq Properties
    /\ property_stats \in [DOMAIN property_stats -> StatsRows]
    /\ IsFeatureTable(property_features)
    /\ batch_job_logs \in {None, "running", "success", "failed"}
    /\ edited \subseteq Properties

SyncOK == sync \in [pc : SyncPhases, documents : Documents]

DailyOK ==
    /\ daily = [pc |-> daily.pc, recalculated |-> daily.recalculated,
                features |-> daily.features, ids |-> daily.ids]
    /\ daily.pc \in DailyPhases
    /\ daily.recalculated \subseteq DOMAIN property_stats
    /\ daily.ids \subseteq Properties
    /\ IsFeatureTable(daily.features)

LEMMA TypeParts == TypeOK <=> MeiliTypeOK /\ TablesOK /\ SyncOK /\ DailyOK
BY DEF TypeOK, TablesOK, SyncOK, DailyOK

LEMMA TablesUnmoved ==
    ASSUME TablesOK, DailyOK, UNCHANGED <<tables, catalog>>
    PROVE  TablesOK' /\ (daily' = daily => DailyOK')
BY DEF TablesOK, DailyOK, tables, catalog, IsFeatureTable, Features, StatsRows, DailyPhases

LEMMA NoDocumentsTyped == NoDocuments \in Documents /\ DOMAIN NoDocuments = {}
BY DocumentsAreFunctions DEF NoDocuments

LEMMA NoSyncTyped ==
    /\ NoSync \in [pc : SyncPhases, documents : Documents]
    /\ NoSync.pc = "idle"
BY NoDocumentsTyped DEF NoSync, SyncPhases

\* A step of the sync, as far as it is not the sync's own.
LEMMA SyncFrame ==
    ASSUME IInv, MeiliTypeOK', QueueInv', SyncOK', SyncInv', Apart("daily"),
           UNCHANGED <<tables, catalog, daily>>
    PROVE  IInv'
<1>1. DailyInv' /\ FeaturesInv' /\ RatesInv'
  BY DailyUnmoved, FeaturesUnmoved DEF IInv
<1>2. TablesOK' /\ DailyOK'
  BY TypeParts, TablesUnmoved DEF IInv
<1>3. TypeOK'
  BY <1>2 DEF TypeOK, TablesOK, SyncOK, DailyOK
<1> QED  BY <1>1, <1>3 DEF IInv

LEMMA DistinctClients == /\ "sync" \in Clients /\ "daily" \in Clients
                         /\ None \notin Clients /\ None # "success"
                         /\ MaxTasks \in Nat /\ MaxEdits \in Nat
BY CatalogConstants

LEMMA SyncRequestKeeps ==
    ASSUME IInv, NEW op \in {"create", "settings", "add"}, NEW docs \in Documents,
           NEW next \in {"create_wait", "settings_wait", "add_wait"},
           next = "add_wait" => op = "add" /\ docs = sync.documents,
           SyncRequest(op, docs, next)
    PROVE  IInv'
<1>1. /\ MeiliTypeOK /\ QueueInv /\ SyncOK /\ sync.pc = op
      /\ UNCHANGED <<tables, catalog, daily>>
  BY TypeParts DEF IInv, SyncRequest
<1>2. /\ answers["sync"] # "enqueued"
      /\ DOMAIN docs \in SUBSET Properties /\ docs \in [DOMAIN docs -> Contents \cup {None}]
  BY <1>1, DocumentsAreFunctions DEF IInv, SyncInv
<1>3. CASE Submit("sync", op, docs) /\ SyncGoto(next)
  <2>1. /\ MeiliTypeOK' /\ QueueInv' /\ Others("sync")
        /\ Owes("sync", op, docs)' /\ answers'["sync"] = "enqueued" /\ index' = index
    BY <1>1, <1>2, <1>3, DistinctClients, SubmitKeeps
  <2>2. Apart("daily")
    BY <2>1, DistinctClients DEF Others, Apart
  <2>3. sync' = [sync EXCEPT !.pc = next]
    BY <1>3 DEF SyncGoto
  <2>4. SyncOK' /\ sync'.pc = next /\ sync'.documents = sync.documents
    BY <1>1, <2>3 DEF SyncOK, SyncPhases, Documents
  <2>5. next = "add_wait" => Owes("sync", "add", sync.documents)'
    BY <2>1, <2>4 DEF Owes
  <2>6. SyncInv'
    BY <2>1, <2>4, <2>5 DEF SyncInv, Owes
  <2> QED  BY <1>1, <2>1, <2>2, <2>4, <2>6, SyncFrame
<1>4. CASE SubmitLost("sync", op, docs) /\ sync' = NoSync
  <2>1. /\ MeiliTypeOK' /\ QueueInv' /\ Others("sync")
        /\ answers'["sync"] = "none" /\ index' = index
    BY <1>1, <1>2, <1>4, DistinctClients, SubmitLostKeeps
  <2>2. Apart("daily")
    BY <2>1, DistinctClients DEF Others, Apart
  <2>3. SyncOK' /\ sync'.pc = "idle"
    BY <1>4, NoSyncTyped DEF SyncOK, SyncPhases, Documents
  <2>4. SyncInv'
    BY <2>1, <2>3 DEF SyncInv
  <2> QED  BY <1>1, <2>1, <2>2, <2>3, <2>4, SyncFrame
<1> QED  BY <1>3, <1>4 DEF SyncRequest

LEMMA SyncWaitedKeeps ==
    ASSUME IInv, NEW phase \in {"create_wait", "settings_wait", "add_wait"},
           NEW next \in {"settings", "fetch", "done"}, next = "done" <=> phase = "add_wait",
           SyncWaited(phase, next)
    PROVE  IInv'
<1>1. /\ MeiliTypeOK /\ QueueInv /\ SyncOK /\ sync.pc = phase
      /\ UNCHANGED <<meili, tables, catalog, daily>>
      /\ answers["sync"] = "succeeded" /\ sync' = [sync EXCEPT !.pc = next]
  BY TypeParts DEF IInv, SyncWaited, Succeeded, SyncGoto
<1>2. MeiliTypeOK' /\ QueueInv' /\ Apart("daily") /\ Apart("sync")
  BY <1>1, MeiliUnmoved, DistinctClients
<1>3. SyncOK' /\ sync'.pc = next /\ sync'.documents = sync.documents
  BY <1>1 DEF SyncOK, SyncPhases, Documents
<1>4. phase = "add_wait" => Written
  BY <1>1 DEF IInv, SyncInv
<1>5. SyncInv'
  BY <1>1, <1>2, <1>3, <1>4 DEF SyncInv, Written, Apart
<1> QED  BY <1>1, <1>2, <1>3, <1>5, SyncFrame

LEMMA SyncFetchKeeps ==
    ASSUME IInv, SyncFetch
    PROVE  IInv'
<1>1. /\ MeiliTypeOK /\ QueueInv /\ TablesOK /\ sync.pc = "fetch"
      /\ UNCHANGED <<meili, tables, catalog, daily>>
      /\ sync' = [pc |-> IF FetchActive = NoDocuments THEN "done" ELSE "add",
                  documents |-> FetchActive]
  BY TypeParts DEF IInv, SyncFetch
<1>2. MeiliTypeOK' /\ QueueInv' /\ Apart("daily") /\ Apart("sync")
  BY <1>1, MeiliUnmoved, DistinctClients
<1>3. FetchActive \in Documents
  BY <1>1, DocumentsAreFunctions DEF FetchActive, Active, TablesOK
<1>4. SyncOK'
  BY <1>1, <1>3 DEF SyncOK, SyncPhases, Documents
<1>5. answers'["sync"] # "enqueued"
  BY <1>1, <1>2 DEF IInv, SyncInv, Apart
<1>6. /\ sync'.pc \in {"done", "add"}
      /\ sync'.pc = "done" => sync'.documents = NoDocuments
  BY <1>1
<1>7. SyncInv'
  BY <1>5, <1>6, NoDocumentsTyped DEF SyncInv
<1> QED  BY <1>1, <1>2, <1>4, <1>7, SyncFrame

LEMMA SyncEndKeeps ==
    ASSUME IInv, SyncEnd
    PROVE  IInv'
<1>1. /\ MeiliTypeOK /\ QueueInv /\ Forget("sync") /\ sync' = NoSync
      /\ UNCHANGED <<tables, catalog, daily>>
  BY TypeParts DEF IInv, SyncEnd
<1>2. /\ MeiliTypeOK' /\ QueueInv' /\ Others("sync")
      /\ answers'["sync"] = "none" /\ index' = index
  BY <1>1, DistinctClients, ForgetKeeps
<1>3. Apart("daily")
  BY <1>2, DistinctClients DEF Others, Apart
<1>4. SyncOK' /\ sync'.pc = "idle"
  BY <1>1, NoSyncTyped DEF SyncOK, SyncPhases, Documents
<1>5. SyncInv'
  BY <1>2, <1>4 DEF SyncInv
<1> QED  BY <1>1, <1>2, <1>3, <1>4, <1>5, SyncFrame

LEMMA SyncBeginKeeps ==
    ASSUME IInv, SyncBegin
    PROVE  IInv'
<1>1. /\ MeiliTypeOK /\ QueueInv /\ SyncOK /\ sync.pc = "idle"
      /\ UNCHANGED <<meili, tables, catalog, daily>>
      /\ sync' = [sync EXCEPT !.pc = IF index_exists THEN "settings" ELSE "create"]
  BY TypeParts DEF IInv, SyncBegin, SyncGoto
<1>2. MeiliTypeOK' /\ QueueInv' /\ Apart("daily") /\ Apart("sync")
  BY <1>1, MeiliUnmoved, DistinctClients
<1>3. SyncOK' /\ sync'.pc \in {"settings", "create"}
  BY <1>1 DEF SyncOK, SyncPhases, Documents
<1>4. SyncInv'
  BY <1>1, <1>2, <1>3 DEF IInv, SyncInv, Apart
<1> QED  BY <1>1, <1>2, <1>3, <1>4, SyncFrame

LEMMA SyncKeeps ==
    ASSUME IInv, Sync
    PROVE  IInv'
<1>1. sync.documents \in Documents
  BY TypeParts DEF IInv, SyncOK
<1>2. CASE SyncRequest("create", NoDocuments, "create_wait")
  BY <1>2, NoDocumentsTyped, SyncRequestKeeps
<1>3. CASE SyncWaited("create_wait", "settings")
  BY <1>3, SyncWaitedKeeps
<1>4. CASE SyncRequest("settings", NoDocuments, "settings_wait")
  BY <1>4, NoDocumentsTyped, SyncRequestKeeps
<1>5. CASE SyncWaited("settings_wait", "fetch")
  BY <1>5, SyncWaitedKeeps
<1>6. CASE SyncRequest("add", sync.documents, "add_wait")
  BY <1>1, <1>6, SyncRequestKeeps
<1>7. CASE SyncWaited("add_wait", "done")
  BY <1>7, SyncWaitedKeeps
<1> QED  BY <1>2, <1>3, <1>4, <1>5, <1>6, <1>7, SyncFetchKeeps, SyncEndKeeps DEF Sync
-----------------------------------------------------------------------------
(* Meilisearch.                                                            *)

LEMMA MeilisearchKeeps ==
    ASSUME IInv, Meilisearch
    PROVE  IInv'
<1>1. /\ MeiliTypeOK /\ QueueInv /\ SyncOK /\ TablesOK /\ DailyOK /\ ProcessTask
      /\ sync' = sync /\ daily' = daily /\ UNCHANGED <<tables, catalog>>
  BY TypeParts DEF IInv, Meilisearch
<1>2. /\ MeiliTypeOK' /\ QueueInv'
      /\ \A c \in Clients :
             /\ \A op, docs : Owes(c, op, docs) => Owes(c, op, docs)'
             /\ answers[c] # "enqueued" => answers'[c] = answers[c]
             /\ answers[c] = "succeeded" => Untouched(c)
             /\ answers[c] = "enqueued" /\ answers'[c] = "succeeded" =>
                    \E i \in DOMAIN tasks : tasks[i].by = c /\ Apply(tasks[i])
  BY <1>1, DistinctClients, ProcessKeeps
<1>3. FeaturesInv' /\ RatesInv' /\ TablesOK' /\ DailyOK' /\ SyncOK'
  BY <1>1, FeaturesUnmoved, TablesUnmoved DEF IInv, SyncOK, Documents
<1>4. ASSUME NEW c \in Clients, answers[c] # "succeeded", answers'[c] = "succeeded"
      PROVE  \E i \in DOMAIN tasks : tasks[i].by = c /\ Apply(tasks[i])
  BY <1>2, <1>4
<1>5. \A i \in DOMAIN tasks : tasks[i] \in Tasks /\ (tasks[i].op = "add" => tasks[i].docs \in Documents)
  BY <1>1, TaskFields DEF QueueInv
<1>6. SyncInv'
  <2>1. sync.documents \in Documents /\ DOMAIN sync.documents \subseteq Properties
    BY <1>1, DocumentsAreFunctions DEF SyncOK
  <2>2. answers["sync"] = "succeeded" /\ Written => Written'
    BY <1>1, <1>2, <2>1, DistinctClients DEF Written, Untouched
  <2>3. sync.pc = "add_wait" => Owes("sync", "add", sync.documents)'
    BY <1>1, <1>2, DistinctClients DEF IInv, SyncInv
  <2>4. ASSUME sync.pc = "add_wait", answers'["sync"] = "succeeded"
        PROVE  Written'
    <3>1. CASE answers["sync"] = "succeeded"
      BY <2>2, <2>4, <3>1 DEF IInv, SyncInv
    <3>2. CASE answers["sync"] # "succeeded"
      <4>1. PICK i \in DOMAIN tasks : tasks[i].by = "sync" /\ Apply(tasks[i])
        BY <1>4, <2>4, <3>2, DistinctClients
      <4>2. tasks[i].op = "add" /\ tasks[i].docs = sync.documents
        BY <2>4, <4>1 DEF IInv, SyncInv, Owes
      <4>3. \A p \in DOMAIN sync.documents : p \in DOMAIN index' /\ index'[p] = sync.documents[p]
        BY <1>1, <1>5, <4>1, <4>2, ApplyEffect
      <4> QED  BY <1>1, <4>3 DEF Written
    <3> QED  BY <3>1, <3>2
  <2>5. sync.pc \notin {"create_wait", "settings_wait", "add_wait"} => answers'["sync"] # "enqueued"
    BY <1>2, DistinctClients DEF IInv, SyncInv
  <2>6. sync.pc = "done" =>
            DOMAIN sync.documents = {} \/ (answers'["sync"] = "succeeded" /\ Written')
    BY <1>2, <2>2, DistinctClients DEF IInv, SyncInv
  <2> QED  BY <1>1, <2>3, <2>4, <2>5, <2>6 DEF SyncInv, Owes
<1>7. DailyInv'
  <2>1. answers["daily"] = "succeeded" /\ Gone => Gone'
    BY <1>1, <1>2, DistinctClients DEF Gone, Untouched, DailyOK
  <2>2. daily.pc = "delete_wait" => Owes("daily", "delete", [p \in daily.ids |-> None])'
    BY <1>1, <1>2, DistinctClients DEF IInv, DailyInv
  <2>3. ASSUME daily.pc = "delete_wait", answers'["daily"] = "succeeded"
        PROVE  Gone'
    <3>1. CASE answers["daily"] = "succeeded"
      BY <2>1, <2>3, <3>1 DEF IInv, DailyInv
    <3>2. CASE answers["daily"] # "succeeded"
      <4>1. PICK i \in DOMAIN tasks : tasks[i].by = "daily" /\ Apply(tasks[i])
        BY <1>4, <2>3, <3>2, DistinctClients
      <4>2. tasks[i].op = "delete" /\ tasks[i].docs = [p \in daily.ids |-> None]
        BY <2>3, <4>1 DEF IInv, DailyInv, Owes
      <4>3. \A p \in daily.ids : p \notin DOMAIN index'
        BY <1>1, <1>5, <4>1, <4>2, ApplyEffect
      <4> QED  BY <1>1, <4>3 DEF Gone
    <3> QED  BY <3>1, <3>2
  <2>4. daily.pc # "delete_wait" => answers'["daily"] # "enqueued"
    BY <1>2, DistinctClients DEF IInv, DailyInv
  <2>5. daily.pc = "finish" => daily.ids = {} \/ (answers'["daily"] = "succeeded" /\ Gone')
    BY <1>2, <2>1, DistinctClients DEF IInv, DailyInv
  <2> QED  BY <1>1, <2>2, <2>3, <2>4, <2>5 DEF DailyInv, Owes
<1>8. TypeOK'
  BY <1>2, <1>3 DEF TypeOK, TablesOK, SyncOK, DailyOK
<1> QED  BY <1>2, <1>3, <1>6, <1>7, <1>8 DEF IInv
-----------------------------------------------------------------------------
(* Rows.                                                                   *)

LEMMA RateType ==
    ASSUME NEW n \in Nat, NEW i \in Nat
    PROVE  Rate(n, i) \in Nat \X (Nat \ {0})
BY DEF Rate, Zero

LEMMA ImpressedType ==
    ASSUME NEW row \in StatsRows
    PROVE  ImpressedRow(row) \in StatsRows
<1> DEFINE rate == [a \in Actions |-> Rate(row.count[a], row.impression + 1)]
<1>1. row.impression + 1 \in Nat /\ row.count \in [Actions -> Nat]
  BY DEF StatsRows
<1>2. rate \in [Actions -> Nat \X (Nat \ {0})]
  BY <1>1, RateType
<1>3. ImpressedRow(row) = [impression |-> row.impression + 1, count |-> row.count, rate |-> rate]
  BY DEF ImpressedRow
<1> HIDE DEF rate
<1> QED  BY <1>1, <1>2, <1>3 DEF StatsRows

LEMMA ActedType ==
    ASSUME NEW row \in StatsRows, NEW action \in Actions
    PROVE  ActedRow(row, action) \in StatsRows
<1> DEFINE count == [row.count EXCEPT ![action] = @ + 1]
<1>1. count \in [Actions -> Nat] /\ row.impression \in Nat
  BY DEF StatsRows
<1>2. ActedRow(row, action) = [impression |-> row.impression, count |-> count,
                               rate |-> [a \in Actions |-> Rate(count[a], row.impression)]]
  BY DEF ActedRow
<1> HIDE DEF count
<1> DEFINE rate == [a \in Actions |-> Rate(count[a], row.impression)]
<1>3. rate \in [Actions -> Nat \X (Nat \ {0})]
  BY <1>1, RateType
<1>4. ActedRow(row, action) = [impression |-> row.impression, count |-> count, rate |-> rate]
  BY <1>2
<1> HIDE DEF rate
<1> QED  BY <1>1, <1>3, <1>4 DEF StatsRows

LEMMA RecalculatedType ==
    ASSUME NEW row \in StatsRows
    PROVE  RecalculatedRow(row) \in StatsRows
BY RateType DEF RecalculatedRow, StatsRows

LEMMA StatsSeenTyped ==
    ASSUME TablesOK
    PROVE  /\ DOMAIN StatsSeen = DOMAIN property_stats
           /\ StatsSeen \in [DOMAIN property_stats -> StatsRows]
           /\ \A p : RowOf(StatsSeen, p) \in StatsRows /\ RowOf(property_stats, p) \in StatsRows
<1>1. NoStats \in StatsRows
  BY DEF NoStats, StatsRows, Zero
<1>2. StatsSeen \in [DOMAIN property_stats -> StatsRows]
  BY RecalculatedType DEF TablesOK, StatsSeen
<1> QED  BY <1>1, <1>2 DEF RowOf, TablesOK
-----------------------------------------------------------------------------
(* Edits and the API.                                                      *)

\* A step that is not the sync's.
LEMMA OtherFrame ==
    ASSUME IInv, MeiliTypeOK', QueueInv', Apart("sync"), sync' = sync,
           TablesOK', DailyOK', DailyInv', FeaturesInv', RatesInv'
    PROVE  IInv'
<1>1. SyncInv' /\ SyncOK'
  BY SyncUnmoved, TypeParts DEF IInv, SyncOK, Documents
<1>2. TypeOK'
  BY <1>1 DEF TypeOK, TablesOK, SyncOK, DailyOK
<1> QED  BY <1>1, <1>2 DEF IInv

LEMMA EditKeeps ==
    ASSUME IInv, NEW p \in Properties, Edit(p)
    PROVE  IInv'
<1>1. /\ MeiliTypeOK /\ QueueInv /\ TablesOK /\ DailyOK
      /\ sync' = sync /\ daily' = daily /\ UNCHANGED <<meili, tables>>
      /\ edits < MaxEdits /\ edits' = edits + 1
      /\ edited' = edited \cup {p}
  BY TypeParts DEF IInv, Edit
<1>2. PICK row \in [is_active : BOOLEAN, content : Contents] :
          properties' = [properties EXCEPT ![p] = row]
  BY DEF Edit
<1>3. MeiliTypeOK' /\ QueueInv' /\ Apart("sync") /\ Apart("daily")
  BY <1>1, MeiliUnmoved, DistinctClients
<1>4. properties' \in [Properties -> [is_active : BOOLEAN, content : Contents]]
  BY <1>1, <1>2 DEF TablesOK
<1>5. edits' \in 0 .. MaxEdits
  BY <1>1, DistinctClients DEF TablesOK
<1>6. TablesOK' /\ DailyOK'
  BY <1>1, <1>4, <1>5 DEF TablesOK, DailyOK, tables, IsFeatureTable, Features, StatsRows, DailyPhases
<1>7. DailyInv'
  BY <1>1, <1>3, DailyUnmoved DEF IInv
<1>8. \A q \in Properties \ edited' :
          q \in Properties \ edited /\ properties'[q] = properties[q]
  BY <1>1, <1>2 DEF TablesOK
<1>9. \A features : \A q \in Properties \ edited' :
          Covers(features, q) => Covers(features, q)'
  BY <1>8 DEF Covers
<1>10. Active' \ edited' \subseteq Active \ edited
  BY <1>8 DEF Active
<1>11. FeaturesInv'
  <2>1. ASSUME daily.pc = "remove", NEW q \in Active' \ edited'
        PROVE  q \in DOMAIN daily.features /\ daily.features[q].content = properties'[q].content
    BY <1>8, <1>10, <2>1 DEF IInv, FeaturesInv, Active
  <2>2. daily.pc = "commit" => \A q \in Properties \ edited' : Covers(daily.features, q)'
    BY <1>1, <1>8, <1>9 DEF IInv, FeaturesInv, Covers
  <2>3. daily.pc \in {"select", "delete", "delete_wait", "finish"} \/ batch_job_logs = "success" =>
            \A q \in Properties \ edited' : Covers(property_features, q)'
    BY <1>1, <1>8 DEF IInv, FeaturesInv, Covers, tables
  <2>4. daily.pc \notin {"idle", "failed"} => batch_job_logs = "running"
    BY DEF IInv, FeaturesInv
  <2> QED  BY <1>1, <2>1, <2>2, <2>3, <2>4 DEF FeaturesInv, tables, Covers
<1>12. StatsSeen' = StatsSeen
  BY <1>1 DEF StatsSeen, tables
<1>13. RatesInv'
  BY <1>1, <1>8, <1>10, <1>12 DEF IInv, RatesInv, RatesHeld
<1> QED  BY <1>1, <1>3, <1>6, <1>7, <1>11, <1>13, OtherFrame

LEMMA ServeKeeps ==
    ASSUME IInv, NEW p \in Properties, Serve(p)
    PROVE  IInv'
<1>1. /\ MeiliTypeOK /\ QueueInv /\ TablesOK /\ DailyOK /\ p \notin Locked
      /\ sync' = sync /\ daily' = daily
      /\ UNCHANGED <<meili, catalog, property_features, batch_job_logs>>
  BY TypeParts DEF IInv, Serve
<1>2. MeiliTypeOK' /\ QueueInv' /\ Apart("sync") /\ Apart("daily")
  BY <1>1, MeiliUnmoved, DistinctClients
<1>3. PICK row \in StatsRows :
          property_stats' = [q \in DOMAIN property_stats \cup {p} |->
                                IF q = p THEN row ELSE property_stats[q]]
  <2>1. RowOf(property_stats, p) \in StatsRows
    BY <1>1, StatsSeenTyped
  <2>2. CASE property_stats' = Impress(property_stats, {p})
    BY <2>1, <2>2, ImpressedType DEF Impress
  <2>3. ASSUME NEW a \in Actions, property_stats' = Act(property_stats, p, a)
        PROVE  \E row \in StatsRows :
                   property_stats' = [q \in DOMAIN property_stats \cup {p} |->
                                         IF q = p THEN row ELSE property_stats[q]]
    BY <2>1, <2>3, ActedType DEF Act
  <2> QED  BY <2>2, <2>3 DEF Serve
<1>4. /\ DOMAIN property_stats' \subseteq Properties
      /\ property_stats' \in [DOMAIN property_stats' -> StatsRows]
      /\ DOMAIN property_stats \subseteq DOMAIN property_stats'
      /\ \A q \in DOMAIN property_stats \ {p} : property_stats'[q] = property_stats[q]
  BY <1>1, <1>3 DEF TablesOK
<1>5. TablesOK' /\ DailyOK'
  BY <1>1, <1>4 DEF TablesOK, DailyOK, catalog, IsFeatureTable, Features, StatsRows, DailyPhases
<1>6. DailyInv' /\ FeaturesInv'
  BY <1>1, <1>2, DailyUnmoved DEF IInv, FeaturesInv, Covers, Active, catalog
<1>7. RatesInv'
  <2>1. ASSUME daily.pc \in {"remove", "commit"}, NEW q \in daily.recalculated
        PROVE  StatsSeen'[q] = StatsSeen[q]
    <3>1. q # p /\ q \in DOMAIN property_stats
      BY <1>1, <2>1 DEF Locked, DailyOK
    <3> QED  BY <1>1, <1>4, <3>1 DEF StatsSeen
  <2>2. Active' = Active /\ edited' = edited
    BY <1>1 DEF Active, catalog
  <2> QED  BY <1>1, <2>1, <2>2 DEF IInv, RatesInv, RatesHeld
<1> QED  BY <1>1, <1>2, <1>5, <1>6, <1>7, OtherFrame
-----------------------------------------------------------------------------
(* The daily job.                                                          *)

LEMMA NoDailyTyped ==
    /\ NoDaily.pc = "idle" /\ NoDaily.recalculated = {} /\ NoDaily.ids = {}
    /\ IsFeatureTable(NoDaily.features)
BY DEF NoDaily, NoFeatures, IsFeatureTable

\* The job at another place, with nothing of its transaction left.
LEMMA DailyReset ==
    ASSUME NEW phase \in DailyPhases, daily' = [NoDaily EXCEPT !.pc = phase]
    PROVE  DailyOK' /\ daily'.pc = phase /\ daily'.ids = {}
<1>1. /\ daily' = [pc |-> phase, recalculated |-> {}, features |-> NoDaily.features, ids |-> {}]
      /\ IsFeatureTable(NoDaily.features)
  BY NoDailyTyped DEF NoDaily
<1>2. /\ daily'.pc = phase /\ daily'.recalculated = {} /\ daily'.ids = {}
      /\ daily'.features = NoDaily.features
  BY <1>1
<1>3. daily' = [pc |-> daily'.pc, recalculated |-> daily'.recalculated,
                features |-> daily'.features, ids |-> daily'.ids]
  BY <1>1, <1>2
<1>4. IsFeatureTable(daily.features)'
  BY <1>1, <1>2 DEF IsFeatureTable, Features
<1> QED  BY <1>2, <1>3, <1>4 DEF DailyOK, DailyPhases

\* A step of the job that leaves the queue alone.
LEMMA StatementFrame ==
    ASSUME IInv, UNCHANGED meili, sync' = sync, daily.pc # "delete_wait", daily'.pc # "delete_wait",
           daily'.pc = "finish" => daily'.ids = {},
           TablesOK', DailyOK', FeaturesInv', RatesInv'
    PROVE  IInv'
<1>1. MeiliTypeOK' /\ QueueInv' /\ Apart("sync") /\ Apart("daily")
  BY MeiliUnmoved, TypeParts, DistinctClients DEF IInv
<1>2. DailyInv'
  BY <1>1 DEF IInv, DailyInv, Apart
<1> QED  BY <1>1, <1>2, OtherFrame

LEMMA DailyBeginKeeps ==
    ASSUME IInv, DailyBegin
    PROVE  IInv'
<1>1. /\ TablesOK /\ DailyOK /\ daily.pc = "idle"
      /\ sync' = sync /\ daily' = [daily EXCEPT !.pc = "recalculate"]
      /\ batch_job_logs' = "running"
      /\ UNCHANGED <<meili, catalog, property_stats, property_features>>
  BY TypeParts DEF IInv, DailyBegin, DailyGoto
<1>2. TablesOK' /\ DailyOK' /\ daily'.pc = "recalculate"
  BY <1>1 DEF TablesOK, DailyOK, catalog, IsFeatureTable, Features, StatsRows, DailyPhases
<1>3. FeaturesInv' /\ RatesInv'
  BY <1>1, <1>2 DEF FeaturesInv, RatesInv, RatesHeld
<1> QED  BY <1>1, <1>2, <1>3, StatementFrame

LEMMA RecalculateKeeps ==
    ASSUME IInv, Recalculate
    PROVE  IInv'
<1>1. /\ TablesOK /\ DailyOK /\ daily.pc = "recalculate" /\ sync' = sync
      /\ daily' = [daily EXCEPT !.pc = "upsert", !.recalculated = DOMAIN property_stats]
      /\ UNCHANGED <<meili, tables, catalog>>
  BY TypeParts DEF IInv, Recalculate
<1>2. TablesOK' /\ DailyOK' /\ daily'.pc = "upsert"
  BY <1>1 DEF TablesOK, DailyOK, catalog, tables, IsFeatureTable, Features, StatsRows, DailyPhases
<1>3. FeaturesInv' /\ RatesInv'
  BY <1>1, <1>2, DistinctClients DEF IInv, FeaturesInv, RatesInv, RatesHeld, tables
<1> QED  BY <1>1, <1>2, <1>3, StatementFrame

LEMMA UpsertFeaturesKeeps ==
    ASSUME IInv, UpsertFeatures
    PROVE  IInv'
<1>1. /\ TablesOK /\ DailyOK /\ daily.pc = "upsert" /\ sync' = sync
      /\ daily' = [daily EXCEPT !.pc = "remove", !.features = Upserted]
      /\ edited' = {} /\ UNCHANGED <<meili, tables, properties, edits>>
      /\ batch_job_logs = "running"
  BY TypeParts DEF IInv, UpsertFeatures, FeaturesInv
<1>2. /\ Active \subseteq Properties
      /\ \A p \in Active : properties[p].content \in Contents
  BY <1>1 DEF Active, TablesOK
<1>3. \A p : RowOf(StatsSeen, p).rate \in [Actions -> Nat \X (Nat \ {0})]
  BY <1>1, StatsSeenTyped DEF StatsRows
<1>4. /\ DOMAIN property_features \subseteq Properties
      /\ property_features \in [DOMAIN property_features -> Features]
  BY <1>1 DEF TablesOK, IsFeatureTable
<1>5. /\ DOMAIN Upserted = DOMAIN property_features \cup Active
      /\ \A p \in Active :
             Upserted[p] = [content |-> properties[p].content, rate |-> RowOf(StatsSeen, p).rate]
      /\ \A p \in DOMAIN property_features \ Active : Upserted[p] = property_features[p]
  BY DEF Upserted
<1>6. IsFeatureTable(Upserted)
  <2>1. \A p \in DOMAIN Upserted : Upserted[p] \in Features
    BY <1>2, <1>3, <1>4, <1>5 DEF Features
  <2>2. Upserted = [p \in DOMAIN Upserted |-> Upserted[p]]
    BY DEF Upserted
  <2> QED  BY <1>2, <1>4, <1>5, <2>1, <2>2 DEF IsFeatureTable
<1>7. /\ daily'.pc = "remove" /\ daily'.features = Upserted
      /\ daily'.recalculated = daily.recalculated
  BY <1>1 DEF DailyOK
<1>8. DailyOK'
  <2>1. daily' = [pc |-> "remove", recalculated |-> daily.recalculated,
                  features |-> Upserted, ids |-> daily.ids]
    BY <1>1 DEF DailyOK
  <2>2. property_stats' = property_stats
    BY <1>1 DEF tables
  <2> QED  BY <1>1, <1>6, <2>1, <2>2 DEF DailyOK, DailyPhases, IsFeatureTable, Features
<1>9. TablesOK'
  BY <1>1 DEF TablesOK, tables, IsFeatureTable, Features, StatsRows
<1>10. FeaturesInv'
  <2>1. \A p \in Active' : p \in Active /\ properties'[p] = properties[p]
    BY <1>1 DEF Active
  <2> QED  BY <1>1, <1>5, <1>7, <2>1, DistinctClients DEF FeaturesInv, tables
<1>11. RatesInv'
  <2>1. StatsSeen' = StatsSeen
    BY <1>1, <1>7 DEF StatsSeen, tables
  <2>2. \A p \in daily.recalculated : RowOf(StatsSeen, p) = StatsSeen[p]
    BY <1>1, StatsSeenTyped DEF RowOf, DailyOK
  <2>3. Active' = Active
    BY <1>1 DEF Active
  <2> QED  BY <1>5, <1>7, <2>1, <2>2, <2>3 DEF RatesInv, RatesHeld
<1> QED  BY <1>1, <1>7, <1>8, <1>9, <1>10, <1>11, StatementFrame

LEMMA RemoveFeaturesKeeps ==
    ASSUME IInv, RemoveFeatures
    PROVE  IInv'
<1> DEFINE kept == [p \in DOMAIN daily.features \cap Active |-> daily.features[p]]
<1>1. /\ TablesOK /\ DailyOK /\ daily.pc = "remove" /\ sync' = sync
      /\ daily' = [daily EXCEPT !.pc = "commit", !.features = kept]
      /\ UNCHANGED <<meili, tables, catalog>>
      /\ batch_job_logs = "running"
  BY TypeParts DEF IInv, RemoveFeatures, FeaturesInv, Restrict
<1>2. /\ DOMAIN kept = DOMAIN daily.features \cap Active
      /\ \A p \in DOMAIN kept : kept[p] = daily.features[p]
      /\ IsFeatureTable(kept)
  BY <1>1 DEF DailyOK, IsFeatureTable
<1> HIDE DEF kept
<1>3. /\ daily' = [pc |-> "commit", recalculated |-> daily.recalculated,
                   features |-> kept, ids |-> daily.ids]
      /\ property_stats' = property_stats
  BY <1>1 DEF DailyOK, tables
<1>4. DailyOK'
  BY <1>1, <1>2, <1>3 DEF DailyOK, DailyPhases, IsFeatureTable, Features
<1>5. TablesOK'
  BY <1>1 DEF TablesOK, tables, catalog, IsFeatureTable, Features, StatsRows
<1>6. FeaturesInv'
  <2>1. ASSUME NEW p \in Properties \ edited
        PROVE  Covers(kept, p)
    <3>1. p \in Active <=> properties[p].is_active
      BY DEF Active
    <3>2. p \in Active => p \in DOMAIN daily.features
                          /\ daily.features[p].content = properties[p].content
      BY <1>1, <2>1 DEF IInv, FeaturesInv
    <3> QED  BY <1>2, <3>1, <3>2 DEF Covers
  <2>2. \A p \in Properties \ edited' : Covers(daily.features, p)'
    BY <1>1, <1>3, <2>1 DEF Covers, catalog
  <2> QED  BY <1>1, <1>3, <2>2, DistinctClients DEF FeaturesInv, tables
<1>7. RatesInv'
  <2>1. StatsSeen' = StatsSeen
    BY <1>1, <1>3 DEF StatsSeen, tables
  <2>2. \A p \in (DOMAIN kept \cap daily.recalculated) \ edited : kept[p].rate = StatsSeen[p].rate
    BY <1>1, <1>2 DEF IInv, RatesInv
  <2>3. edited' = edited
    BY <1>1 DEF catalog
  <2> QED  BY <1>3, <2>1, <2>2, <2>3 DEF RatesInv, RatesHeld
<1> QED  BY <1>1, <1>3, <1>4, <1>5, <1>6, <1>7, StatementFrame

\* The commit, acknowledged or not.
LEMMA CommitTyped ==
    ASSUME TablesOK, DailyOK, property_stats' = StatsSeen, property_features' = daily.features,
           UNCHANGED <<catalog, batch_job_logs>>
    PROVE  TablesOK'
BY StatsSeenTyped DEF TablesOK, DailyOK, catalog, IsFeatureTable, Features, StatsRows

LEMMA CommitFeaturesKeeps ==
    ASSUME IInv, CommitFeatures
    PROVE  IInv'
<1>1. /\ TablesOK /\ DailyOK /\ daily.pc = "commit" /\ sync' = sync
      /\ property_stats' = StatsSeen /\ property_features' = daily.features
      /\ daily' = [NoDaily EXCEPT !.pc = "select"]
      /\ UNCHANGED <<meili, catalog, batch_job_logs>>
      /\ batch_job_logs = "running"
  BY TypeParts DEF IInv, CommitFeatures, FeaturesInv
<1>2. TablesOK' /\ DailyOK' /\ daily'.pc = "select"
  BY <1>1, CommitTyped, DailyReset DEF DailyPhases
<1>3. FeaturesInv'
  <2>1. \A p \in Properties \ edited' : Covers(property_features, p)'
    BY <1>1 DEF IInv, FeaturesInv, Covers, catalog
  <2> QED  BY <1>1, <1>2, <2>1 DEF FeaturesInv
<1>4. RatesInv'
  BY <1>2 DEF RatesInv, RatesHeld
<1> QED  BY <1>1, <1>2, <1>3, <1>4, StatementFrame

LEMMA SelectInactiveKeeps ==
    ASSUME IInv, SelectInactive
    PROVE  IInv'
<1>1. /\ TablesOK /\ DailyOK /\ daily.pc = "select" /\ sync' = sync
      /\ daily' = [daily EXCEPT !.pc = IF Active = Properties THEN "finish" ELSE "delete",
                                !.ids = Properties \ Active]
      /\ UNCHANGED <<meili, tables, catalog>>
      /\ batch_job_logs = "running"
  BY TypeParts DEF IInv, SelectInactive, FeaturesInv
<1>2. /\ daily'.pc \in {"finish", "delete"}
      /\ daily'.pc = "finish" => daily'.ids = {}
  BY <1>1 DEF DailyOK
<1>3. TablesOK' /\ DailyOK'
  BY <1>1 DEF TablesOK, DailyOK, tables, catalog, IsFeatureTable, Features, StatsRows, DailyPhases
<1>4. FeaturesInv'
  BY <1>1, <1>2 DEF IInv, FeaturesInv, Covers, tables, catalog
<1>5. RatesInv'
  BY <1>2 DEF RatesInv, RatesHeld
<1> QED  BY <1>1, <1>2, <1>3, <1>4, <1>5, StatementFrame

LEMMA DeleteInactiveKeeps ==
    ASSUME IInv, DeleteInactive
    PROVE  IInv'
<1>0. PICK docs : docs = [p \in daily.ids |-> None]
  OBVIOUS
<1>1. /\ MeiliTypeOK /\ QueueInv /\ TablesOK /\ DailyOK /\ daily.pc = "delete" /\ sync' = sync
      /\ UNCHANGED <<tables, catalog>> /\ batch_job_logs = "running"
      /\ answers["daily"] # "enqueued"
  BY TypeParts DEF IInv, DeleteInactive, FeaturesInv, DailyInv
<1>2. daily.ids \in SUBSET Properties /\ docs \in [daily.ids -> Contents \cup {None}]
  BY <1>0, <1>1 DEF DailyOK
<1>3. CASE Submit("daily", "delete", docs) /\ DailyGoto("delete_wait")
  <2>1. /\ MeiliTypeOK' /\ QueueInv' /\ Others("daily")
        /\ Owes("daily", "delete", docs)' /\ answers'["daily"] = "enqueued"
    BY <1>1, <1>2, <1>3, DistinctClients, SubmitKeeps
  <2>2. daily' = [daily EXCEPT !.pc = "delete_wait"] /\ index' = index
    BY <1>3 DEF DailyGoto, Submit
  <2>3. Apart("sync")
    BY <2>1, <2>2, DistinctClients DEF Others, Apart
  <2>4. /\ TablesOK' /\ DailyOK' /\ daily'.pc = "delete_wait" /\ daily'.ids = daily.ids
    BY <1>1, <2>2 DEF TablesOK, DailyOK, tables, catalog, IsFeatureTable, Features, StatsRows,
                      DailyPhases
  <2>5. DailyInv'
    BY <1>0, <2>1, <2>4 DEF DailyInv, Owes
  <2>6. FeaturesInv' /\ RatesInv'
    BY <1>1, <2>4 DEF IInv, FeaturesInv, RatesInv, RatesHeld, Covers, tables, catalog
  <2> QED  BY <1>1, <2>1, <2>3, <2>4, <2>5, <2>6, OtherFrame
<1>4. CASE SubmitLost("daily", "delete", docs) /\ daily' = [NoDaily EXCEPT !.pc = "failed"]
  <2>1. /\ MeiliTypeOK' /\ QueueInv' /\ Others("daily") /\ answers'["daily"] = "none"
    BY <1>1, <1>2, <1>4, DistinctClients, SubmitLostKeeps
  <2>2. Apart("sync")
    BY <1>4, <2>1, DistinctClients DEF Others, Apart, SubmitLost
  <2>3. DailyOK' /\ daily'.pc = "failed"
    BY <1>4, DailyReset DEF DailyPhases
  <2>4. TablesOK'
    BY <1>1 DEF TablesOK, tables, catalog, IsFeatureTable, Features, StatsRows
  <2>5. DailyInv'
    BY <2>1, <2>3 DEF DailyInv
  <2>6. FeaturesInv' /\ RatesInv'
    BY <1>1, <2>3, DistinctClients DEF FeaturesInv, RatesInv, RatesHeld, tables
  <2> QED  BY <1>1, <2>1, <2>2, <2>3, <2>4, <2>5, <2>6, OtherFrame
<1> QED  BY <1>0, <1>3, <1>4 DEF DeleteInactive

LEMMA DeleteWaitedKeeps ==
    ASSUME IInv, DeleteWaited
    PROVE  IInv'
<1>1. /\ MeiliTypeOK /\ QueueInv /\ TablesOK /\ DailyOK /\ daily.pc = "delete_wait" /\ sync' = sync
      /\ daily' = [daily EXCEPT !.pc = "finish"] /\ answers["daily"] = "succeeded"
      /\ UNCHANGED <<meili, tables, catalog>> /\ batch_job_logs = "running"
  BY TypeParts DEF IInv, DeleteWaited, Succeeded, DailyGoto, FeaturesInv
<1>2. MeiliTypeOK' /\ QueueInv' /\ Apart("sync") /\ Apart("daily")
  BY <1>1, MeiliUnmoved, DistinctClients
<1>3. /\ TablesOK' /\ DailyOK' /\ daily'.pc = "finish" /\ daily'.ids = daily.ids
  BY <1>1 DEF TablesOK, DailyOK, tables, catalog, IsFeatureTable, Features, StatsRows, DailyPhases
<1>4. DailyInv'
  BY <1>1, <1>2, <1>3 DEF IInv, DailyInv, Gone, Apart
<1>5. FeaturesInv' /\ RatesInv'
  BY <1>1, <1>3 DEF IInv, FeaturesInv, RatesInv, RatesHeld, Covers, tables, catalog
<1> QED  BY <1>1, <1>2, <1>3, <1>4, <1>5, OtherFrame

\* The job raises, is killed or ends: what it asked Meilisearch for stays behind.
LEMMA DailyEnds ==
    ASSUME IInv, Forget("daily"), sync' = sync, NEW phase \in {"idle", "failed"},
           daily' = [NoDaily EXCEPT !.pc = phase], TablesOK',
           batch_job_logs' = "success" =>
               \A p \in Properties \ edited' : Covers(property_features, p)'
    PROVE  IInv'
<1>1. /\ MeiliTypeOK' /\ QueueInv' /\ Others("daily")
      /\ answers'["daily"] = "none" /\ index' = index
  BY TypeParts, DistinctClients, ForgetKeeps DEF IInv
<1>2. Apart("sync")
  BY <1>1, DistinctClients DEF Others, Apart
<1>3. DailyOK' /\ daily'.pc = phase
  BY DailyReset DEF DailyPhases
<1>4. DailyInv' /\ FeaturesInv' /\ RatesInv'
  BY <1>1, <1>3 DEF DailyInv, FeaturesInv, RatesInv, RatesHeld
<1> QED  BY <1>1, <1>2, <1>3, <1>4, OtherFrame

LEMMA DailyRaiseKeeps ==
    ASSUME IInv, DailyRaise
    PROVE  IInv'
<1>1. /\ TablesOK /\ DailyOK /\ Forget("daily") /\ UNCHANGED <<catalog, sync>>
  BY TypeParts DEF IInv, DailyRaise
<1>2. PICK phase \in {"idle", "failed"} : daily' = [NoDaily EXCEPT !.pc = phase]
  BY DEF DailyRaise
<1>3. CASE UNCHANGED <<property_stats, property_features, batch_job_logs>>
  <2>1. TablesOK'
    BY <1>1, <1>3 DEF TablesOK, catalog, IsFeatureTable, Features, StatsRows
  <2>2. batch_job_logs' = "success" => \A p \in Properties \ edited' : Covers(property_features, p)'
    BY <1>1, <1>3 DEF IInv, FeaturesInv, Covers, catalog
  <2> QED  BY <1>1, <1>2, <2>1, <2>2, DailyEnds
<1>4. CASE /\ daily.pc = "commit"
           /\ property_stats' = StatsSeen /\ property_features' = daily.features
           /\ UNCHANGED batch_job_logs
  <2>1. TablesOK'
    BY <1>1, <1>4, CommitTyped
  <2>2. batch_job_logs' # "success"
    BY <1>4 DEF IInv, FeaturesInv
  <2> QED  BY <1>1, <1>2, <2>1, <2>2, DailyEnds
<1>5. CASE /\ daily.pc = "finish" /\ batch_job_logs' = "success"
           /\ UNCHANGED <<property_stats, property_features>>
  <2>1. TablesOK'
    BY <1>1, <1>5 DEF TablesOK, catalog, IsFeatureTable, Features, StatsRows
  <2>2. \A p \in Properties \ edited' : Covers(property_features, p)'
    BY <1>1, <1>5 DEF IInv, FeaturesInv, Covers, catalog
  <2> QED  BY <1>1, <1>2, <2>1, <2>2, DailyEnds
<1> QED  BY <1>3, <1>4, <1>5 DEF DailyRaise

LEMMA DailyFinishKeeps ==
    ASSUME IInv, DailyFinish
    PROVE  IInv'
<1>1. /\ TablesOK /\ daily.pc \in {"finish", "failed"} /\ Forget("daily")
      /\ batch_job_logs' = IF daily.pc = "finish" THEN "success" ELSE "failed"
      /\ daily' = NoDaily /\ UNCHANGED <<catalog, property_stats, property_features, sync>>
  BY TypeParts DEF IInv, DailyFinish
<1>2. daily' = [NoDaily EXCEPT !.pc = "idle"]
  BY <1>1 DEF NoDaily
<1>3. TablesOK'
  BY <1>1 DEF TablesOK, catalog, IsFeatureTable, Features, StatsRows
<1>4. batch_job_logs' = "success" => \A p \in Properties \ edited' : Covers(property_features, p)'
  BY <1>1 DEF IInv, FeaturesInv, Covers, catalog
<1> QED  BY <1>1, <1>2, <1>3, <1>4, DailyEnds
-----------------------------------------------------------------------------
LEMMA Start == Init => IInv
<1> SUFFICES ASSUME Init
             PROVE  IInv
  OBVIOUS
<1>1. MeiliTypeOK
  <2>1. index \in Documents
    BY NoDocumentsTyped DEF Init, MeiliInit
  <2>2. tasks \in Seq(Tasks) /\ Len(tasks) <= MaxTasks
    BY CatalogConstants DEF Init, MeiliInit
  <2>3. /\ answers \in [Clients -> {"none", "enqueued", "succeeded"}]
        /\ touched \in [Clients -> SUBSET Properties]
    BY DEF Init, MeiliInit
  <2> QED  BY <2>1, <2>2, <2>3 DEF Init, MeiliInit, MeiliTypeOK
<1>2. TablesOK
  BY DistinctClients DEF Init, TablesOK, NoFeatures, IsFeatureTable
<1>3. SyncOK /\ sync.pc = "idle"
  BY NoSyncTyped DEF Init, SyncOK
<1>4. DailyOK /\ daily.pc = "idle"
  BY NoDailyTyped DEF Init, DailyOK, DailyPhases, NoDaily
<1>5. \A c \in Clients : answers[c] = "none"
  BY DEF Init, MeiliInit
<1>6. QueueInv
  BY DEF Init, MeiliInit, QueueInv
<1>7. SyncInv /\ DailyInv
  BY <1>3, <1>4, <1>5, DistinctClients DEF SyncInv, DailyInv
<1>8. FeaturesInv /\ RatesInv
  BY <1>4, DistinctClients DEF Init, FeaturesInv, RatesInv, RatesHeld
<1> QED  BY <1>1, <1>2, <1>3, <1>4, <1>6, <1>7, <1>8, TypeParts DEF IInv

LEMMA Inductive == IInv /\ [Next]_vars => IInv'
<1> SUFFICES ASSUME IInv, [Next]_vars
             PROVE  IInv'
  OBVIOUS
<1>1. CASE UNCHANGED vars
  <2>1. /\ MeiliTypeOK' /\ QueueInv' /\ Apart("sync") /\ Apart("daily")
        /\ sync' = sync /\ daily' = daily /\ UNCHANGED <<tables, catalog>>
    BY <1>1, MeiliUnmoved, TypeParts, DistinctClients DEF IInv, vars
  <2>2. TablesOK' /\ DailyOK'
    BY <2>1, TypeParts, TablesUnmoved DEF IInv
  <2>3. DailyInv' /\ FeaturesInv' /\ RatesInv'
    BY <2>1, DailyUnmoved, FeaturesUnmoved DEF IInv
  <2> QED  BY <2>1, <2>2, <2>3, OtherFrame
<1>2. CASE \E p \in Properties : Edit(p) \/ Serve(p)
  BY <1>2, EditKeeps, ServeKeeps
<1>3. CASE Daily
  BY <1>3, RecalculateKeeps, UpsertFeaturesKeeps, RemoveFeaturesKeeps, CommitFeaturesKeeps,
     SelectInactiveKeeps, DeleteInactiveKeeps, DeleteWaitedKeeps, DailyRaiseKeeps, DailyFinishKeeps
     DEF Daily
<1> QED
  BY <1>1, <1>2, <1>3, SyncBeginKeeps, SyncKeeps, DailyBeginKeeps, MeilisearchKeeps DEF Next

\* The queue, both jobs and what they have written agree at every moment.
THEOREM Invariance == Spec => []IInv
BY Start, Inductive, PTL DEF Spec

\* Type correctness: the index only ever holds documents, the features only
\* typed rows.
THEOREM Types == Spec => []TypeOK
<1>1. IInv => TypeOK
  BY DEF IInv
<1> QED  BY Invariance, <1>1, PTL

\* _wait_for_task: a job that reports success has changed the index as it
\* meant to, whatever tasks of clients that gave up were in front of its own:
\* only a property that a task enqueued behind its own is about is excepted.
THEOREM Awaited == Spec => []JobsAwaited
<1>1. IInv => JobsAwaited
  BY DEF IInv, SyncInv, DailyInv, Written, Gone, JobsAwaited
<1> QED  BY Invariance, <1>1, PTL

\* run_daily_jobs commits the rates that property_stats has at that moment.
THEOREM RatesAreHeld == Spec => []RatesHeld
<1>1. IInv => RatesHeld
  BY DEF IInv, RatesInv
<1> QED  BY Invariance, <1>1, PTL

\* A run that is logged as a success has left the features of the active
\* properties, and no others.
THEOREM SuccessIsReal == Spec => []SuccessMeansFeatures
<1>1. IInv => SuccessMeansFeatures
  BY DEF IInv, FeaturesInv, Covers, SuccessMeansFeatures
<1> QED  BY Invariance, <1>1, PTL
=============================================================================
