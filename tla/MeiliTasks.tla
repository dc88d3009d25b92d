----------------------------- MODULE MeiliTasks -----------------------------
(***************************************************************************)
(* The Meilisearch index `properties` and MeiliClient's way of changing    *)
(* it: a request enqueues a task, and the client polls the task until it   *)
(* is over or the client loses patience.  Meilisearch works its queue off  *)
(* in order.  A client that raises -- its request or a poll failed, the    *)
(* task failed, 30 seconds are over, the process died -- leaves its task   *)
(* in the queue, where it still takes effect.                              *)
(***************************************************************************)
EXTENDS Naturals, Sequences, Functions

CONSTANTS
    Properties,
    Contents,       \* what a property's columns may say
    Clients,        \* jobs that change the index, one task at a time
    None,
    MaxTasks        \* bound on the queue

VARIABLES
    index,          \* [properties with a document -> its content]
    index_exists,
    tasks,          \* enqueued tasks
    answers,        \* what GET /tasks/<uid> tells each client of its last task
    touched         \* properties that tasks enqueued behind that one are about
                    \* (no variable of the program)

meili == <<index, index_exists, tasks, answers, touched>>

Documents == UNION {[S -> Contents] : S \in SUBSET Properties}

NoDocuments == [p \in {} |-> None]

\* docs holds the documents to add, or nothing for each of the ids to delete.
Tasks == [op : {"create", "settings", "add", "delete"},
          docs : UNION {[S -> Contents \cup {None}] : S \in SUBSET Properties},
          by : Clients \cup {None}]

MeiliTypeOK ==
    /\ index \in Documents
    /\ index_exists \in BOOLEAN
    /\ tasks \in Seq(Tasks) /\ Len(tasks) <= MaxTasks
    /\ answers \in [Clients -> {"none", "enqueued", "succeeded", "failed"}]
    /\ touched \in [Clients -> SUBSET Properties]

MeiliInit ==
    /\ index = NoDocuments
    /\ index_exists = FALSE
    /\ tasks = <<>>
    /\ answers = [c \in Clients |-> "none"]
    /\ touched = [c \in Clients |-> {}]
-----------------------------------------------------------------------------
\* The queue once c no longer asks for its task.
Unattended(c) ==
    [i \in DOMAIN tasks |-> IF tasks[i].by = c THEN [tasks[i] EXCEPT !.by = None]
                            ELSE tasks[i]]

\* What a task of c is about, to those whose own task it comes behind.
Touch(c, docs) ==
    touched' = [d \in Clients |->
                   IF d = c THEN {}
                   ELSE IF answers[d] = "none" THEN touched[d]
                   ELSE touched[d] \cup DOMAIN docs]

\* A request that Meilisearch answers with a task uid.
Submit(c, op, docs) ==
    /\ Len(tasks) < MaxTasks
    /\ tasks' = Append(tasks, [op |-> op, docs |-> docs, by |-> c])
    /\ answers' = [answers EXCEPT ![c] = "enqueued"]
    /\ Touch(c, docs)
    /\ UNCHANGED <<index, index_exists>>

\* The same request when its answer is lost: the client knows no uid.
SubmitLost(c, op, docs) ==
    /\ Len(tasks) < MaxTasks
    /\ tasks' = Append(Unattended(c), [op |-> op, docs |-> docs, by |-> None])
    /\ answers' = [answers EXCEPT ![c] = "none"]
    /\ Touch(c, docs)
    /\ UNCHANGED <<index, index_exists>>

\* A fault: whatever has not failed counts as done.
SucceededUnlessFailed(c) == answers[c] # "failed"

\* _wait_for_task returns.
Succeeded(c) == answers[c] = "succeeded"

\* The client is through with its last task, or raises.
Forget(c) ==
    /\ tasks' = Unattended(c)
    /\ answers' = [answers EXCEPT ![c] = "none"]
    /\ touched' = [touched EXCEPT ![c] = {}]
    /\ UNCHANGED <<index, index_exists>>
-----------------------------------------------------------------------------
\* An index that exists cannot be created, and one that does not has nothing
\* to delete from; settings and documents create it.
Apply(task) ==
    /\ task.op = "create" => ~index_exists
    /\ task.op = "delete" => index_exists
    /\ index_exists' = TRUE
    /\ index' = CASE task.op = "add" ->
                       [p \in DOMAIN index \cup DOMAIN task.docs |->
                           IF p \in DOMAIN task.docs THEN task.docs[p] ELSE index[p]]
                  [] task.op = "delete" -> Restrict(index, DOMAIN index \ DOMAIN task.docs)
                  [] OTHER -> index

\* Meilisearch takes the oldest task; it may fail or be cancelled.
ProcessTask ==
    /\ tasks # <<>>
    /\ tasks' = Tail(tasks)
    /\ UNCHANGED touched
    /\ LET task == Head(tasks)
           tell(answer) ==
               answers' = [c \in Clients |-> IF c = task.by THEN answer ELSE answers[c]]
       IN
       \/ /\ Apply(task)
          /\ tell("succeeded")
       \/ /\ tell("failed")
          /\ UNCHANGED <<index, index_exists>>
=============================================================================
