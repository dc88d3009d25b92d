---------------------------- MODULE RankingModel ----------------------------
(***************************************************************************)
(* The LightGBM model that the reranker keeps in two module globals,       *)
(* _MODEL and _MODEL_MTIME, and the file that the weekly training writes   *)
(* over.  The search threads share the globals without a lock; the trainer *)
(* is another process.  A step of a thread is one read or write of a       *)
(* global, or one call on the file.                                        *)
(*                                                                         *)
(* The file is truncated when a save begins and whole when it ends; an     *)
(* interrupted save leaves it torn, and Booster() is assumed to raise on   *)
(* a torn file.                                                            *)
(* Nothing in the repository removes it.                                   *)
(***************************************************************************)
EXTENDS Naturals

CONSTANTS
    Threads,        \* search threads
    None,
    MaxSaves        \* bound on the trainings

VARIABLES
    file,           \* the model file: None, or its mtime and its content
    saves,          \* saves begun; the n-th training's model is n
    saving,         \* whether a save is under way
    _MODEL,         \* the loaded model, or None
    _MODEL_MTIME,   \* the mtime read before it was loaded, or None
    calls,          \* local state of _load_model in each thread
    raced           \* whether two threads have been setting the globals at once
                    \* (no variable of the program: it says when)

globals == <<_MODEL, _MODEL_MTIME>>
disk == <<file, saves, saving>>
vars == <<disk, globals, calls, raced>>

Models == 1 .. MaxSaves
Torn == 0
Mtimes == 1 .. 2 * MaxSaves

Files == [mtime : Mtimes, model : Models \cup {Torn}]

ASSUME RankingModelConstants ==
    MaxSaves \in Nat /\ None \notin Nat /\ None \notin Files

\* From the step that decides to replace the globals to the one that has.
Setting == {"forget_model", "forget_mtime", "load", "store_model", "store_mtime"}

Phases == {"idle", "exists", "stat", "check_model", "check_mtime", "return", "done"}
              \cup Setting

\* asked: the file when the call began, and whether it has stayed as it was.
Calls == [pc : Phases, current_mtime : Mtimes \cup {0}, booster : Models \cup {0},
          result : Models \cup {None}, raised : BOOLEAN,
          asked : Files \cup {None}, steady : BOOLEAN]

NoCall == [pc |-> "idle", current_mtime |-> 0, booster |-> 0, result |-> None,
           raised |-> FALSE, asked |-> None, steady |-> FALSE]

Init ==
    /\ file = None /\ saves = 0 /\ saving = FALSE
    /\ _MODEL = None /\ _MODEL_MTIME = None
    /\ calls = [t \in Threads |-> NoCall]
    /\ raced = FALSE
-----------------------------------------------------------------------------
At(t, phase) == calls[t].pc = phase

\* The call of t goes on as c; two in Setting at once have raced.
Continue(t, c) ==
    /\ calls' = [calls EXCEPT ![t] = c]
    /\ raced' = (raced \/ /\ c.pc \in Setting
                          /\ \E u \in Threads \ {t} : calls[u].pc \in Setting)

Goto(t, phase) == Continue(t, [calls[t] EXCEPT !.pc = phase])

Call(t) ==
    /\ At(t, "idle")
    /\ Continue(t, [NoCall EXCEPT !.pc = "exists", !.asked = file, !.steady = TRUE])
    /\ UNCHANGED <<disk, globals>>

Exists(t) ==
    /\ At(t, "exists")
    /\ Goto(t, IF file = None THEN "forget_model" ELSE "stat")
    /\ UNCHANGED <<disk, globals>>

ForgetModel(t) ==
    /\ At(t, "forget_model")
    /\ _MODEL' = None
    /\ Goto(t, "forget_mtime")
    /\ UNCHANGED <<disk, _MODEL_MTIME>>

\* This branch returns None, not the global.
ForgetMtime(t) ==
    /\ At(t, "forget_mtime")
    /\ _MODEL_MTIME' = None
    /\ Goto(t, "done")
    /\ UNCHANGED <<disk, _MODEL>>

Stat(t) ==
    /\ At(t, "stat")
    /\ Continue(t, [calls[t] EXCEPT !.pc = "check_model", !.current_mtime = file.mtime])
    /\ UNCHANGED <<disk, globals>>

\* A fault: a loaded model is never looked at again.
CheckModelOnly(t) ==
    /\ At(t, "check_model")
    /\ Goto(t, IF _MODEL = None THEN "load" ELSE "return")
    /\ UNCHANGED <<disk, globals>>

CheckModel(t) ==
    /\ At(t, "check_model")
    /\ Goto(t, IF _MODEL = None THEN "load" ELSE "check_mtime")
    /\ UNCHANGED <<disk, globals>>

CheckMtime(t) ==
    /\ At(t, "check_mtime")
    /\ Goto(t, IF _MODEL_MTIME = calls[t].current_mtime THEN "return" ELSE "load")
    /\ UNCHANGED <<disk, globals>>

\* A fault: a torn file is taken for a model.
LoadAnything(t) ==
    /\ At(t, "load")
    /\ Continue(t, [calls[t] EXCEPT !.pc = "store_model", !.booster = file.model])
    /\ UNCHANGED <<disk, globals>>

\* Booster(model_file=...); its exception leaves _load_model, and the search
\* fails.
Load(t) ==
    /\ At(t, "load")
    /\ IF file.model = Torn
       THEN Continue(t, [calls[t] EXCEPT !.pc = "done", !.raised = TRUE])
       ELSE Continue(t, [calls[t] EXCEPT !.pc = "store_model", !.booster = file.model])
    /\ UNCHANGED <<disk, globals>>

StoreModel(t) ==
    /\ At(t, "store_model")
    /\ _MODEL' = calls[t].booster
    /\ Goto(t, "store_mtime")
    /\ UNCHANGED <<disk, _MODEL_MTIME>>

\* A fault: the mtime is read after the load, not before it.
StoreMtimeNow(t) ==
    /\ At(t, "store_mtime")
    /\ _MODEL_MTIME' = file.mtime
    /\ Goto(t, "return")
    /\ UNCHANGED <<disk, _MODEL>>

StoreMtime(t) ==
    /\ At(t, "store_mtime")
    /\ _MODEL_MTIME' = calls[t].current_mtime
    /\ Goto(t, "return")
    /\ UNCHANGED <<disk, _MODEL>>

\* `return _MODEL` reads the global once more.
Return(t) ==
    /\ At(t, "return")
    /\ Continue(t, [calls[t] EXCEPT !.pc = "done", !.result = _MODEL])
    /\ UNCHANGED <<disk, globals>>

\* The reranker has its scores; the thread's next search calls again.
Finish(t) ==
    /\ At(t, "done")
    /\ Continue(t, NoCall)
    /\ UNCHANGED <<disk, globals>>
-----------------------------------------------------------------------------
\* No call that is under way still finds the file it was made for.
Unsteady == calls' = [t \in Threads |-> [calls[t] EXCEPT !.steady = FALSE]]

BeginSave ==
    /\ ~saving /\ saves < MaxSaves
    /\ saving' = TRUE
    /\ saves' = saves + 1
    /\ file' = [mtime |-> IF file = None THEN 1 ELSE file.mtime + 1, model |-> Torn]
    /\ Unsteady
    /\ UNCHANGED <<globals, raced>>

\* The last write may fall into the clock tick of the first.
EndSave ==
    /\ saving
    /\ saving' = FALSE
    /\ \E tick \in {0, 1} : file' = [mtime |-> file.mtime + tick, model |-> saves]
    /\ Unsteady
    /\ UNCHANGED <<saves, globals, raced>>

\* The trainer is killed in the middle of a save.
KillTrainer ==
    /\ saving
    /\ saving' = FALSE
    /\ UNCHANGED <<file, saves, globals, calls, raced>>

RestartApi ==
    /\ _MODEL' = None /\ _MODEL_MTIME' = None
    /\ calls' = [t \in Threads |-> NoCall]
    /\ raced' = FALSE
    /\ UNCHANGED disk

LoadModel(t) ==
    \/ Exists(t) \/ ForgetModel(t) \/ ForgetMtime(t)
    \/ Stat(t) \/ CheckModel(t) \/ CheckMtime(t)
    \/ Load(t) \/ StoreModel(t) \/ StoreMtime(t) \/ Return(t)

Next ==
    \/ \E t \in Threads : Call(t) \/ LoadModel(t) \/ Finish(t)
    \/ BeginSave \/ EndSave \/ KillTrainer
    \/ RestartApi

Spec == Init /\ [][Next]_vars
-----------------------------------------------------------------------------
TypeOK ==
    /\ file \in Files \cup {None}
    /\ saves \in 0 .. MaxSaves /\ saving \in BOOLEAN
    /\ _MODEL \in Models \cup {None}
    /\ _MODEL_MTIME \in Mtimes \cup {None}
    /\ calls \in [Threads -> Calls]
    /\ raced \in BOOLEAN

\* The pair of globals is honest: when its mtime is the file's, its model is
\* the file's, however saves, kills and loads have interleaved, as long as no
\* two threads have set the globals at once.  _load_model owes this to reading
\* the mtime before the file.
PairHonest ==
    (~raced /\ _MODEL_MTIME # None /\ file # None /\ _MODEL_MTIME = file.mtime
        /\ \A t \in Threads : ~At(t, "store_mtime"))
        => _MODEL = file.model

\* A call during which a whole file stayed as it was returns that file's
\* model: the first search after a training ranks by the new model, and none
\* falls back to the hand-made score.
Current(t) ==
    (At(t, "done") /\ calls[t].steady /\ calls[t].asked # None
        /\ calls[t].asked.model # Torn)
        => ~calls[t].raised /\ calls[t].result = file.model

CurrentUnlessRaced == ~raced => \A t \in Threads : Current(t)

\* The docstring of _load_model says without that condition that it loads
\* again when the mtime has changed.  Then, between calls, a model that passes
\* for the file's is the file's; a stale one would be served until the next
\* training.
NeverStale ==
    (/\ \A t \in Threads : At(t, "idle")
     /\ _MODEL # None /\ file # None /\ _MODEL_MTIME = file.mtime)
        => _MODEL = file.model
=============================================================================
