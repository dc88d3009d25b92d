------------------------- MODULE RankingModel_proofs -------------------------
(***************************************************************************)
(* The invariants of RankingModel, for any number of search threads and    *)
(* any number of trainings.                                                *)
(***************************************************************************)
EXTENDS RankingModel, TLAPS

\* The phases in which a call knows an mtime, those in which it has a booster,
\* and those of a call that found no file.
Storing == {"store_model", "store_mtime"}
Reading == {"check_model", "check_mtime", "load"} \cup Storing
Forgetting == {"forget_model", "forget_mtime"}

\* Each save ticks at most twice; a file under way is torn.
FileInv ==
    /\ file # None => file.mtime <= 2 * saves /\ (saving => file.mtime < 2 * saves)
    /\ saving => file # None /\ file.model = Torn

\* The model b has been loaded after m was read: m tells b from later contents.
Tells(m, b) == b \in Models /\ (file # None /\ file.mtime = m => file.model = b)

Older(m) == m \in Mtimes /\ file # None /\ m <= file.mtime

CallOk(c) ==
    /\ c.pc = "stat" => file # None
    /\ c.pc \in Reading => Older(c.current_mtime)
    /\ c.pc \in Storing => Tells(c.current_mtime, c.booster)
    /\ c.raised => c.pc = "done"
    /\ c.steady => c.asked = file
    /\ c.pc \in Forgetting /\ c.steady => c.asked = None
    /\ c.pc \in Reading /\ c.steady => c.current_mtime = file.mtime

BaseInv ==
    /\ TypeOK /\ FileInv
    /\ \A t \in Threads : CallOk(calls[t])
    /\ _MODEL_MTIME # None => Older(_MODEL_MTIME)

\* What holds while no two threads have been setting the globals at once.
OneSets == \A t, u \in Threads : calls[t].pc \in Setting /\ calls[u].pc \in Setting => t = u

\* A thread that sets finds the globals as the last one left them.
SetsAlone(c) ==
    /\ c.pc = "store_mtime" => _MODEL = c.booster
    /\ c.pc \in Forgetting => _MODEL_MTIME = None
    /\ c.pc \in Storing /\ _MODEL_MTIME # None => Tells(_MODEL_MTIME, c.booster)

Told ==
    _MODEL_MTIME # None /\ (\A t \in Threads : calls[t].pc # "store_mtime")
        => Tells(_MODEL_MTIME, _MODEL)

\* The call's file is whole and still there.
Steady(c) == c.steady /\ file # None /\ file.model # Torn

\* A call that is about to return the global finds the file's model there, and
\* no thread is about to put another one.
Undisturbed(c) == c.pc \notin Forgetting /\ (c.pc \in Storing => c.booster = file.model)

Returns(c) ==
    c.pc = "return" /\ Steady(c) =>
        _MODEL = file.model /\ \A u \in Threads : Undisturbed(calls[u])

Returned(c) == c.pc = "done" /\ Steady(c) => ~c.raised /\ c.result = file.model

Calm ==
    /\ OneSets /\ Told
    /\ \A t \in Threads : SetsAlone(calls[t]) /\ Returns(calls[t]) /\ Returned(calls[t])

IInv == BaseInv /\ (~raced => Calm)
-----------------------------------------------------------------------------
USE DEF Models, Torn, Mtimes, Setting, Phases, Storing, Reading, Forgetting

\* A step of one thread's call.
Step(t) == Call(t) \/ LoadModel(t) \/ Finish(t)

\* What a step makes of a call.
LEMMA Becomes ==
    ASSUME TypeOK, NEW t \in Threads, NEW c \in Calls, Continue(t, c)
    PROVE  /\ calls' \in [Threads -> Calls] /\ raced' \in BOOLEAN
           /\ calls'[t] = c
           /\ \A u \in Threads : u # t => calls'[u] = calls[u]
           /\ raced => raced'
           /\ ~raced' /\ c.pc \in Setting => \A u \in Threads \ {t} : calls[u].pc \notin Setting
<1>1. calls' \in [Threads -> Calls] /\ calls'[t] = c
      /\ \A u \in Threads : u # t => calls'[u] = calls[u]
  BY DEF Continue, TypeOK
<1>2. raced' \in BOOLEAN /\ (raced => raced')
      /\ (~raced' /\ c.pc \in Setting => \A u \in Threads \ {t} : calls[u].pc \notin Setting)
  BY Zenon DEF Continue, TypeOK
<1> QED  BY <1>1, <1>2

LEMMA NoCallTyped == NoCall \in Calls
BY DEF NoCall, Calls

\* BaseInv after a step of t, which is about c alone.
LEMMA StepFrame ==
    ASSUME BaseInv, NEW t \in Threads, NEW c \in Calls, Continue(t, c), UNCHANGED disk,
           CallOk(c), _MODEL' \in Models \cup {None},
           _MODEL_MTIME' # None => Older(_MODEL_MTIME')
    PROVE  BaseInv'
<1>1. TypeOK' /\ FileInv'
  BY Becomes DEF BaseInv, TypeOK, FileInv, Older, disk
<1>2. ASSUME NEW u \in Threads PROVE CallOk(calls[u])'
  <2>1. calls'[u] = c \/ calls'[u] = calls[u]
    BY Becomes DEF BaseInv
  <2>2. CallOk(calls'[u])
    BY <2>1 DEF BaseInv
  <2> QED  BY <2>2 DEF CallOk, Older, Tells, disk
<1>3. _MODEL_MTIME' # None => Older(_MODEL_MTIME)'
  BY DEF Older, disk
<1> QED  BY <1>1, <1>2, <1>3 DEF BaseInv

LEMMA StepBase ==
    ASSUME BaseInv, NEW t \in Threads, Step(t)
    PROVE  BaseInv'
<1>1. /\ calls[t] \in Calls /\ CallOk(calls[t])
      /\ _MODEL \in Models \cup {None} /\ file \in Files \cup {None}
      /\ _MODEL_MTIME # None => Older(_MODEL_MTIME)
  BY DEF BaseInv, TypeOK
<1> DEFINE Known == /\ _MODEL' \in Models \cup {None}
                    /\ _MODEL_MTIME' # None => Older(_MODEL_MTIME')
<1>2. UNCHANGED globals => Known
  BY <1>1 DEF globals
<1>3. CASE Call(t)
  <2> DEFINE c == [NoCall EXCEPT !.pc = "exists", !.asked = file, !.steady = TRUE]
  <2>1. c \in Calls /\ CallOk(c)
    BY <1>1 DEF NoCall, Calls, CallOk
  <2> QED  BY <1>2, <1>3, <2>1, StepFrame DEF Call
<1>4. CASE Exists(t)
  <2> DEFINE c == [calls[t] EXCEPT !.pc = IF file = None THEN "forget_model" ELSE "stat"]
  <2>1. c \in Calls /\ CallOk(c)
    BY <1>1, <1>4 DEF Calls, CallOk, Exists, At
  <2> QED  BY <1>2, <1>4, <2>1, StepFrame DEF Exists, Goto
<1>5. CASE ForgetModel(t)
  <2> DEFINE c == [calls[t] EXCEPT !.pc = "forget_mtime"]
  <2>1. c \in Calls /\ CallOk(c)
    BY <1>1, <1>5 DEF Calls, CallOk, ForgetModel, At
  <2> QED  BY <1>1, <1>5, <2>1, StepFrame DEF ForgetModel, Goto
<1>6. CASE ForgetMtime(t)
  <2> DEFINE c == [calls[t] EXCEPT !.pc = "done"]
  <2>1. c \in Calls /\ CallOk(c)
    BY <1>1, <1>6 DEF Calls, CallOk, ForgetMtime, At
  <2> QED  BY <1>1, <1>6, <2>1, StepFrame DEF ForgetMtime, Goto
<1>7. CASE Stat(t)
  <2> DEFINE c == [calls[t] EXCEPT !.pc = "check_model", !.current_mtime = file.mtime]
  <2>1. file \in Files
    BY <1>1, <1>7 DEF CallOk, Stat, At
  <2>2. c \in Calls /\ CallOk(c)
    <3>1. file.mtime \in Mtimes /\ file.mtime <= file.mtime /\ file # None
      BY <2>1, RankingModelConstants DEF Files
    <3>2. /\ c \in Calls /\ c.pc = "check_model" /\ c.current_mtime = file.mtime
          /\ c.steady = calls[t].steady /\ c.asked = calls[t].asked /\ c.raised = calls[t].raised
      BY <1>1, <3>1 DEF Calls
    <3>3. calls[t].pc = "stat"
      BY <1>7 DEF Stat, At
    <3> QED  BY <1>1, <3>1, <3>2, <3>3 DEF CallOk, Older
  <2> QED  BY <1>2, <1>7, <2>2, StepFrame DEF Stat
<1>8. CASE CheckModel(t)
  <2> DEFINE c == [calls[t] EXCEPT !.pc = IF _MODEL = None THEN "load" ELSE "check_mtime"]
  <2>1. c \in Calls /\ CallOk(c)
    BY <1>1, <1>8 DEF Calls, CallOk, CheckModel, At
  <2> QED  BY <1>2, <1>8, <2>1, StepFrame DEF CheckModel, Goto
<1>9. CASE CheckMtime(t)
  <2> DEFINE c == [calls[t] EXCEPT !.pc =
                      IF _MODEL_MTIME = calls[t].current_mtime THEN "return" ELSE "load"]
  <2>1. c \in Calls /\ CallOk(c)
    BY <1>1, <1>9 DEF Calls, CallOk, CheckMtime, At
  <2> QED  BY <1>2, <1>9, <2>1, StepFrame DEF CheckMtime, Goto
<1>10. CASE Load(t)
  <2>1. CASE file.model = Torn
    <3> DEFINE c == [calls[t] EXCEPT !.pc = "done", !.raised = TRUE]
    <3>1. c \in Calls /\ CallOk(c)
      BY <1>1, <1>10 DEF Calls, CallOk, Load, At
    <3> QED  BY <1>2, <1>10, <2>1, <3>1, StepFrame DEF Load
  <2>2. CASE file.model # Torn
    <3> DEFINE c == [calls[t] EXCEPT !.pc = "store_model", !.booster = file.model]
    <3>1. file.model \in Models
      BY <1>1, <1>10, <2>2 DEF CallOk, Older, Load, At, Files
    <3>2. c \in Calls /\ CallOk(c)
      BY <1>1, <1>10, <3>1 DEF Calls, CallOk, Tells, Load, At
    <3> QED  BY <1>2, <1>10, <2>2, <3>2, StepFrame DEF Load
  <2> QED  BY <2>1, <2>2
<1>11. CASE StoreModel(t)
  <2> DEFINE c == [calls[t] EXCEPT !.pc = "store_mtime"]
  <2>1. c \in Calls /\ CallOk(c)
    BY <1>1, <1>11 DEF Calls, CallOk, StoreModel, At
  <2>2. _MODEL' \in Models
    BY <1>1, <1>11 DEF CallOk, Tells, StoreModel, At
  <2> QED  BY <1>1, <1>11, <2>1, <2>2, StepFrame DEF StoreModel, Goto
<1>12. CASE StoreMtime(t)
  <2> DEFINE c == [calls[t] EXCEPT !.pc = "return"]
  <2>1. c \in Calls /\ CallOk(c)
    BY <1>1, <1>12 DEF Calls, CallOk, StoreMtime, At
  <2>2. Older(_MODEL_MTIME')
    BY <1>1, <1>12 DEF CallOk, StoreMtime, At
  <2> QED  BY <1>1, <1>12, <2>1, <2>2, StepFrame DEF StoreMtime, Goto
<1>13. CASE Return(t)
  <2> DEFINE c == [calls[t] EXCEPT !.pc = "done", !.result = _MODEL]
  <2>1. c \in Calls /\ CallOk(c)
    BY <1>1, <1>13 DEF Calls, CallOk, Return, At
  <2> QED  BY <1>2, <1>13, <2>1, StepFrame DEF Return
<1>14. CASE Finish(t)
  <2>1. NoCall \in Calls /\ CallOk(NoCall)
    BY DEF NoCall, Calls, CallOk
  <2> QED  BY <1>2, <1>14, <2>1, StepFrame DEF Finish
<1> QED  BY <1>3, <1>4, <1>5, <1>6, <1>7, <1>8, <1>9, <1>10, <1>11, <1>12, <1>13, <1>14
         DEF Step, LoadModel

\* Calm after a step of t, apart from what it owes for itself.
LEMMA CalmFrame ==
    ASSUME BaseInv, Calm, NEW t \in Threads, NEW c \in Calls, Continue(t, c), UNCHANGED disk,
           ~raced',
           SetsAlone(c)', Returns(c)', Returned(c)', Told',
           globals' = globals \/ calls[t].pc \in Setting,
           file # None /\ c.pc \in Forgetting => calls[t].pc \in Forgetting,
           c.pc \in Storing => \/ c.booster = file.model
                               \/ calls[t].pc \in Storing /\ c.booster = calls[t].booster,
           \/ _MODEL' = _MODEL
           \/ calls[t].pc = "forget_model"
           \/ calls[t].pc = "store_model" /\ _MODEL' = calls[t].booster
    PROVE  Calm'
<1>1. /\ calls'[t] = c
      /\ \A u \in Threads : u # t => calls'[u] = calls[u]
      /\ c.pc \in Setting => \A u \in Threads \ {t} : calls[u].pc \notin Setting
  BY Becomes DEF BaseInv
<1>2. OneSets'
  BY <1>1 DEF Calm, OneSets
<1>3. ASSUME NEW u \in Threads, u # t
      PROVE  SetsAlone(calls[u])' /\ Returns(calls[u])' /\ Returned(calls[u])'
  <2>1. calls'[u] = calls[u] /\ file' = file
    BY <1>1, <1>3 DEF disk
  <2>2. SetsAlone(calls[u])'
    <3>1. CASE globals' = globals
      BY <2>1, <3>1 DEF Calm, SetsAlone, Tells, globals
    <3>2. CASE calls[t].pc \in Setting
      <4>1. calls[u].pc \notin Setting
        BY <1>3, <3>2 DEF Calm, OneSets
      <4> QED  BY <2>1, <4>1 DEF SetsAlone
    <3> QED  BY <3>1, <3>2
  <2>3. Returns(calls[u])'
    <3>1. SUFFICES ASSUME calls[u].pc = "return", Steady(calls[u])
                   PROVE  _MODEL' = file.model /\ \A v \in Threads : Undisturbed(calls'[v])
      BY <2>1 DEF Returns, Steady, Undisturbed
    <3>2. _MODEL = file.model /\ \A v \in Threads : Undisturbed(calls[v])
      BY <3>1 DEF Calm, Returns
    <3>3. Undisturbed(c)
      BY <3>1, <3>2 DEF Undisturbed, Steady
    <3>4. _MODEL' = file.model
      BY <3>2 DEF Undisturbed
    <3>5. ASSUME NEW v \in Threads PROVE Undisturbed(calls'[v])
      BY <1>1, <3>2, <3>3
    <3> QED  BY <3>4, <3>5
  <2>4. Returned(calls[u])'
    BY <2>1 DEF Calm, Returned, Steady
  <2> QED  BY <2>2, <2>3, <2>4
<1>4. SetsAlone(calls[t])' /\ Returns(calls[t])' /\ Returned(calls[t])'
  BY <1>1
<1> QED  BY <1>2, <1>3, <1>4 DEF Calm

\* As long as the globals and who is about to set the mtime are the same.
LEMMA ToldKept ==
    ASSUME BaseInv, Calm, NEW t \in Threads, NEW c \in Calls, Continue(t, c), UNCHANGED disk,
           globals' = globals, calls[t].pc # "store_mtime"
    PROVE  Told'
<1>1. \A u \in Threads : calls[u].pc = "store_mtime" => calls'[u].pc = "store_mtime"
  BY Becomes DEF BaseInv
<1> QED  BY <1>1 DEF Calm, Told, Tells, globals, disk

LEMMA StepCalm ==
    ASSUME IInv, NEW t \in Threads, Step(t), ~raced'
    PROVE  Calm'
<1>1. /\ BaseInv /\ Calm /\ calls[t] \in Calls /\ CallOk(calls[t])
      /\ _MODEL \in Models \cup {None} /\ file \in Files \cup {None}
      /\ _MODEL_MTIME # None => Older(_MODEL_MTIME)
      /\ SetsAlone(calls[t]) /\ Returns(calls[t])
  <2>1. BaseInv
    BY DEF IInv
  <2>2. ~raced
    BY <2>1, Zenon DEF Step, Call, LoadModel, Finish, Exists, ForgetModel, ForgetMtime, Stat,
       CheckModel, CheckMtime, Load, StoreModel, StoreMtime, Return, Goto, Continue
  <2> QED  BY <2>1, <2>2 DEF IInv, BaseInv, TypeOK, Calm
\* Alone in setting the globals, t is the only one that is about to set the mtime.
<1>2. calls[t].pc \in Setting => \A u \in Threads \ {t} : calls[u].pc \notin Setting
  BY <1>1 DEF Calm, OneSets
<1>3. CASE Call(t)
  <2>1. PICK c \in Calls : c = [NoCall EXCEPT !.pc = "exists", !.asked = file, !.steady = TRUE]
    BY <1>1 DEF NoCall, Calls
  <2>2. c.pc = "exists" /\ Continue(t, c) /\ UNCHANGED <<disk, globals>> /\ calls[t].pc = "idle"
    BY <1>3, <2>1 DEF Call, NoCall, At
  <2>3. SetsAlone(c)' /\ Returns(c)' /\ Returned(c)' /\ Told'
    BY <1>1, <2>2, ToldKept DEF SetsAlone, Returns, Returned
  <2> QED  BY <1>1, <2>2, <2>3, CalmFrame DEF globals
<1>4. CASE Exists(t)
  <2>1. PICK c \in Calls : c = [calls[t] EXCEPT !.pc = IF file = None THEN "forget_model" ELSE "stat"]
    BY <1>1 DEF Calls
  <2>2. /\ c.pc = (IF file = None THEN "forget_model" ELSE "stat")
        /\ Continue(t, c) /\ UNCHANGED <<disk, globals>> /\ calls[t].pc = "exists"
    BY <1>1, <1>4, <2>1 DEF Exists, Goto, At, Calls
  <2>3. SetsAlone(c)' /\ Returns(c)' /\ Returned(c)' /\ Told'
    BY <1>1, <2>2, ToldKept DEF SetsAlone, Returns, Returned, Older, globals
  <2> QED  BY <1>1, <2>2, <2>3, CalmFrame DEF globals
<1>5. CASE ForgetModel(t)
  <2>1. PICK c \in Calls : c = [calls[t] EXCEPT !.pc = "forget_mtime"]
    BY <1>1 DEF Calls
  <2>2. /\ c.pc = "forget_mtime" /\ Continue(t, c) /\ UNCHANGED disk
        /\ _MODEL_MTIME' = _MODEL_MTIME /\ calls[t].pc = "forget_model"
    BY <1>1, <1>5, <2>1 DEF ForgetModel, Goto, At, Calls
  <2>3. SetsAlone(c)' /\ Returns(c)' /\ Returned(c)' /\ Told'
    BY <1>1, <2>2 DEF SetsAlone, Returns, Returned, Told
  <2> QED  BY <1>1, <2>2, <2>3, CalmFrame
<1>6. CASE ForgetMtime(t)
  <2>1. PICK c \in Calls : c = [calls[t] EXCEPT !.pc = "done"]
    BY <1>1 DEF Calls
  <2>2. /\ c.pc = "done" /\ Continue(t, c) /\ UNCHANGED disk /\ c.steady = calls[t].steady
        /\ _MODEL' = _MODEL /\ _MODEL_MTIME' = None /\ calls[t].pc = "forget_mtime"
    BY <1>1, <1>6, <2>1 DEF ForgetMtime, Goto, At, Calls
  <2>3. ~Steady(c)'
    BY <1>1, <2>2 DEF CallOk, Steady, disk
  <2>4. SetsAlone(c)' /\ Returns(c)' /\ Returned(c)' /\ Told'
    BY <2>2, <2>3 DEF SetsAlone, Returns, Returned, Told
  <2> QED  BY <1>1, <2>2, <2>4, CalmFrame
<1>7. CASE Stat(t)
  <2>1. PICK c : c = [calls[t] EXCEPT !.pc = "check_model", !.current_mtime = file.mtime]
    OBVIOUS
  <2>2. c \in Calls
    <3>1. file \in Files
      BY <1>1, <1>7 DEF CallOk, Stat, At
    <3> QED  BY <1>1, <2>1, <3>1 DEF Calls, Files
  <2>3. c.pc = "check_model" /\ Continue(t, c) /\ UNCHANGED <<disk, globals>> /\ calls[t].pc = "stat"
    BY <1>1, <1>7, <2>1 DEF Stat, At, Calls
  <2>4. SetsAlone(c)' /\ Returns(c)' /\ Returned(c)' /\ Told'
    BY <1>1, <2>2, <2>3, ToldKept DEF SetsAlone, Returns, Returned
  <2> QED  BY <1>1, <2>2, <2>3, <2>4, CalmFrame DEF globals
<1>8. CASE CheckModel(t)
  <2>1. PICK c \in Calls : c = [calls[t] EXCEPT !.pc = IF _MODEL = None THEN "load" ELSE "check_mtime"]
    BY <1>1 DEF Calls
  <2>2. /\ c.pc \in {"load", "check_mtime"}
        /\ Continue(t, c) /\ UNCHANGED <<disk, globals>> /\ calls[t].pc = "check_model"
    BY <1>1, <1>8, <2>1 DEF CheckModel, Goto, At, Calls
  <2>3. SetsAlone(c)' /\ Returns(c)' /\ Returned(c)' /\ Told'
    BY <1>1, <2>2, ToldKept DEF SetsAlone, Returns, Returned
  <2> QED  BY <1>1, <2>2, <2>3, CalmFrame DEF globals
<1>9. CASE CheckMtime(t)
  <2>1. PICK c \in Calls :
            c = [calls[t] EXCEPT !.pc =
                    IF _MODEL_MTIME = calls[t].current_mtime THEN "return" ELSE "load"]
    BY <1>1 DEF Calls
  <2>2. /\ c.pc = (IF _MODEL_MTIME = calls[t].current_mtime THEN "return" ELSE "load")
        /\ c.steady = calls[t].steady
        /\ Continue(t, c) /\ UNCHANGED <<disk, globals>> /\ calls[t].pc = "check_mtime"
    BY <1>1, <1>9, <2>1 DEF CheckMtime, Goto, At, Calls
  <2>3. Told'
    BY <1>1, <2>2, ToldKept
  <2>4. SetsAlone(c)' /\ Returned(c)'
    BY <2>2 DEF SetsAlone, Returned
  <2>5. Returns(c)'
    <3>1. SUFFICES ASSUME c.pc = "return", Steady(calls[t])
                   PROVE  _MODEL = file.model /\ \A u \in Threads : Undisturbed(calls'[u])
      BY <2>2 DEF Returns, Steady, Undisturbed, globals, disk
    <3>2. _MODEL_MTIME = file.mtime /\ _MODEL_MTIME # None
      BY <1>1, <2>2, <3>1, RankingModelConstants DEF CallOk, Older, Steady
    <3>3. \A u \in Threads : SetsAlone(calls[u])
      BY <1>1 DEF Calm
    <3>4. \A u \in Threads : Undisturbed(calls[u])
      BY <3>1, <3>2, <3>3 DEF SetsAlone, Undisturbed, Tells, Steady
    <3>5. Undisturbed(c)
      BY <3>1 DEF Undisturbed
    <3>6. \A u \in Threads : Undisturbed(calls'[u])
      BY <1>1, <2>2, <3>4, <3>5, Becomes DEF BaseInv
    <3>7. _MODEL = file.model
      <4>1. CASE \E u \in Threads : calls[u].pc = "store_mtime"
        BY <3>1, <3>2, <3>3, <4>1 DEF SetsAlone, Tells, Steady
      <4>2. CASE \A u \in Threads : calls[u].pc # "store_mtime"
        BY <1>1, <3>1, <3>2, <4>2 DEF Calm, Told, Tells, Steady
      <4> QED  BY <4>1, <4>2
    <3> QED  BY <3>6, <3>7
  <2> QED  BY <1>1, <2>2, <2>3, <2>4, <2>5, CalmFrame DEF globals
<1>10. CASE Load(t)
  <2>1. CASE file.model = Torn
    <3>1. PICK c \in Calls : c = [calls[t] EXCEPT !.pc = "done", !.raised = TRUE]
      BY <1>1 DEF Calls
    <3>2. c.pc = "done" /\ Continue(t, c) /\ UNCHANGED <<disk, globals>> /\ calls[t].pc = "load"
      BY <1>1, <1>10, <2>1, <3>1 DEF Load, At, Calls
    <3>3. SetsAlone(c)' /\ Returns(c)' /\ Returned(c)' /\ Told'
      BY <1>1, <2>1, <3>2, ToldKept DEF SetsAlone, Returns, Returned, Steady, disk
    <3> QED  BY <1>1, <3>2, <3>3, CalmFrame DEF globals
  <2>2. CASE file.model # Torn
    <3>1. file.model \in Models
      BY <1>1, <1>10, <2>2 DEF CallOk, Older, Load, At, Files
    <3>2. PICK c : c = [calls[t] EXCEPT !.pc = "store_model", !.booster = file.model]
      OBVIOUS
    <3>3. /\ c \in Calls /\ c.pc = "store_model" /\ c.booster = file.model
          /\ Continue(t, c) /\ UNCHANGED <<disk, globals>> /\ calls[t].pc = "load"
      BY <1>1, <1>10, <2>2, <3>1, <3>2 DEF Load, At, Calls
    <3>4. SetsAlone(c)' /\ Returns(c)' /\ Returned(c)' /\ Told'
      BY <1>1, <3>1, <3>3, ToldKept DEF SetsAlone, Tells, Returns, Returned, disk
    <3> QED  BY <1>1, <3>3, <3>4, CalmFrame DEF globals
  <2> QED  BY <2>1, <2>2
<1>11. CASE StoreModel(t)
  <2>1. PICK c \in Calls : c = [calls[t] EXCEPT !.pc = "store_mtime"]
    BY <1>1 DEF Calls
  <2>2. /\ c.pc = "store_mtime" /\ c.booster = calls[t].booster
        /\ Continue(t, c) /\ UNCHANGED disk
        /\ _MODEL' = c.booster /\ _MODEL_MTIME' = _MODEL_MTIME /\ calls[t].pc = "store_model"
    BY <1>1, <1>11, <2>1 DEF StoreModel, Goto, At, Calls
  <2>3. SetsAlone(c)' /\ Returns(c)' /\ Returned(c)'
    BY <1>1, <2>2 DEF SetsAlone, Tells, Returns, Returned, disk
  <2>4. Told'
    <3>1. calls'[t].pc = "store_mtime"
      BY <1>1, <2>2, Becomes DEF BaseInv
    <3> QED  BY <3>1 DEF Told
  <2> QED  BY <1>1, <2>2, <2>3, <2>4, CalmFrame
<1>12. CASE StoreMtime(t)
  <2>1. PICK c \in Calls : c = [calls[t] EXCEPT !.pc = "return"]
    BY <1>1 DEF Calls
  <2>2. /\ c.pc = "return" /\ c.steady = calls[t].steady
        /\ Continue(t, c) /\ UNCHANGED disk
        /\ _MODEL' = _MODEL /\ _MODEL_MTIME' = calls[t].current_mtime
        /\ calls[t].pc = "store_mtime"
    BY <1>1, <1>12, <2>1 DEF StoreMtime, Goto, At, Calls
  <2>3. _MODEL = calls[t].booster /\ Tells(calls[t].current_mtime, calls[t].booster)
    BY <1>1, <2>2 DEF SetsAlone, CallOk
  <2>4. SetsAlone(c)' /\ Returned(c)' /\ Told'
    BY <2>2, <2>3 DEF SetsAlone, Returned, Told, Tells, disk
  <2>5. Returns(c)'
    <3>1. SUFFICES ASSUME Steady(calls[t])
                   PROVE  _MODEL = file.model /\ \A u \in Threads : Undisturbed(calls'[u])
      BY <2>2 DEF Returns, Steady, Undisturbed, disk
    <3>2. _MODEL = file.model
      BY <1>1, <2>2, <2>3, <3>1 DEF CallOk, Steady, Tells
    <3>3. \A u \in Threads \ {t} : Undisturbed(calls[u])
      BY <1>2, <2>2 DEF Undisturbed
    <3>4. Undisturbed(c)
      BY <2>2 DEF Undisturbed
    <3>5. \A u \in Threads : Undisturbed(calls'[u])
      BY <1>1, <2>2, <3>3, <3>4, Becomes DEF BaseInv
    <3> QED  BY <3>2, <3>5
  <2> QED  BY <1>1, <2>2, <2>4, <2>5, CalmFrame
<1>13. CASE Return(t)
  <2>1. PICK c \in Calls : c = [calls[t] EXCEPT !.pc = "done", !.result = _MODEL]
    BY <1>1 DEF Calls
  <2>2. /\ c.pc = "done" /\ c.result = _MODEL
        /\ c.steady = calls[t].steady /\ c.raised = calls[t].raised
        /\ Continue(t, c) /\ UNCHANGED <<disk, globals>> /\ calls[t].pc = "return"
    BY <1>1, <1>13, <2>1 DEF Return, At, Calls
  <2>3. Returned(c)'
    BY <1>1, <2>2 DEF Returned, Returns, Steady, CallOk, disk
  <2>4. SetsAlone(c)' /\ Returns(c)' /\ Told'
    BY <1>1, <2>2, ToldKept DEF SetsAlone, Returns
  <2> QED  BY <1>1, <2>2, <2>3, <2>4, CalmFrame DEF globals
<1>14. CASE Finish(t)
  <2>1. /\ NoCall.pc = "idle" /\ NoCall \in Calls /\ Continue(t, NoCall)
        /\ UNCHANGED <<disk, globals>> /\ calls[t].pc = "done"
    BY <1>14, NoCallTyped DEF Finish, At, NoCall
  <2>2. SetsAlone(NoCall)' /\ Returns(NoCall)' /\ Returned(NoCall)' /\ Told'
    BY <1>1, <2>1, ToldKept DEF SetsAlone, Returns, Returned, NoCall
  <2> QED  BY <1>1, <2>1, <2>2, CalmFrame DEF globals
<1> QED  BY <1>3, <1>4, <1>5, <1>6, <1>7, <1>8, <1>9, <1>10, <1>11, <1>12, <1>13, <1>14
         DEF Step, LoadModel
-----------------------------------------------------------------------------
\* The trainer and a restart.

\* A new content comes with a later mtime, but for the one that ends a save,
\* and nothing has been loaded in its course.
LEMMA SaveKeepsTold ==
    ASSUME BaseInv, BeginSave \/ EndSave
    PROVE  /\ file' # None
           /\ \A m : Older(m) => /\ Older(m)'
                                 /\ \A b : Tells(m, b) => Tells(m, b)'
<1>1. /\ file \in Files \cup {None} /\ FileInv /\ saves \in Nat /\ file' # None
      /\ None \notin Files /\ MaxSaves \in Nat
  <2>1. file' # None
    <3>1. file' \in [mtime : {file'.mtime}, model : {file'.model}]
      BY DEF BeginSave, EndSave
    <3>2. file'.mtime \in Mtimes /\ file'.model \in Models \cup {Torn}
      BY RankingModelConstants DEF BeginSave, EndSave, BaseInv, TypeOK, FileInv, Files
    <3> QED  BY <3>1, <3>2, RankingModelConstants DEF Files
  <2> QED  BY <2>1, RankingModelConstants DEF BaseInv, TypeOK
<1>2. SUFFICES ASSUME NEW m, Older(m)
               PROVE  Older(m)' /\ \A b : Tells(m, b) => Tells(m, b)'
  BY <1>1
<1>3. file \in Files /\ m \in Mtimes /\ m <= file.mtime
  BY <1>1, <1>2 DEF Older
<1>4. CASE BeginSave
  <2>1. file'.mtime = file.mtime + 1
    BY <1>2, <1>3, <1>4 DEF BeginSave, Older
  <2> QED  BY <1>1, <1>3, <2>1 DEF Older, Tells, Files
<1>5. CASE EndSave
  <2>1. PICK tick \in {0, 1} : file' = [mtime |-> file.mtime + tick, model |-> saves]
    BY <1>5 DEF EndSave
  <2>2. file.model = Torn
    BY <1>1, <1>5 DEF EndSave, FileInv
  <2> QED  BY <1>1, <1>3, <2>1, <2>2 DEF Older, Tells, Files
<1> QED  BY <1>4, <1>5

LEMMA SaveTyped ==
    ASSUME BaseInv, BeginSave \/ EndSave
    PROVE  /\ TypeOK' /\ FileInv'
           /\ calls' = [t \in Threads |-> [calls[t] EXCEPT !.steady = FALSE]]
           /\ UNCHANGED <<globals, raced>>
<1>1. /\ file \in Files \cup {None} /\ FileInv /\ saves \in 0 .. MaxSaves /\ MaxSaves \in Nat
      /\ None \notin Files /\ calls \in [Threads -> Calls]
  BY RankingModelConstants DEF BaseInv, TypeOK
<1>2. calls' = [t \in Threads |-> [calls[t] EXCEPT !.steady = FALSE]]
      /\ UNCHANGED <<globals, raced>>
  BY DEF BeginSave, EndSave, Unsteady
<1>3. calls' \in [Threads -> Calls]
  BY <1>1, <1>2 DEF Calls
<1>4. saves' \in 0 .. MaxSaves /\ saving' \in BOOLEAN /\ file' \in Files /\ FileInv'
  <2>1. CASE BeginSave
    <3>1. saves' = saves + 1 /\ saves < MaxSaves /\ saving' = TRUE
          /\ file' = [mtime |-> IF file = None THEN 1 ELSE file.mtime + 1, model |-> Torn]
      BY <2>1 DEF BeginSave
    <3>2. file # None => file.mtime \in 1 .. 2 * MaxSaves /\ file.mtime <= 2 * saves
      BY <1>1 DEF Files, FileInv
    <3>3. file'.mtime \in 1 .. 2 * MaxSaves /\ file'.mtime < 2 * saves'
      BY <1>1, <3>1, <3>2
    <3>4. file' \in Files /\ file'.model = Torn
      BY <3>1, <3>3 DEF Files
    <3> QED  BY <1>1, <3>1, <3>3, <3>4 DEF FileInv, Files
  <2>2. CASE EndSave
    <3>1. PICK tick \in {0, 1} : file' = [mtime |-> file.mtime + tick, model |-> saves]
      BY <2>2 DEF EndSave
    <3>2. saving' = FALSE /\ saves' = saves /\ saving
      BY <2>2 DEF EndSave
    <3>3. file.mtime \in 1 .. 2 * MaxSaves /\ file.mtime < 2 * saves
      BY <1>1, <3>2 DEF Files, FileInv
    <3>4. file'.mtime \in 1 .. 2 * MaxSaves /\ file'.mtime <= 2 * saves /\ saves \in 1 .. MaxSaves
      BY <1>1, <3>1, <3>3
    <3>5. file' \in Files
      BY <3>1, <3>4 DEF Files
    <3> QED  BY <1>1, <3>2, <3>4, <3>5 DEF FileInv
  <2> QED  BY <2>1, <2>2
<1>5. TypeOK'
  <2>1. /\ _MODEL' \in Models \cup {None} /\ _MODEL_MTIME' \in Mtimes \cup {None}
        /\ raced' \in BOOLEAN
    BY <1>2 DEF globals, BaseInv, TypeOK
  <2> QED  BY <1>3, <1>4, <2>1 DEF TypeOK
<1> QED  BY <1>2, <1>4, <1>5

LEMMA SaveKeeps == ASSUME IInv, BeginSave \/ EndSave PROVE IInv'
<1>1. BaseInv /\ calls \in [Threads -> Calls]
  BY DEF IInv, BaseInv, TypeOK
<1>2. ASSUME NEW t \in Threads
      PROVE  /\ calls'[t].pc = calls[t].pc /\ calls'[t].steady = FALSE
             /\ calls'[t].current_mtime = calls[t].current_mtime
             /\ calls'[t].booster = calls[t].booster /\ calls'[t].raised = calls[t].raised
  BY <1>1, SaveTyped DEF Calls
<1>3. BaseInv'
  <2>1. ASSUME NEW t \in Threads PROVE CallOk(calls[t])'
    BY <1>1, <1>2, SaveKeepsTold DEF BaseInv, CallOk
  <2>2. _MODEL_MTIME' # None => Older(_MODEL_MTIME)'
    <3>1. _MODEL_MTIME # None => Older(_MODEL_MTIME) /\ _MODEL_MTIME' = _MODEL_MTIME
      BY <1>1, SaveTyped DEF BaseInv, globals
    <3>2. PICK m : m = _MODEL_MTIME
      OBVIOUS
    <3>3. Older(m) => Older(m)'
      BY <1>1, SaveKeepsTold
    <3> QED  BY <3>1, <3>2, <3>3, SaveTyped, <1>1 DEF globals, Older
  <2> QED  BY <1>1, <2>1, <2>2, SaveTyped DEF BaseInv
<1>4. ASSUME ~raced' PROVE Calm'
  <2>1. Calm /\ UNCHANGED globals
    BY <1>1, <1>4, SaveTyped DEF IInv
  <2>2. OneSets'
    BY <1>2, <2>1 DEF Calm, OneSets
  <2>3. ASSUME NEW b, _MODEL_MTIME # None, Tells(_MODEL_MTIME, b)
        PROVE  /\ b \in Models
               /\ file' # None /\ file'.mtime = _MODEL_MTIME => file'.model = b
    <3>1. PICK m : m = _MODEL_MTIME
      OBVIOUS
    <3>2. Older(m) /\ Tells(m, b)
      BY <1>1, <2>3, <3>1 DEF BaseInv
    <3>3. Tells(m, b)'
      BY <1>1, <3>2, SaveKeepsTold
    <3> QED  BY <3>1, <3>3 DEF Tells
  <2>4. Told'
    BY <1>2, <2>1, <2>3 DEF Calm, Told, Tells, globals
  <2>5. ASSUME NEW t \in Threads
        PROVE  SetsAlone(calls[t])' /\ Returns(calls[t])' /\ Returned(calls[t])'
    <3>1. SetsAlone(calls[t])'
      BY <1>2, <2>1, <2>3 DEF Calm, SetsAlone, Tells, globals
    <3>2. Returns(calls[t])' /\ Returned(calls[t])'
      BY <1>2 DEF Returns, Returned, Steady
    <3> QED  BY <3>1, <3>2
  <2> QED  BY <2>2, <2>4, <2>5 DEF Calm
<1> QED  BY <1>3, <1>4 DEF IInv

LEMMA KillKeeps == ASSUME IInv, KillTrainer PROVE IInv'
<1>1. /\ UNCHANGED <<file, saves, _MODEL, _MODEL_MTIME, calls, raced>> /\ saving' = FALSE
  BY DEF KillTrainer, globals
<1>2. BaseInv'
  BY <1>1 DEF IInv, BaseInv, TypeOK, FileInv, CallOk, Older, Tells, Calls
<1>3. Calm => Calm'
  BY <1>1 DEF Calm, OneSets, Told, SetsAlone, Returns, Returned, Steady, Undisturbed, Tells
<1> QED  BY <1>1, <1>2, <1>3 DEF IInv

LEMMA RestartKeeps == ASSUME IInv, RestartApi PROVE IInv'
<1>1. /\ UNCHANGED <<file, saves, saving>> /\ _MODEL' = None /\ _MODEL_MTIME' = None
      /\ calls' = [t \in Threads |-> NoCall] /\ raced' = FALSE
  BY DEF RestartApi, disk
<1>2. NoCall \in Calls /\ NoCall.pc = "idle" /\ ~NoCall.steady /\ ~NoCall.raised
  BY NoCallTyped DEF NoCall
<1>3. BaseInv'
  BY <1>1, <1>2 DEF IInv, BaseInv, TypeOK, FileInv, CallOk
<1>4. Calm'
  BY <1>1, <1>2 DEF Calm, OneSets, Told, SetsAlone, Returns, Returned
<1> QED  BY <1>3, <1>4 DEF IInv

LEMMA Start == Init => IInv
<1> SUFFICES ASSUME Init PROVE IInv
  OBVIOUS
<1>1. NoCall \in Calls /\ NoCall.pc = "idle" /\ ~NoCall.steady /\ ~NoCall.raised
  BY NoCallTyped DEF NoCall
<1>2. BaseInv
  <2>1. TypeOK
    <3>1. calls \in [Threads -> Calls] /\ saves \in 0 .. MaxSaves
      BY <1>1, RankingModelConstants DEF Init
    <3>2. /\ file \in Files \cup {None} /\ _MODEL \in Models \cup {None}
          /\ _MODEL_MTIME \in Mtimes \cup {None}
      BY DEF Init
    <3>3. saving \in BOOLEAN /\ raced \in BOOLEAN
      BY Zenon DEF Init
    <3> QED  BY <3>1, <3>2, <3>3 DEF TypeOK
  <2> QED  BY <1>1, <2>1 DEF Init, BaseInv, FileInv, CallOk
<1>3. Calm
  BY <1>1 DEF Init, Calm, OneSets, Told, SetsAlone, Returns, Returned
<1> QED  BY <1>2, <1>3 DEF IInv

LEMMA Inductive == IInv /\ [Next]_vars => IInv'
<1> SUFFICES ASSUME IInv, [Next]_vars PROVE IInv'
  OBVIOUS
<1>1. CASE \E t \in Threads : Step(t)
  BY <1>1, StepBase, StepCalm DEF IInv
<1>2. CASE UNCHANGED vars
  <2>1. UNCHANGED <<file, saves, saving, _MODEL, _MODEL_MTIME, calls, raced>>
    BY <1>2 DEF vars, disk, globals
  <2>2. BaseInv'
    BY <2>1 DEF IInv, BaseInv, TypeOK, FileInv, CallOk, Older, Tells, Calls
  <2>3. Calm => Calm'
    BY <2>1 DEF Calm, OneSets, Told, SetsAlone, Returns, Returned, Steady, Undisturbed, Tells
  <2> QED  BY <2>1, <2>2, <2>3 DEF IInv
<1> QED  BY <1>1, <1>2, SaveKeeps, KillKeeps, RestartKeeps DEF Next, Step
-----------------------------------------------------------------------------
THEOREM Invariance == Spec => []IInv
BY Start, Inductive, PTL DEF Spec

\* Type correctness.  That no torn file becomes a model is part of it, but no more
\* than what is assumed of Booster, which raises on one.
THEOREM Types == Spec => []TypeOK
<1>1. IInv => TypeOK
  BY DEF IInv, BaseInv
<1> QED  BY Invariance, <1>1, PTL

\* _load_model reads the mtime before the file: an mtime that is the file's
\* comes with the file's model.
THEOREM HonestPair == Spec => []PairHonest
<1>1. IInv => PairHonest
  BY DEF IInv, Calm, Told, Tells, PairHonest, At
<1> QED  BY Invariance, <1>1, PTL

\* The searches after a training rank by the new model.
THEOREM CurrentModel == Spec => []CurrentUnlessRaced
<1>1. ASSUME IInv PROVE CurrentUnlessRaced
  <2>1. SUFFICES ASSUME ~raced, NEW t \in Threads, At(t, "done"), calls[t].steady,
                        calls[t].asked # None, calls[t].asked.model # Torn
                 PROVE  ~calls[t].raised /\ calls[t].result = file.model
    BY DEF CurrentUnlessRaced, Current
  <2>2. calls[t].asked = file
    BY <1>1, <2>1 DEF IInv, BaseInv, CallOk
  <2> QED  BY <1>1, <2>1, <2>2 DEF IInv, Calm, Returned, Steady, At
<1> QED  BY Invariance, <1>1, PTL
=============================================================================
