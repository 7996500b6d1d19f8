--------------------------- MODULE DocLintProofs ---------------------------
(* Theorems about DocLint, for every set of documents and replicas.         *)
EXTENDS DocLint, TLAPS

USE ExecsAssumption, DocsAssumption, RestartsAssumption, FaultsAssumption
    DEF ExecsAssumption, DocsAssumption, RestartsAssumption, FaultsAssumption

-----------------------------------------------------------------------------
(* Type correctness                                                         *)

LEMMA InitTypeOK == Init => TypeOK
<1> SUFFICES ASSUME Init PROVE TypeOK
  OBVIOUS
<1>1. ASSUME NEW t \in InitialTasks PROVE t \in Task
  <2>1. 0 \in 0..RestartLimit
    OBVIOUS
  <2> QED BY <2>1 DEF InitialTasks, Task, Outcomes
<1>2. IdleWorker \in Worker /\ IdleWorker.pc = "idle"
  BY DEF IdleWorker, Worker, Outcomes
<1> QED BY <1>1, <1>2 DEF Init, TypeOK

LEMMA WithStatusTyped ==
  ASSUME task \in [Docs -> Task], NEW d \in Docs,
         NEW s \in {"not_started", "processing"} \cup Outcomes
  PROVE  WithStatus(d, s) \in [Docs -> Task]
<1>1. [task[d] EXCEPT !.status = s, !.stale = FALSE] \in Task
  BY DEF Task
<1> QED BY <1>1 DEF WithStatus

\* Taking a row keeps every row typed: the limit is checked before the count.
LEMMA TakeRowTyped ==
  ASSUME TypeOK, NEW e \in Execs, NEW d \in Docs, TakeRow(e, d)
  PROVE  task' \in [Docs -> Task]
<1>1. RestartsAfter(d) \in 0..RestartLimit
  BY DEF TakeRow, RestartsLeft, RestartsAfter, TypeOK, Task
<1> QED BY <1>1 DEF TakeRow, TypeOK, Task

LEMMA SaveTyped ==
  ASSUME TypeOK, NEW e \in Execs, NEW d \in Docs, NEW o \in Outcomes,
         SaveLintResult(e, d, o) \/ UNCHANGED <<task, resultVars>>
  PROVE  /\ task' \in [Docs -> Task]
         /\ linted' \in [Docs -> Outcomes \cup {"none"}]
         /\ fileResult' \in SUBSET Docs
         /\ lintedVersion' \in {"none", "inProgress"}
<1>1. CASE SaveLintResult(e, d, o)
  BY <1>1, WithStatusTyped DEF SaveLintResult, TypeOK, Outcomes
<1>2. CASE UNCHANGED <<task, resultVars>>
  BY <1>2 DEF resultVars, TypeOK
<1> QED BY <1>1, <1>2

LEMMA NextTypeOK == TypeOK /\ [Next]_vars => TypeOK'
<1> SUFFICES ASSUME TypeOK, [Next]_vars PROVE TypeOK'
  OBVIOUS
<1> USE DEF resultVars, keepaliveVars
<1>1. ASSUME NEW e \in Execs, NEW d \in Docs, TakeDocTask(e, d)
      PROVE  TypeOK'
  <2>1. task' \in [Docs -> Task]
    BY <1>1, TakeRowTyped DEF TakeDocTask
  <2> QED BY <1>1, <2>1 DEF TakeDocTask, StartRun, TypeOK, Worker, Outcomes
<1>2. ASSUME NEW e \in Execs, NEW d \in Docs, FailDocTask(e, d)
      PROVE  TypeOK'
  <2>1. task' \in [Docs -> Task]
    BY <1>2, WithStatusTyped DEF FailDocTask, TypeOK, Outcomes
  <2>2. /\ worker' \in [Execs -> Worker]
        /\ \A x \in Execs : worker'[x].pc # "idle" => worker'[x].doc \in Docs
    BY <1>2 DEF FailDocTask, TypeOK, Worker
  <2> QED BY <1>2, <2>1, <2>2 DEF FailDocTask, TypeOK
<1>3. ASSUME NEW e \in Execs, FindNoDocTask(e)
      PROVE  TypeOK'
  <2>1. CASE worker[e].leftover = NoDoc
    BY <1>3, <2>1 DEF FindNoDocTask, vars, TypeOK
  <2>2. CASE worker[e].leftover # NoDoc
    BY <1>3, <2>2 DEF FindNoDocTask, StartRun, TypeOK, Worker, Outcomes
  <2> QED BY <2>1, <2>2
<1>4. ASSUME NEW e \in Execs, FindFails(e)
      PROVE  TypeOK'
  <2>1. IdleWorker \in Worker /\ IdleWorker.pc = "idle"
    BY DEF IdleWorker, Worker, Outcomes
  <2>2. task' \in [Docs -> Task]
    BY <1>4, TakeRowTyped DEF FindFails, TypeOK
  <2>3. faults' \in 0..MaxFaults
    BY <1>4 DEF FindFails, TypeOK
  <2> QED BY <1>4, <2>1, <2>2, <2>3 DEF FindFails, TypeOK
<1>5. ASSUME NEW e \in Execs, LintDocument(e)
      PROVE  TypeOK'
  <2>1. PICK outcome \in Outcomes :
          worker' = [worker EXCEPT ![e].pc = "saving", ![e].outcome = outcome]
    BY <1>5 DEF LintDocument
  <2>2. /\ worker' \in [Execs -> Worker]
        /\ \A x \in Execs : worker'[x].pc # "idle" => worker'[x].doc \in Docs
    <3>1. worker[e] \in Worker /\ worker[e].doc \in Docs
      BY <1>5 DEF LintDocument, TypeOK
    <3>2. [[worker[e] EXCEPT !.pc = "saving"] EXCEPT !.outcome = outcome] \in Worker
      BY <3>1 DEF Worker
    <3>3. /\ worker' \in [Execs -> Worker]
          /\ \A x \in Execs : worker'[x].doc = worker[x].doc
      BY <2>1, <3>1, <3>2 DEF TypeOK, Worker
    <3>4. \A x \in Execs \ {e} : worker'[x] = worker[x]
      BY <2>1 DEF TypeOK
    <3> QED BY <3>1, <3>3, <3>4 DEF TypeOK
  <2> QED BY <1>5, <2>2 DEF LintDocument, TypeOK
<1>6. ASSUME NEW e \in Execs, AbortRun(e)
      PROVE  TypeOK'
  BY <1>6 DEF AbortRun, TypeOK, Worker, Outcomes
<1>7. ASSUME NEW e \in Execs, SaveRun(e)
      PROVE  TypeOK'
  <2>1. worker[e].doc \in Docs /\ worker[e].outcome \in Outcomes
    BY <1>7 DEF SaveRun, TypeOK, Worker
  <2>2. \/ SaveLintResult(e, worker[e].doc, worker[e].outcome)
        \/ UNCHANGED <<task, resultVars>>
    BY <1>7 DEF SaveRun, SaveRefused, SaveLost
  <2>3. /\ worker' \in [Execs -> Worker]
        /\ \A x \in Execs : worker'[x].pc # "idle" => worker'[x].doc \in Docs
    BY <1>7, <2>1 DEF SaveRun, IdleWorker, TypeOK, Worker, Outcomes
  <2>4. faults' \in 0..MaxFaults
    BY <1>7 DEF SaveRun, SaveLost, TypeOK
  <2> QED BY <1>7, <2>1, <2>2, <2>3, <2>4, SaveTyped DEF SaveRun, TypeOK
<1>8. ASSUME NEW e \in Execs, HandleError(e)
      PROVE  TypeOK'
  <2>1. worker[e].doc \in Docs /\ "error" \in Outcomes
    BY <1>8 DEF HandleError, TypeOK, Worker, Outcomes
  <2>2. \/ SaveLintResult(e, worker[e].doc, "error")
        \/ UNCHANGED <<task, resultVars>>
    BY <1>8 DEF HandleError, SaveRefused, SaveLost
  <2>3. /\ worker' \in [Execs -> Worker]
        /\ \A x \in Execs : worker'[x].pc # "idle" => worker'[x].doc \in Docs
    BY <1>8 DEF HandleError, IdleWorker, TypeOK, Worker, Outcomes
  <2>4. faults' \in 0..MaxFaults
    BY <1>8 DEF HandleError, SaveLost, TypeOK
  <2> QED BY <1>8, <2>1, <2>2, <2>3, <2>4, SaveTyped DEF HandleError, TypeOK
<1>9. ASSUME NEW e \in Execs, NEW d \in Docs, Keepalive(e, d)
      PROVE  TypeOK'
  <2>1. CASE KeepaliveCheck(e, d)
    BY <2>1 DEF KeepaliveCheck, TypeOK
  <2>2. CASE KeepaliveWrite(e, d)
    BY <2>2, WithStatusTyped DEF KeepaliveWrite, TypeOK
  <2>3. CASE KeepaliveStop(e, d)
    BY <2>3 DEF KeepaliveStop, TypeOK
  <2> QED BY <1>9, <2>1, <2>2, <2>3 DEF Keepalive
<1>10. ASSUME NEW d \in Docs, Expire(d)
       PROVE  TypeOK'
  BY <1>10 DEF Expire, TypeOK, Task
<1>11. ASSUME NEW e \in Execs, Crash(e)
       PROVE  TypeOK'
  BY <1>11 DEF Crash, IdleWorker, TypeOK, Worker, Outcomes
<1>12. CASE UNCHANGED vars
  BY <1>12 DEF vars, TypeOK
<1> QED
  BY <1>1, <1>2, <1>3, <1>4, <1>5, <1>6, <1>7, <1>8, <1>9, <1>10, <1>11, <1>12
  DEF Next, FindFreeDocTask, ProcessDocTask

\* Every reachable state is well typed; a busy worker always has a document.
THEOREM TypeCorrect == Spec => []TypeOK
BY InitTypeOK, NextTypeOK, PTL DEF Spec

-----------------------------------------------------------------------------
(* Results.  Only SaveRun and HandleError touch the result tables, both      *)
(* through SaveLintResult; every other step changes a task row at most and   *)
(* never to success.                                                         *)

\* A task row whose status is set to something but success loses its claim,
\* every other task keeps its own.
LEMMA OtherStatusKeepsResult ==
  ASSUME TypeOK, SuccessHasResult, UNCHANGED resultVars,
         \A d \in Docs : task'[d].status = "success" => task[d].status = "success"
  PROVE  SuccessHasResult'
BY DEF SuccessHasResult, resultVars

LEMMA SaveKeepsResult ==
  ASSUME TypeOK, SuccessHasResult, NEW e \in Execs, NEW d \in Docs,
         NEW o \in Outcomes, SaveLintResult(e, d, o)
  PROVE  SuccessHasResult'
<1> SUFFICES ASSUME NEW x \in Docs, task'[x].status = "success"
             PROVE  /\ linted'[x] = "success"
                    /\ x \in fileResult'
                    /\ lintedVersion' = "inProgress"
  BY DEF SuccessHasResult
<1>1. CASE x = d
  <2>1. o = "success"
    BY <1>1 DEF SaveLintResult, WithStatus, TypeOK, Task
  <2> QED BY <1>1, <2>1 DEF SaveLintResult, TypeOK
<1>2. CASE x # d
  <2>1. task[x].status = "success"
    BY <1>2 DEF SaveLintResult, WithStatus, TypeOK, Task
  <2> QED BY <1>2, <2>1 DEF SaveLintResult, SuccessHasResult, TypeOK
<1> QED BY <1>1, <1>2

\* What the steps that do not save can do to the tables.
NoNewSuccess ==
  /\ UNCHANGED resultVars
  /\ \A d \in Docs : task'[d].status = "success" => task[d].status = "success"

\* At most one task row changes: it keeps its status, goes to processing, or is
\* failed before it was finished.
OneTaskMoves ==
  /\ UNCHANGED resultVars
  /\ \/ UNCHANGED task
     \/ \E d \in Docs :
           /\ \A x \in Docs : x # d => task'[x] = task[x]
           /\ \/ task'[d].status \in {task[d].status, "processing"}
              \/ task'[d].status = "error" /\ ~Finished(d)

LEMMA MovesWithoutSuccess == OneTaskMoves => NoNewSuccess
BY DEF OneTaskMoves, NoNewSuccess

Saves(e) == \E d \in Docs, o \in Outcomes :
              /\ e \in alive
              /\ worker[e].doc = d
              /\ worker[e].pc \in {"saving", "failing"}
              /\ SaveLintResult(e, d, o)

LEMMA StepSavesOrNot ==
  TypeOK /\ [Next]_vars => OneTaskMoves \/ \E e \in Execs : Saves(e)
<1> SUFFICES ASSUME TypeOK, [Next]_vars
             PROVE  OneTaskMoves \/ \E e \in Execs : Saves(e)
  OBVIOUS
<1> USE DEF OneTaskMoves
<1>0. ASSUME NEW d \in Docs, NEW s \in {"processing", "error"},
             task' = WithStatus(d, s), s = "error" => ~Finished(d), UNCHANGED resultVars
      PROVE  OneTaskMoves
  BY <1>0 DEF WithStatus, TypeOK, Task
<1>1. ASSUME NEW e \in Execs, FindFreeDocTask(e)
      PROVE  OneTaskMoves
  <2>1. ASSUME NEW d \in Docs, TakeRow(e, d), UNCHANGED resultVars
        PROVE  OneTaskMoves
    BY <2>1 DEF TakeRow, TypeOK, Task
  <2>2. ASSUME NEW d \in Docs, FailDocTask(e, d)
        PROVE  OneTaskMoves
    <3>1. ~Finished(d)
      BY <2>2 DEF FailDocTask, Free, Finished, Outcomes
    <3> QED BY <1>0, <2>2, <3>1 DEF FailDocTask
  <2>3. CASE FindNoDocTask(e)
    BY <2>3 DEF FindNoDocTask, vars
  <2>4. CASE FindFails(e)
    BY <2>1, <2>4 DEF FindFails
  <2> QED BY <1>1, <2>1, <2>2, <2>3, <2>4 DEF FindFreeDocTask, TakeDocTask
<1>2. ASSUME NEW e \in Execs, LintDocument(e) \/ AbortRun(e) \/ Crash(e)
      PROVE  OneTaskMoves
  BY <1>2 DEF LintDocument, AbortRun, Crash
<1>3. ASSUME NEW e \in Execs, SaveRun(e) \/ HandleError(e)
      PROVE  OneTaskMoves \/ Saves(e)
  <2>1. /\ worker[e].doc \in Docs
        /\ worker[e].outcome \in Outcomes
        /\ "error" \in Outcomes
        /\ e \in alive
        /\ worker[e].pc \in {"saving", "failing"}
    BY <1>3 DEF SaveRun, HandleError, TypeOK, Worker, Outcomes
  <2>2. \/ SaveLintResult(e, worker[e].doc, worker[e].outcome)
        \/ SaveLintResult(e, worker[e].doc, "error")
        \/ UNCHANGED <<task, resultVars>>
    BY <1>3 DEF SaveRun, HandleError, SaveRefused, SaveLost
  <2>3. CASE UNCHANGED <<task, resultVars>>
    BY <2>3
  <2> QED BY <2>1, <2>2, <2>3 DEF Saves
<1>4. ASSUME NEW e \in Execs, NEW d \in Docs, Keepalive(e, d)
      PROVE  OneTaskMoves
  <2>1. CASE KeepaliveWrite(e, d)
    BY <1>0, <2>1 DEF KeepaliveWrite
  <2>2. CASE KeepaliveCheck(e, d) \/ KeepaliveStop(e, d)
    BY <2>2 DEF KeepaliveCheck, KeepaliveStop
  <2> QED BY <1>4, <2>1, <2>2 DEF Keepalive
<1>5. ASSUME NEW d \in Docs, Expire(d)
      PROVE  OneTaskMoves
  BY <1>5 DEF Expire, TypeOK, Task
<1>6. CASE UNCHANGED vars
  BY <1>6 DEF vars
<1> QED BY <1>1, <1>2, <1>3, <1>4, <1>5, <1>6 DEF Next, ProcessDocTask

LEMMA NextSuccessHasResult ==
  TypeOK /\ SuccessHasResult /\ [Next]_vars => SuccessHasResult'
<1> SUFFICES ASSUME TypeOK, SuccessHasResult, [Next]_vars
             PROVE  SuccessHasResult'
  OBVIOUS
<1>1. CASE OneTaskMoves
  BY <1>1, MovesWithoutSuccess, OtherStatusKeepsResult DEF NoNewSuccess
<1>2. CASE \E e \in Execs : Saves(e)
  BY <1>2, SaveKeepsResult DEF Saves
<1> QED BY <1>1, <1>2, StepSavesOrNot

\* Whatever replicas, crashes, refreshes and failing calls do, a task that
\* reads success has the whole result SaveLintResult stores with it.
THEOREM SuccessIsWhole == Spec => []SuccessHasResult
<1>1. Init => SuccessHasResult
  BY DEF Init, InitialTasks, SuccessHasResult
<1> QED BY <1>1, InitTypeOK, NextTypeOK, NextSuccessHasResult, PTL DEF Spec

\* Only the executor named in the task row, ending its own run on the document,
\* changes a result or makes a task a success.
THEOREM OwnerRecords == Spec => OnlyOwnerRecords
<1> DEFINE OwnerStep ==
      \A d \in Docs :
          \/ linted'[d] # linted[d]
          \/ task'[d].status = "success" /\ task[d].status # "success"
          => \E e \in alive : /\ worker[e].doc = d
                              /\ worker[e].pc \in {"saving", "failing"}
                              /\ task[d].executor = e
<1>1. TypeOK /\ [Next]_vars => [OwnerStep]_vars
  <2> SUFFICES ASSUME TypeOK, [Next]_vars PROVE OwnerStep
    OBVIOUS
  <2>1. CASE OneTaskMoves
    BY <2>1, MovesWithoutSuccess DEF NoNewSuccess, resultVars
  <2>2. ASSUME NEW e \in Execs, Saves(e)
        PROVE  OwnerStep
    BY <2>2 DEF Saves, SaveLintResult, WithStatus, TypeOK, Task
  <2> QED BY <2>1, <2>2, StepSavesOrNot
<1> QED BY <1>1, TypeCorrect, PTL DEF Spec, OnlyOwnerRecords

-----------------------------------------------------------------------------
(* Restarts.  FindFreeDocTask may hand out a task that it has failed itself in *)
(* an earlier round; such a task has no restarts left, then or later.         *)

\* Restarts are counted up, never down, and a used up task is not taken.
RestartsKept ==
  \A d \in Docs : task[d].restarts = RestartLimit => task'[d].restarts = RestartLimit

LeftoverExhausted ==
  \A e \in Execs : worker[e].leftover # NoDoc =>
                      task[worker[e].leftover].restarts = RestartLimit

LEMMA RestartsStay ==
  ASSUME TypeOK, [Next]_vars
  PROVE  RestartsKept
<1> USE DEF RestartsKept
<1>1. ASSUME NEW d \in Docs, NEW s \in {"processing", "success", "error"}, task' = WithStatus(d, s)
      PROVE  RestartsKept
  BY <1>1 DEF WithStatus, TypeOK, Task
<1>2. ASSUME NEW e \in Execs, NEW d \in Docs, TakeRow(e, d)
      PROVE  RestartsKept
  BY <1>2 DEF TakeRow, RestartsLeft, TypeOK, Task
<1>3. ASSUME NEW e \in Execs, FindFreeDocTask(e) PROVE RestartsKept
  BY <1>1, <1>2, <1>3 DEF FindFreeDocTask, TakeDocTask, FailDocTask, FindNoDocTask, FindFails, vars
<1>4. ASSUME NEW e \in Execs, NEW d \in Docs, NEW o \in Outcomes,
             SaveLintResult(e, d, o) \/ UNCHANGED <<task, resultVars>>
      PROVE  RestartsKept
  BY <1>1, <1>4 DEF SaveLintResult, Outcomes
<1>5. ASSUME NEW e \in Execs, SaveRun(e) \/ HandleError(e) PROVE RestartsKept
  <2>1. worker[e].doc \in Docs /\ worker[e].outcome \in Outcomes /\ "error" \in Outcomes
    BY <1>5 DEF SaveRun, HandleError, TypeOK, Worker, Outcomes
  <2>2. \/ SaveLintResult(e, worker[e].doc, worker[e].outcome)
        \/ SaveLintResult(e, worker[e].doc, "error")
        \/ UNCHANGED <<task, resultVars>>
    BY <1>5 DEF SaveRun, HandleError, SaveRefused, SaveLost
  <2> QED BY <1>4, <2>1, <2>2
<1>6. ASSUME NEW e \in Execs, NEW d \in Docs, Keepalive(e, d) PROVE RestartsKept
  BY <1>1, <1>6 DEF Keepalive, KeepaliveCheck, KeepaliveWrite, KeepaliveStop
<1>7. ASSUME NEW d \in Docs, Expire(d) PROVE RestartsKept
  BY <1>7 DEF Expire, TypeOK, Task
<1>8. ASSUME NEW e \in Execs, LintDocument(e) \/ AbortRun(e) \/ Crash(e) PROVE RestartsKept
  BY <1>8 DEF LintDocument, AbortRun, Crash
<1>9. CASE UNCHANGED vars
  BY <1>9 DEF vars
<1> QED BY <1>3, <1>5, <1>6, <1>7, <1>8, <1>9 DEF Next, ProcessDocTask

\* A leftover is a task its replica has just failed, or has had before.
LEMMA LeftoverMoves ==
  ASSUME TypeOK, [Next]_vars, NEW e \in Execs
  PROVE  \/ worker'[e].leftover \in {NoDoc, worker[e].leftover}
         \/ \E d \in Docs : FailDocTask(e, d) /\ worker'[e].leftover = d
<1>1. ASSUME NEW x \in Execs, NEW d \in Docs, FailDocTask(x, d)
      PROVE  \/ worker'[e].leftover = worker[e].leftover
             \/ x = e /\ worker'[e].leftover = d
  BY <1>1 DEF FailDocTask, TypeOK, Worker
<1>2. ASSUME NEW x \in Execs, \/ \E d \in Docs : TakeDocTask(x, d)
                              \/ FindNoDocTask(x) \/ FindFails(x) \/ Crash(x)
      PROVE  worker'[e].leftover \in {NoDoc, worker[e].leftover}
  BY <1>2 DEF TakeDocTask, FindNoDocTask, FindFails, Crash, StartRun, IdleWorker, TypeOK, vars
<1>3. ASSUME NEW x \in Execs, ProcessDocTask(x)
      PROVE  worker'[e].leftover \in {NoDoc, worker[e].leftover}
  <2>1. CASE LintDocument(x)
    BY <2>1 DEF LintDocument, TypeOK, Worker
  <2>2. CASE AbortRun(x)
    BY <2>2 DEF AbortRun, TypeOK, Worker
  <2>3. CASE SaveRun(x)
    BY <2>3 DEF SaveRun, IdleWorker, TypeOK, Worker
  <2>4. CASE HandleError(x)
    BY <2>4 DEF HandleError, IdleWorker, TypeOK
  <2> QED BY <1>3, <2>1, <2>2, <2>3, <2>4 DEF ProcessDocTask
<1>4. CASE UNCHANGED worker
  BY <1>4
<1>5. \/ \E x \in Execs : FindFreeDocTask(x) \/ ProcessDocTask(x) \/ Crash(x)
      \/ UNCHANGED worker
  BY DEF Next, Keepalive, KeepaliveCheck, KeepaliveWrite, KeepaliveStop, Expire, vars
<1> QED BY <1>1, <1>2, <1>3, <1>4, <1>5 DEF FindFreeDocTask

LEMMA NextLeftoverExhausted ==
  TypeOK /\ LeftoverExhausted /\ [Next]_vars => LeftoverExhausted'
<1> SUFFICES ASSUME TypeOK, LeftoverExhausted, [Next]_vars, NEW e \in Execs,
                    worker'[e].leftover # NoDoc
             PROVE  task'[worker'[e].leftover].restarts = RestartLimit
  BY DEF LeftoverExhausted
<1>1. RestartsKept
  BY RestartsStay
<1>2. CASE worker'[e].leftover = worker[e].leftover
  BY <1>1, <1>2 DEF RestartsKept, LeftoverExhausted, TypeOK, Worker
<1>3. ASSUME NEW d \in Docs, FailDocTask(e, d), worker'[e].leftover = d
      PROVE  task'[worker'[e].leftover].restarts = RestartLimit
  <2>1. task[d].restarts = RestartLimit
    <3>1. task[d].restarts \in 0..RestartLimit
      BY DEF TypeOK, Task
    <3>2. ~(task[d].restarts < RestartLimit)
      BY <1>3 DEF FailDocTask, RestartsLeft
    <3> QED BY <3>1, <3>2
  <2> QED BY <1>1, <1>3, <2>1 DEF RestartsKept
<1> QED BY <1>2, <1>3, LeftoverMoves

\* Whatever a search fails and forgets, a run that starts without its row is on a
\* task that no search hands out by its row any more.
THEOREM StrayRuns == Spec => StrayRunsAreExhausted
<1> DEFINE StrayStep ==
      \A e \in Execs :
          worker[e].pc = "idle" /\ worker'[e].pc = "linting" =>
             LET t == task'[worker'[e].doc]
             IN \/ t.status = "processing" /\ t.executor = e
                \/ t.restarts = RestartLimit
<1>1. Init => LeftoverExhausted
  BY DEF Init, IdleWorker, LeftoverExhausted
<1>2. TypeOK /\ LeftoverExhausted /\ [Next]_vars => [StrayStep]_vars
  <2> SUFFICES ASSUME TypeOK, LeftoverExhausted, Next, NEW e \in Execs,
                      worker[e].pc = "idle", worker'[e].pc = "linting"
               PROVE  LET t == task'[worker'[e].doc]
                      IN \/ t.status = "processing" /\ t.executor = e
                         \/ t.restarts = RestartLimit
    OBVIOUS
  <2>1. ASSUME NEW d \in Docs, TakeDocTask(e, d)
        PROVE  LET t == task'[worker'[e].doc] IN t.status = "processing" /\ t.executor = e
    BY <2>1 DEF TakeDocTask, TakeRow, StartRun, TypeOK
  <2>2. ASSUME FindNoDocTask(e)
        PROVE  task'[worker'[e].doc].restarts = RestartLimit
    BY <2>2 DEF FindNoDocTask, StartRun, LeftoverExhausted, TypeOK, Worker, vars
  <2>3. (\E d \in Docs : TakeDocTask(e, d)) \/ FindNoDocTask(e)
    <3>1. ASSUME NEW x \in Execs, FindFreeDocTask(x), x # e
          PROVE  worker'[e] = worker[e]
      BY <3>1 DEF FindFreeDocTask, TakeDocTask, FailDocTask, FindNoDocTask, FindFails, StartRun,
                  TypeOK, vars
    <3>2. \A d \in Docs : ~FailDocTask(e, d)
      BY DEF FailDocTask, TypeOK, Worker
    <3>3. ~FindFails(e)
      BY DEF FindFails, IdleWorker, TypeOK
    <3>4. ASSUME NEW x \in Execs, ProcessDocTask(x) \/ Crash(x)
          PROVE  worker'[e] = worker[e] \/ worker'[e].pc # "linting" \/ worker[e].pc # "idle"
      BY <3>4 DEF ProcessDocTask, LintDocument, AbortRun, SaveRun, HandleError, Crash, IdleWorker,
                  TypeOK
    <3>5. ~UNCHANGED worker
      OBVIOUS
    <3> QED BY <3>1, <3>2, <3>3, <3>4, <3>5
            DEF Next, FindFreeDocTask, Keepalive, KeepaliveCheck, KeepaliveWrite, KeepaliveStop,
                Expire
  <2> QED BY <2>1, <2>2, <2>3
<1> QED BY <1>1, <1>2, TypeCorrect, NextLeftoverExhausted, PTL DEF Spec, StrayRunsAreExhausted

-----------------------------------------------------------------------------
(* DocLint implements DocResults                                            *)

\* A saved document is recorded whole.
LEMMA SaveImplements ==
  ASSUME TypeOK, NEW e \in Execs, Saves(e)
  PROVE  Results!Next
<1> PICK d \in Docs, o \in Outcomes : SaveLintResult(e, d, o)
  BY DEF Saves
<1>1. [x \in Docs |-> Status(x)]' = [[x \in Docs |-> Status(x)] EXCEPT ![d] = o]
  BY DEF SaveLintResult, WithStatus, Status, Finished, TypeOK, Task
<1>2. Results!Record(d, o)
  BY <1>1 DEF SaveLintResult, Results!Record
<1> QED BY <1>2 DEF Results!Next, Results!Outcomes, Outcomes

\* Any other step leaves what the readers see, fails an open document or opens
\* a finished one.
LEMMA MoveImplements ==
  ASSUME TypeOK, OneTaskMoves
  PROVE  [Results!Next]_(Results!vars)
<1> DEFINE S == [x \in Docs |-> Status(x)]
<1>1. UNCHANGED resultVars
  BY DEF OneTaskMoves
<1>2. CASE UNCHANGED task
  BY <1>1, <1>2 DEF Results!vars, Results!resultVars, resultVars, Status, Finished
<1>3. ASSUME NEW d \in Docs, \A x \in Docs : x # d => task'[x] = task[x],
             \/ task'[d].status \in {task[d].status, "processing"}
             \/ task'[d].status = "error" /\ ~Finished(d)
      PROVE  [Results!Next]_(Results!vars)
  <2>1. S' = [S EXCEPT ![d] = Status(d)']
    BY <1>3 DEF Status, Finished
  <2>2. CASE Status(d)' = Status(d)
    <3>1. S' = S
      BY <2>1, <2>2
    <3> QED BY <1>1, <3>1 DEF Results!vars, Results!resultVars, resultVars
  <2>3. CASE Status(d)' # Status(d) /\ Status(d)' = "open"
    <3>1. S[d] \in Outcomes
      BY <2>3 DEF Status, Finished
    <3>2. Results!Reopen(d)
      BY <1>1, <2>1, <2>3, <3>1
         DEF Results!Reopen, Results!Outcomes, Results!resultVars, resultVars, Outcomes
    <3> QED BY <3>2 DEF Results!Next
  <2>4. CASE Status(d) = "open" /\ Status(d)' = "error"
    <3>1. Results!Fail(d)
      BY <1>1, <2>1, <2>4 DEF Results!Fail, Results!resultVars, resultVars
    <3> QED BY <3>1 DEF Results!Next
  <2>5. \/ Status(d)' = Status(d)
        \/ Status(d)' = "open"
        \/ Status(d) = "open" /\ Status(d)' = "error"
    BY <1>3 DEF Status, Finished, Outcomes
  <2> QED BY <2>2, <2>3, <2>4, <2>5
<1> QED BY <1>2, <1>3 DEF OneTaskMoves

\* The leased queue with its refreshes, crashes and failing calls is the
\* abstract record of results, for every set of documents and replicas.
THEOREM QueueKeepsResults == Spec => ImplementsResults
<1>1. Init => Results!Init
  BY DEF Init, InitialTasks, Results!Init, Status, Finished, Outcomes
<1>2. TypeOK /\ [Next]_vars => [Results!Next]_(Results!vars)
  BY StepSavesOrNot, SaveImplements, MoveImplements
<1> QED BY <1>1, <1>2, TypeCorrect, PTL DEF Spec, ImplementsResults, Results!Spec

\* The abstract module again, with what is proved about it.
Abstract == INSTANCE DocResultsProofs WITH
               status <- [d \in Docs |-> Status(d)], result <- linted,
               reports <- fileResult, version <- lintedVersion

\* The documents of a version together are the batch the version side waits for,
\* by way of DocResults: leases, crashes and refreshes of any number of replicas
\* never show it a success without a version row.
THEOREM QueueMakesABatch == Spec => ImplementsBatch
<1>1. Abstract!Spec => Abstract!BatchSpec
  BY Abstract!ResultsMakeABatch
<1>2. Results!Init => Abstract!Init
  BY DEF Results!Init, Abstract!Init
<1>3. [Results!Next]_(Results!vars) => [Abstract!Next]_(Abstract!vars)
  BY DEF Results!Next, Results!Record, Results!Fail, Results!Reopen, Results!Outcomes,
         Results!vars, Results!resultVars,
         Abstract!Next, Abstract!Record, Abstract!Fail, Abstract!Reopen, Abstract!Outcomes,
         Abstract!vars, Abstract!resultVars
<1>4. Abstract!Seen!Init => Results!Seen!Init
  BY DEF Abstract!Seen!Init, Results!Seen!Init, Abstract!Outcome, Results!Outcome
<1>5. [Abstract!Seen!Next]_<<Abstract!Outcome, lintedVersion>>
        => [Results!Seen!Next]_<<Results!Outcome, lintedVersion>>
  BY DEF Abstract!Outcome, Abstract!Seen!Next, Abstract!Seen!Save, Abstract!Seen!Settle,
         Abstract!Seen!Reopen, Abstract!Seen!Rewrite, Abstract!Seen!Outcomes,
         Results!Outcome, Results!Seen!Next, Results!Seen!Save, Results!Seen!Settle,
         Results!Seen!Reopen, Results!Seen!Rewrite, Results!Seen!Outcomes
<1> QED BY <1>1, <1>2, <1>3, <1>4, <1>5, QueueKeepsResults, PTL
        DEF ImplementsResults, ImplementsBatch, Results!Spec, Abstract!Spec,
            Results!BatchSpec, Abstract!BatchSpec, Results!Seen!Spec, Abstract!Seen!Spec
=============================================================================
