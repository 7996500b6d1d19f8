------------------------- MODULE VersionLintProofs -------------------------
(* Theorems about VersionLint, for every set of tasks and replicas and any   *)
(* restart limit.                                                           *)
EXTENDS VersionLint, SequenceTheorems, TLAPS

USE ExecsAssumption, TasksAssumption, BoundsAssumption
    DEF ExecsAssumption, TasksAssumption, BoundsAssumption, docVars

-----------------------------------------------------------------------------
(* Type correctness                                                         *)

LEMMA Values ==
  /\ NoRow \in Row /\ NoRow.status = "not_started"
  /\ NoRetry \in Retry /\ NoRetry.pc = "none" /\ NoRetry.row = NoRow
  /\ IdleWorker \in Worker /\ IdleWorker.pc = "idle"
  /\ IdleChecker \in Checker /\ IdleChecker.todo = {}
<1>1. NoRow \in Row /\ NoRow.status = "not_started"
  BY DEF NoRow, Row, Statuses, Outcomes
<1>2. NoRetry \in Retry /\ NoRetry.pc = "none" /\ NoRetry.row = NoRow
  BY <1>1 DEF NoRetry, Retry
<1>3. IdleWorker \in Worker /\ IdleWorker.pc = "idle"
  BY DEF IdleWorker, Worker
<1>4. IdleChecker \in Checker /\ IdleChecker.todo = {}
  BY DEF IdleChecker, Checker
<1> QED BY <1>1, <1>2, <1>3, <1>4

LEMMA InitTypeOK == Init => TypeOK
<1> SUFFICES ASSUME Init PROVE TypeOK
  OBVIOUS
<1>1. <<>> \in Seq({"pending"} \cup Outcomes)
  OBVIOUS
<1> QED BY <1>1, Values DEF Init, TypeOK

LEMMA WithStatusTyped ==
  ASSUME TypeOK, NEW t \in VTasks, NEW s \in Statuses
  PROVE  /\ WithStatus(t, s) \in [VTasks -> Row]
         /\ WithStatus(t, s)[t].status = s
         /\ \A u \in VTasks : u # t => WithStatus(t, s)[u] = task[u]
<1> DEFINE r == [status |-> s, executor |-> task[t].executor,
                 restarts |-> task[t].restarts, stale |-> FALSE]
<1>1. r \in Row /\ r.status = s
  BY DEF TypeOK, Row
<1>2. WithStatus(t, s) = [task EXCEPT ![t] = r]
  BY DEF WithStatus
<1> HIDE DEF r
<1> QED BY <1>1, <1>2 DEF TypeOK

\* handleProcessingFailed starts with a well typed request of its own.
LEMMA FailedTyped ==
  ASSUME TypeOK, NEW e \in Execs, NEW loop \in {"acquire", "check"},
         NEW t \in VTasks, NEW n \in Nat, ProcessingFailed(e, loop, t, n)
  PROVE  /\ retry' \in [Loops -> Retry]
         /\ \A l \in Loops : retry'[l].pc # "none" => retry'[l].task \in VTasks
         /\ \A l \in Loops : retry'[l] = retry[l] \/ retry'[l].row = NoRow
<1> DEFINE r == [pc |-> "read", task |-> t, restarts |-> n, row |-> NoRow]
<1>1. <<e, loop>> \in Loops
  BY DEF Loops
<1>2. r \in Retry /\ r.task \in VTasks /\ r.row = NoRow
  BY Values DEF Retry
<1>3. retry' = [retry EXCEPT ![<<e, loop>>] = r]
  BY DEF ProcessingFailed
<1> HIDE DEF r
<1> QED BY <1>1, <1>2, <1>3 DEF TypeOK

\* What a step of the acquire loop that saves its plan does to the tables.
LEMMA SaveTyped ==
  ASSUME TypeOK, NEW t \in VTasks, NEW p \in {"empty", "pending", "error"},
         \/ EmptyVersionCompleted(t)
         \/ p # "empty" /\ SaveDocTasksAndUpdVer(t, p)
         \/ UNCHANGED <<task, docVars, linted>>
  PROVE  /\ task' \in [VTasks -> Row]
         /\ batches' \in [VTasks -> Seq({"pending"} \cup Outcomes)]
         /\ passed' \in SUBSET VTasks
         /\ linted' \in {"none", "inProgress"} \cup Outcomes
<1>1. CASE EmptyVersionCompleted(t)
  BY <1>1, WithStatusTyped DEF EmptyVersionCompleted, TypeOK, Statuses, Outcomes
<1>2. CASE p # "empty" /\ SaveDocTasksAndUpdVer(t, p)
  <2>1. Append(batches[t], p) \in Seq({"pending"} \cup Outcomes)
    BY <1>2 DEF TypeOK, Outcomes
  <2>2. task' \in [VTasks -> Row]
    BY <1>2, WithStatusTyped DEF SaveDocTasksAndUpdVer, Statuses, Outcomes
  <2> QED BY <1>2, <2>1, <2>2 DEF SaveDocTasksAndUpdVer, TypeOK
<1>3. CASE UNCHANGED <<task, docVars, linted>>
  BY <1>3 DEF TypeOK
<1> QED BY <1>1, <1>2, <1>3

LEMMA FindTypeOK ==
  ASSUME TypeOK, NEW e \in Execs, FindFreeVersionTask(e)
  PROVE  TypeOK'
<1>1. ASSUME NEW t \in VTasks, TakeVersionTask(e, t)
      PROVE  TypeOK'
  <2>1. RestartsAfter(t) \in Nat
    BY DEF RestartsAfter, TypeOK, Row
  <2>2. task' \in [VTasks -> Row]
    BY <1>1, <2>1 DEF TakeVersionTask, TypeOK, Row, Statuses
  <2>3. [pc |-> "loading", task |-> t, restarts |-> 0, plan |-> "empty"] \in Worker
    BY DEF Worker
  <2> QED BY <1>1, <2>2, <2>3 DEF TakeVersionTask, TypeOK
<1>2. ASSUME NEW t \in VTasks, FailVersionTask(e, t)
      PROVE  TypeOK'
  <2>1. task' \in [VTasks -> Row]
    BY <1>2, WithStatusTyped DEF FailVersionTask, Statuses, Outcomes
  <2> QED BY <1>2, <2>1 DEF FailVersionTask, TypeOK
<1>3. ASSUME NEW t \in VTasks, AdoptWaitingTask(e, t)
      PROVE  TypeOK'
  <2>1. task' \in [VTasks -> Row]
    BY <1>3 DEF AdoptWaitingTask, TypeOK, Row, Statuses
  <2> QED BY <1>3, <2>1 DEF AdoptWaitingTask, TypeOK
<1>4. CASE FindNoVersionTask(e)
  BY <1>4 DEF FindNoVersionTask, vars, TypeOK
<1> QED BY <1>1, <1>2, <1>3, <1>4 DEF FindFreeVersionTask

LEMMA LoadTypeOK ==
  ASSUME TypeOK, NEW e \in Execs, LoadTask(e)
  PROVE  TypeOK'
<1> DEFINE t == worker[e].task
           Loaded(p) == [pc |-> "saving", task |-> t, restarts |-> task[t].restarts, plan |-> p]
<1>1. t \in VTasks /\ task[t].restarts \in Nat
  BY DEF LoadTask, TypeOK, Row
<1>2. \A p \in {"empty", "pending", "error"} : Loaded(p) \in Worker /\ Loaded(p).task \in VTasks
  BY <1>1 DEF Worker
<1>3. \/ worker' = [worker EXCEPT ![e] = IdleWorker]
      \/ \E p \in {"empty", "pending", "error"} : worker' = [worker EXCEPT ![e] = Loaded(p)]
  BY DEF LoadTask
<1>4. /\ worker' \in [Execs -> Worker]
      /\ \A x \in Execs : worker'[x].pc # "idle" => worker'[x].task \in VTasks
  <2> HIDE DEF Loaded
  <2> QED BY <1>2, <1>3, Values DEF TypeOK
<1>5. /\ retry' \in [Loops -> Retry]
      /\ \A l \in Loops : retry'[l].pc # "none" => retry'[l].task \in VTasks
  <2>1. UNCHANGED retry \/ ProcessingFailed(e, "acquire", t, task[t].restarts)
    BY DEF LoadTask
  <2> QED BY <1>1, <2>1, FailedTyped DEF TypeOK
<1>6. faults' \in 0..MaxFaults
  BY DEF LoadTask, Fault, TypeOK
<1> QED BY <1>4, <1>5, <1>6 DEF LoadTask, TypeOK

LEMMA SavePlanTypeOK ==
  ASSUME TypeOK, NEW e \in Execs, SavePlan(e)
  PROVE  TypeOK'
<1> DEFINE t == worker[e].task
           p == worker[e].plan
<1>1. t \in VTasks /\ worker[e].restarts \in Nat /\ p \in {"empty", "pending", "error"}
  BY DEF SavePlan, TypeOK, Worker
<1>2. \/ EmptyVersionCompleted(t)
      \/ p # "empty" /\ SaveDocTasksAndUpdVer(t, p)
      \/ UNCHANGED <<task, docVars, linted>>
  BY DEF SavePlan
<1>3. /\ retry' \in [Loops -> Retry]
      /\ \A l \in Loops : retry'[l].pc # "none" => retry'[l].task \in VTasks
  <2>1. UNCHANGED retry \/ ProcessingFailed(e, "acquire", t, worker[e].restarts)
    BY DEF SavePlan
  <2> QED BY <1>1, <2>1, FailedTyped DEF TypeOK
<1>4. faults' \in 0..MaxFaults
  BY DEF SavePlan, Fault, TypeOK
<1>5. /\ worker' \in [Execs -> Worker]
      /\ \A x \in Execs : worker'[x].pc # "idle" => worker'[x].task \in VTasks
  BY Values DEF SavePlan, TypeOK
<1> QED BY <1>1, <1>2, <1>3, <1>4, <1>5, SaveTyped DEF SavePlan, TypeOK

LEMMA VerdictTyped ==
  ASSUME NEW t \in VTasks PROVE Verdict(t) \in {"notReady"} \cup Outcomes
BY DEF Verdict, Outcomes

\* The rest of a list of tasks, and what completing one of them writes.
LEMMA DoneTyped ==
  ASSUME TypeOK, NEW e \in Execs, NEW i, Done(e, i)
  PROVE  /\ checker' \in [Execs -> Checker]
         /\ \A x \in Execs : checker'[x].todo \subseteq checker[x].todo
<1> DEFINE c == [pc |-> IF checker[e].todo \ {i} = {} THEN "idle" ELSE "deciding",
                 todo |-> checker[e].todo \ {i}]
<1>1. c \in Checker /\ c.todo \subseteq checker[e].todo
  BY DEF TypeOK, Checker
<1>2. checker' = [checker EXCEPT ![e] = c]
  BY DEF Done
<1> HIDE DEF c
<1> QED BY <1>1, <1>2 DEF TypeOK

LEMMA CompletedTyped ==
  ASSUME TypeOK, NEW t \in VTasks, NEW v \in Outcomes, VersionLintCompleted(t, v)
  PROVE  /\ task' \in [VTasks -> Row]
         /\ linted' \in {"none", "inProgress"} \cup Outcomes
BY WithStatusTyped DEF VersionLintCompleted, Statuses, Outcomes

LEMMA CheckTypeOK ==
  ASSUME TypeOK, NEW e \in Execs, CheckDocReady(e)
  PROVE  TypeOK'
<1>1. CASE ListWaiting(e)
  <2> DEFINE items == {[task |-> t, restarts |-> task[t].restarts, verdict |-> "unread"] : t \in Waiting}
  <2>1. items \subseteq Item
    BY DEF Waiting, Item, TypeOK, Row
  <2>2. [pc |-> "listed", todo |-> items] \in Checker
    BY <2>1 DEF Checker
  <2>3. checker' = [checker EXCEPT ![e] = [pc |-> "listed", todo |-> items]]
    BY <1>1 DEF ListWaiting
  <2> HIDE DEF items
  <2> QED BY <1>1, <2>2, <2>3 DEF ListWaiting, TypeOK
<1>2. CASE ReadDocTasks(e)
  <2> DEFINE items == {[task |-> i.task, restarts |-> i.restarts, verdict |-> Verdict(i.task)] :
                        i \in checker[e].todo}
  <2>1. \A i \in checker[e].todo : i.task \in VTasks /\ i.restarts \in Nat
    BY DEF TypeOK, Checker, Item
  <2>2. \A i \in checker[e].todo : Verdict(i.task) \in {"notReady"} \cup Outcomes
    BY <2>1, VerdictTyped
  <2>3. \A i \in checker[e].todo :
           [task |-> i.task, restarts |-> i.restarts, verdict |-> Verdict(i.task)] \in Item
    BY <2>1, <2>2 DEF Item
  <2>4. items \subseteq Item
    BY <2>3
  <2>5. [pc |-> "deciding", todo |-> items] \in Checker
    BY <2>4 DEF Checker
  <2>6. checker' = [checker EXCEPT ![e] = [pc |-> "deciding", todo |-> items]]
    BY <1>2 DEF ReadDocTasks
  <2> HIDE DEF items
  <2> QED BY <1>2, <2>5, <2>6 DEF ReadDocTasks, TypeOK
<1>3. ASSUME NEW i \in checker[e].todo,
             RefreshWaiting(e, i) \/ CompleteVersion(e, i) \/ CheckerPanics(e, i)
      PROVE  TypeOK'
  <2>1. i.task \in VTasks /\ i.restarts \in Nat
    BY <1>3 DEF TypeOK, Checker, Item
  <2>2. CASE RefreshWaiting(e, i)
    <3>1. task[i.task].status \in Statuses
      BY <2>1 DEF TypeOK, Row
    <3>2. task' \in [VTasks -> Row]
      BY <2>1, <2>2, <3>1, WithStatusTyped DEF RefreshWaiting, TypeOK
    <3>3. Done(e, i) /\ UNCHANGED <<docVars, linted, hasDocs, worker, retry, alive, faults>>
      BY <2>2 DEF RefreshWaiting
    <3> QED BY <3>2, <3>3, DoneTyped DEF TypeOK
  <2>3. CASE CompleteVersion(e, i)
    <3>1. /\ task' \in [VTasks -> Row]
          /\ linted' \in {"none", "inProgress"} \cup Outcomes
      <4>1. i.verdict \in Outcomes
        BY <2>3 DEF CompleteVersion
      <4>2. VersionLintCompleted(i.task, i.verdict) \/ UNCHANGED <<task, linted>>
        BY <2>3 DEF CompleteVersion
      <4> QED BY <2>1, <4>1, <4>2, CompletedTyped DEF TypeOK
    <3>2. /\ retry' \in [Loops -> Retry]
          /\ \A l \in Loops : retry'[l].pc # "none" => retry'[l].task \in VTasks
      <4>1. UNCHANGED retry \/ ProcessingFailed(e, "check", i.task, i.restarts)
        BY <2>3 DEF CompleteVersion
      <4> QED BY <2>1, <4>1, FailedTyped DEF TypeOK
    <3>3. faults' \in 0..MaxFaults
      BY <2>3 DEF CompleteVersion, Fault, TypeOK
    <3>4. Done(e, i) /\ UNCHANGED <<docVars, hasDocs, worker, alive>>
      BY <2>3 DEF CompleteVersion
    <3> QED BY <3>1, <3>2, <3>3, <3>4, DoneTyped DEF TypeOK
  <2>4. CASE CheckerPanics(e, i)
    <3>1. [pc |-> "dead", todo |-> {}] \in Checker
      BY DEF Checker
    <3>2. faults' \in 0..MaxFaults
      BY <2>4 DEF CheckerPanics, Fault, TypeOK
    <3> QED BY <2>4, <3>1, <3>2 DEF CheckerPanics, TypeOK
  <2> QED BY <1>3, <2>2, <2>3, <2>4
<1> QED BY <1>1, <1>2, <1>3 DEF CheckDocReady

\* handleProcessingFailed writes back a row it has read before.
LEMMA RetryTypeOK ==
  ASSUME TypeOK, NEW e \in Execs, NEW loop \in {"acquire", "check"},
         HandleProcessingFailed(e, loop)
  PROVE  TypeOK'
<1> DEFINE l == <<e, loop>>
<1>1. l \in Loops
  BY DEF Loops
<1>2. CASE VersionLintFailed(l)
  BY <1>1, <1>2, Values DEF VersionLintFailed, HandleProcessingFailed, TypeOK
<1>3. CASE IncRestartRead(l)
  <2> DEFINE r == [pc |-> "write", task |-> retry[l].task, restarts |-> retry[l].restarts,
                   row |-> task[retry[l].task]]
  <2>1. retry[l].task \in VTasks /\ retry[l].restarts \in Nat
    BY <1>1, <1>3 DEF IncRestartRead, TypeOK, Retry
  <2>2. r \in Retry /\ r.task \in VTasks
    BY <2>1 DEF TypeOK, Retry
  <2>3. /\ retry' = [retry EXCEPT ![l] = r] \/ retry' = [retry EXCEPT ![l] = NoRetry]
        /\ faults' \in 0..MaxFaults
        /\ UNCHANGED task
    BY <1>3 DEF IncRestartRead, Fault, TypeOK
  <2> HIDE DEF r
  <2>4. /\ retry' \in [Loops -> Retry]
        /\ \A k \in Loops : retry'[k].pc # "none" => retry'[k].task \in VTasks
    BY <1>1, <2>2, <2>3, Values DEF TypeOK
  <2> QED BY <2>3, <2>4 DEF HandleProcessingFailed, TypeOK
<1>4. CASE IncRestartWrite(l)
  <2> DEFINE t == retry[l].task
             row == retry[l].row
             w == [status |-> row.status, executor |-> row.executor,
                   restarts |-> row.restarts + 1, stale |-> row.stale \/ task[t].stale]
  <2>1. t \in VTasks /\ row \in Row
    BY <1>1, <1>4 DEF IncRestartWrite, TypeOK, Retry
  <2>2. (row.stale \/ task[t].stale) \in BOOLEAN
    OBVIOUS
  <2>3. w \in Row
    BY <2>1, <2>2 DEF Row
  <2>4. task' = [task EXCEPT ![t] = w]
    BY <1>4 DEF IncRestartWrite
  <2> HIDE DEF w
  <2>5. task' \in [VTasks -> Row]
    BY <2>1, <2>3, <2>4 DEF TypeOK
  <2> QED BY <1>1, <1>4, <2>5, Values DEF IncRestartWrite, HandleProcessingFailed, TypeOK
<1> QED BY <1>2, <1>3, <1>4 DEF HandleProcessingFailed

\* A batch that changes leaves every other element of the sequence.
LEMMA BatchBecomesTyped ==
  ASSUME TypeOK, NEW t \in VTasks, NEW b \in DOMAIN batches[t],
         NEW o \in {"pending"} \cup Outcomes, BatchBecomes(t, b, o)
  PROVE  /\ batches' \in [VTasks -> Seq({"pending"} \cup Outcomes)]
         /\ passed' \in SUBSET VTasks
         /\ DOMAIN batches'[t] = DOMAIN batches[t]
         /\ batches'[t][b] = o
         /\ \A c \in DOMAIN batches[t] : c # b => batches'[t][c] = batches[t][c]
         /\ \A u \in VTasks : u # t => batches'[u] = batches[u]
<1> DEFINE S == {"pending"} \cup Outcomes
<1>1. batches[t] \in Seq(S) /\ o \in S /\ b \in 1..Len(batches[t])
  BY DEF TypeOK
<1>2. [batches[t] EXCEPT ![b] = o] \in Seq(S)
  BY <1>1, ExceptSeq
<1>3. passed' \in SUBSET VTasks
  BY DEF BatchBecomes, TypeOK
<1> QED BY <1>1, <1>2, <1>3 DEF BatchBecomes, TypeOK

\* What the document side does: a batch changes or a document of it is saved.
LEMMA DocumentsCases ==
  ASSUME NEW t \in VTasks, Documents(t)
  PROVE  \/ \E b \in DOMAIN batches[t] : SaveLintResult(t, b)
         \/ \E b \in DOMAIN batches[t], o \in {"pending"} \cup Outcomes :
               /\ BatchBecomes(t, b, o)
               /\ linted' \in {linted, "inProgress"}
               /\ UNCHANGED faults \/ Fault
BY DEF Documents, FinishBatch, ReopenBatch, RewriteBatch

LEMMA DocumentsTypeOK ==
  ASSUME TypeOK, NEW t \in VTasks, Documents(t)
  PROVE  TypeOK'
<1>1. ASSUME NEW b \in DOMAIN batches[t], SaveLintResult(t, b)
      PROVE  TypeOK'
  BY <1>1 DEF SaveLintResult, docVars, TypeOK
<1>2. ASSUME NEW b \in DOMAIN batches[t], NEW o \in {"pending"} \cup Outcomes,
             BatchBecomes(t, b, o), linted' \in {linted, "inProgress"},
             UNCHANGED faults \/ Fault
      PROVE  TypeOK'
  <2>1. faults' \in 0..MaxFaults
    BY <1>2 DEF Fault, TypeOK
  <2> QED BY <1>2, <2>1, BatchBecomesTyped DEF BatchBecomes, TypeOK
<1> QED BY <1>1, <1>2, DocumentsCases

LEMMA CrashTypeOK ==
  ASSUME TypeOK, NEW e \in Execs, Crash(e)
  PROVE  TypeOK'
<1>1. /\ retry' \in [Loops -> Retry]
      /\ \A l \in Loops : retry'[l] = retry[l] \/ retry'[l] = NoRetry
  BY Values DEF Crash, TypeOK
<1> QED BY <1>1, Values DEF Crash, TypeOK

LEMMA NextTypeOK == TypeOK /\ [Next]_vars => TypeOK'
<1> SUFFICES ASSUME TypeOK, [Next]_vars PROVE TypeOK'
  OBVIOUS
<1>1. ASSUME NEW e \in Execs, ProcessVersionLintTask(e) PROVE TypeOK'
  BY <1>1, LoadTypeOK, SavePlanTypeOK DEF ProcessVersionLintTask
<1>2. ASSUME NEW t \in VTasks, Expire(t) PROVE TypeOK'
  <2>1. [task[t] EXCEPT !.stale = TRUE] \in Row
    <3>1. task[t] \in Row /\ TRUE \in BOOLEAN
      BY DEF TypeOK
    <3> QED BY <3>1 DEF Row
  <2>2. task' = [task EXCEPT ![t] = [task[t] EXCEPT !.stale = TRUE]]
    BY <1>2 DEF Expire
  <2>3. task' \in [VTasks -> Row]
    BY <2>1, <2>2 DEF TypeOK
  <2> QED BY <1>2, <2>3 DEF Expire, TypeOK
<1>3. CASE UNCHANGED vars
  BY <1>3 DEF vars, TypeOK
<1> QED BY <1>1, <1>2, <1>3, FindTypeOK, CheckTypeOK, RetryTypeOK, DocumentsTypeOK, CrashTypeOK
        DEF Next

\* Every reachable state is well typed, and a busy loop has a task in hand.
THEOREM TypeCorrect == Spec => []TypeOK
BY InitTypeOK, NextTypeOK, PTL DEF Spec

-----------------------------------------------------------------------------
(* What a step may do to each of the variables the invariants speak of      *)

\* A row changes to processing or error freely; to waiting only when there is
\* a batch, to success only when there is a linted version, and to what
\* IncRestartCount remembers of it.
TaskStep ==
  \A t \in VTasks :
     \/ task'[t].status = task[t].status
     \/ task'[t].status \in {"processing", "error"}
     \/ task'[t].status = "waiting_for_docs" /\ batches'[t] # <<>>
     \/ task'[t].status = "success" /\ linted' # "none"
     \/ \E l \in Loops : retry[l].task = t /\ task'[t].status = retry[l].row.status

\* Batches are added and change, and what has passed is remembered.
BatchStep ==
  /\ passed \subseteq passed'
  /\ \A t \in VTasks :
        /\ batches[t] # <<>> => batches'[t] # <<>>
        /\ "success" \in BatchStatuses(t)' => "success" \in BatchStatuses(t) \/ t \in passed'

LintedStep ==
  \/ linted' = linted
  \/ linted' \in {"inProgress", "error"}
  \/ /\ linted' = "success"
     /\ \/ \E e \in Execs : worker[e].pc = "saving" /\ worker[e].plan = "empty"
        \/ \E e \in Execs : \E i \in checker[e].todo :
              i.task \in VTasks /\ i.verdict = "success"

TodoStep ==
  \A e \in Execs : \A i \in checker'[e].todo :
     \/ i \in checker[e].todo
     \/ i.task \in Waiting /\ i.verdict = "unread"
     \/ /\ \E j \in checker[e].todo : j.task = i.task
        /\ i.verdict = Verdict(i.task)
        /\ UNCHANGED batches

RetryStep ==
  \A l \in Loops :
     \/ retry'[l] = retry[l]
     \/ retry'[l].row = NoRow
     \/ retry'[l].task \in VTasks /\ retry'[l].row = task[retry'[l].task]

PlanStep ==
  /\ hasDocs' = hasDocs
  /\ \A e \in Execs : \/ worker'[e] = worker[e]
                      \/ worker'[e].pc # "saving"
                      \/ worker'[e].plan = "empty" => ~hasDocs

LEMMA NextTaskStep == TypeOK /\ [Next]_vars => TaskStep
<1> SUFFICES ASSUME TypeOK, [Next]_vars PROVE TaskStep
  OBVIOUS
<1>1. ASSUME NEW e \in Execs, FindFreeVersionTask(e) PROVE TaskStep
  <2>1. ASSUME NEW t \in VTasks, TakeVersionTask(e, t) \/ AdoptWaitingTask(e, t)
        PROVE  TaskStep
    <3> DEFINE r(n) == [status |-> "processing", executor |-> e, restarts |-> n, stale |-> FALSE]
    <3>1. \E n \in {task[t].restarts, RestartsAfter(t)} : task' = [task EXCEPT ![t] = r(n)]
      BY <2>1 DEF TakeVersionTask, AdoptWaitingTask
    <3>2. \A n : r(n).status = "processing"
      OBVIOUS
    <3> HIDE DEF r
    <3> QED BY <3>1, <3>2 DEF TaskStep, TypeOK
  <2>2. ASSUME NEW t \in VTasks, FailVersionTask(e, t)
        PROVE  TaskStep
    BY <2>2, WithStatusTyped DEF FailVersionTask, TaskStep, Statuses, Outcomes
  <2>3. CASE FindNoVersionTask(e)
    BY <2>3 DEF FindNoVersionTask, vars, TaskStep
  <2> QED BY <1>1, <2>1, <2>2, <2>3 DEF FindFreeVersionTask
<1>2. ASSUME NEW e \in Execs, LoadTask(e) PROVE TaskStep
  BY <1>2 DEF LoadTask, TaskStep
<1>3. ASSUME NEW e \in Execs, SavePlan(e) PROVE TaskStep
  <2> DEFINE t == worker[e].task
             p == worker[e].plan
  <2>1. t \in VTasks
    BY <1>3 DEF SavePlan, TypeOK
  <2>2. \/ EmptyVersionCompleted(t)
        \/ SaveDocTasksAndUpdVer(t, p)
        \/ UNCHANGED task
    BY <1>3 DEF SavePlan
  <2>3. CASE EmptyVersionCompleted(t)
    BY <2>1, <2>3, WithStatusTyped DEF EmptyVersionCompleted, TaskStep, Statuses, Outcomes
  <2>4. CASE SaveDocTasksAndUpdVer(t, p)
    <3>1. batches'[t] = Append(batches[t], p)
      BY <2>1, <2>4 DEF SaveDocTasksAndUpdVer, TypeOK
    <3>2. batches[t] \in Seq({"pending"} \cup Outcomes) /\ p \in {"empty", "pending", "error"}
      BY <2>1 DEF TypeOK, Worker
    <3>3. batches'[t] # <<>>
      BY <3>1, <3>2, AppendProperties
    <3> QED BY <2>1, <2>4, <3>3, WithStatusTyped
            DEF SaveDocTasksAndUpdVer, TaskStep, Statuses, Outcomes
  <2> QED BY <2>2, <2>3, <2>4 DEF TaskStep
<1>4. ASSUME NEW e \in Execs, CheckDocReady(e) PROVE TaskStep
  <2>1. CASE UNCHANGED task
    BY <2>1 DEF TaskStep
  <2>2. ASSUME NEW i \in checker[e].todo, RefreshWaiting(e, i)
        PROVE  TaskStep
    <3>1. i.task \in VTasks
      BY <2>2 DEF TypeOK, Checker, Item
    <3>2. task[i.task].status \in Statuses
      BY <3>1 DEF TypeOK, Row
    <3> QED BY <2>2, <3>1, <3>2, WithStatusTyped DEF RefreshWaiting, TaskStep
  <2>3. ASSUME NEW i \in checker[e].todo, CompleteVersion(e, i)
        PROVE  TaskStep
    <3>1. i.task \in VTasks
      BY <2>3 DEF TypeOK, Checker, Item
    <3>2. i.verdict \in Outcomes /\ (VersionLintCompleted(i.task, i.verdict) \/ UNCHANGED task)
      BY <2>3 DEF CompleteVersion
    <3> QED BY <3>1, <3>2, WithStatusTyped
            DEF VersionLintCompleted, TaskStep, Statuses, Outcomes
  <2> QED BY <1>4, <2>1, <2>2, <2>3 DEF CheckDocReady, ListWaiting, ReadDocTasks, CheckerPanics
<1>5. ASSUME NEW e \in Execs, NEW loop \in {"acquire", "check"},
             HandleProcessingFailed(e, loop)
      PROVE  TaskStep
  <2> DEFINE l == <<e, loop>>
  <2>1. l \in Loops
    BY <1>5 DEF Loops
  <2>2. CASE UNCHANGED task
    BY <2>2 DEF TaskStep
  <2>3. CASE IncRestartWrite(l)
    <3> DEFINE t == retry[l].task
               row == retry[l].row
               w == [status |-> row.status, executor |-> row.executor,
                     restarts |-> row.restarts + 1, stale |-> row.stale \/ task[t].stale]
    <3>1. task' = [task EXCEPT ![t] = w] /\ w.status = row.status
      BY <2>3 DEF IncRestartWrite
    <3> HIDE DEF w
    <3> QED BY <2>1, <3>1 DEF TaskStep, TypeOK
  <2> QED BY <1>5, <2>2, <2>3 DEF HandleProcessingFailed, VersionLintFailed, IncRestartRead
<1>6. ASSUME NEW e \in Execs, Crash(e) PROVE TaskStep
  BY <1>6 DEF Crash, TaskStep
<1>7. ASSUME NEW t \in VTasks, Documents(t) PROVE TaskStep
  BY <1>7, DocumentsCases DEF SaveLintResult, BatchBecomes, TaskStep
<1>8. ASSUME NEW t \in VTasks, Expire(t) PROVE TaskStep
  BY <1>8 DEF Expire, TaskStep, TypeOK, Row
<1>9. CASE UNCHANGED vars
  BY <1>9 DEF vars, TaskStep
<1> QED BY <1>1, <1>2, <1>3, <1>4, <1>5, <1>6, <1>7, <1>8, <1>9
        DEF Next, ProcessVersionLintTask

LEMMA NextBatchStep == TypeOK /\ [Next]_vars => BatchStep
<1> SUFFICES ASSUME TypeOK, [Next]_vars PROVE BatchStep
  OBVIOUS
<1> USE DEF BatchStep, BatchStatuses, docVars
<1>1. ASSUME NEW e \in Execs, SavePlan(e) PROVE BatchStep
  <2>0. worker[e].task \in VTasks /\ worker[e].plan \in {"empty", "pending", "error"}
    BY <1>1 DEF SavePlan, TypeOK, Worker
  <2>1. PICK t \in VTasks, p \in {"empty", "pending", "error"} :
           t = worker[e].task /\ p = worker[e].plan
    BY <2>0
  <2>2. CASE UNCHANGED docVars
    BY <2>2
  <2>3. CASE batches' = [batches EXCEPT ![t] = Append(batches[t], p)] /\ UNCHANGED passed
    <3>1. /\ batches'[t] = Append(batches[t], p)
          /\ \A u \in VTasks : u # t => batches'[u] = batches[u]
      BY <2>1, <2>3 DEF TypeOK
    <3>2. batches[t] \in Seq({"pending", "empty"} \cup Outcomes) /\ p \in {"pending", "empty"} \cup Outcomes
      BY <2>1 DEF TypeOK, Outcomes
    <3>3. /\ batches'[t] # <<>>
          /\ batches'[t] \in Seq({"pending", "empty"} \cup Outcomes)
          /\ Len(batches'[t]) = Len(batches[t]) + 1
          /\ \A b \in 1..Len(batches[t]) : batches'[t][b] = batches[t][b]
          /\ batches'[t][Len(batches[t]) + 1] = p
      BY <3>1, <3>2, AppendProperties
    <3>4. /\ DOMAIN batches[t] = 1..Len(batches[t])
          /\ DOMAIN batches'[t] = 1..(Len(batches[t]) + 1)
          /\ Len(batches[t]) \in Nat
      BY <3>2, <3>3
    <3>5. "success" \in BatchStatuses(t)' => "success" \in BatchStatuses(t)
      <4>1. \A b \in DOMAIN batches'[t] : b \in DOMAIN batches[t] \/ b = Len(batches[t]) + 1
        BY <3>4
      <4>2. ASSUME NEW b \in DOMAIN batches'[t], batches'[t][b] = "success"
            PROVE  b \in DOMAIN batches[t] /\ batches[t][b] = "success"
        BY <3>3, <3>4, <4>1, <4>2, <2>1
      <4> QED BY <4>2
    <3> QED BY <2>3, <3>1, <3>3, <3>5
  <2> QED BY <1>1, <2>1, <2>2, <2>3
          DEF SavePlan, EmptyVersionCompleted, SaveDocTasksAndUpdVer
<1>2. ASSUME NEW t \in VTasks, NEW b \in DOMAIN batches[t],
             NEW o \in {"pending"} \cup Outcomes, BatchBecomes(t, b, o)
      PROVE  BatchStep
  <2>1. /\ DOMAIN batches'[t] = DOMAIN batches[t]
        /\ batches'[t][b] = o
        /\ \A c \in DOMAIN batches[t] : c # b => batches'[t][c] = batches[t][c]
        /\ \A u \in VTasks : u # t => batches'[u] = batches[u]
    BY <1>2, BatchBecomesTyped
  <2>2. batches'[t] # <<>>
    <3>1. b \in DOMAIN batches'[t]
      BY <2>1, <1>2
    <3>2. DOMAIN <<>> = {}
      OBVIOUS
    <3> QED BY <3>1, <3>2
  <2>3. /\ passed \subseteq passed'
        /\ o = "success" => t \in passed'
    BY <1>2 DEF BatchBecomes
  <2>4. "success" \in BatchStatuses(t)' => "success" \in BatchStatuses(t) \/ t \in passed'
    BY <2>1, <2>3
  <2> QED BY <2>1, <2>2, <2>3, <2>4
<1>3. CASE UNCHANGED docVars
  BY <1>3
<1>4. ASSUME NEW t \in VTasks, Documents(t) PROVE BatchStep
  BY <1>2, <1>3, <1>4, DocumentsCases DEF SaveLintResult
<1> QED BY <1>1, <1>3, <1>4
        DEF Next, vars, FindFreeVersionTask, TakeVersionTask, FailVersionTask, AdoptWaitingTask,
            FindNoVersionTask, ProcessVersionLintTask, LoadTask, CheckDocReady, ListWaiting,
            ReadDocTasks, RefreshWaiting, CompleteVersion, CheckerPanics,
            HandleProcessingFailed, Crash, Expire

LEMMA NextLintedStep == TypeOK /\ [Next]_vars => LintedStep
<1> SUFFICES ASSUME TypeOK, [Next]_vars PROVE LintedStep
  OBVIOUS
<1>1. CASE UNCHANGED linted
  BY <1>1 DEF LintedStep
<1>2. ASSUME NEW e \in Execs, SavePlan(e) PROVE LintedStep
  BY <1>2 DEF SavePlan, EmptyVersionCompleted, SaveDocTasksAndUpdVer, LintedStep
<1>3. ASSUME NEW e \in Execs, NEW i \in checker[e].todo, CompleteVersion(e, i)
      PROVE  LintedStep
  <2>1. i.task \in VTasks
    BY <1>3 DEF TypeOK, Checker, Item
  <2>2. i.verdict \in Outcomes /\ linted' \in {linted, i.verdict}
    BY <1>3 DEF CompleteVersion, VersionLintCompleted
  <2> QED BY <1>3, <2>1, <2>2 DEF LintedStep, Outcomes
<1>4. ASSUME NEW t \in VTasks, Documents(t) PROVE LintedStep
  BY <1>4, DocumentsCases DEF SaveLintResult, LintedStep
<1> QED BY <1>1, <1>2, <1>3, <1>4
        DEF Next, vars, FindFreeVersionTask, TakeVersionTask, FailVersionTask, AdoptWaitingTask,
            FindNoVersionTask, ProcessVersionLintTask, LoadTask, CheckDocReady, ListWaiting,
            ReadDocTasks, RefreshWaiting, CheckerPanics, HandleProcessingFailed, Crash, Expire

LEMMA NextTodoStep == TypeOK /\ [Next]_vars => TodoStep
<1> SUFFICES ASSUME TypeOK, [Next]_vars PROVE TodoStep
  OBVIOUS
<1>1. CASE UNCHANGED checker
  BY <1>1 DEF TodoStep
<1>2. ASSUME NEW e \in Execs, ListWaiting(e) PROVE TodoStep
  <2> DEFINE items == {[task |-> t, restarts |-> task[t].restarts, verdict |-> "unread"] : t \in Waiting}
  <2>1. checker' = [checker EXCEPT ![e] = [pc |-> "listed", todo |-> items]]
    BY <1>2 DEF ListWaiting
  <2>2. \A i \in items : i.task \in Waiting /\ i.verdict = "unread"
    OBVIOUS
  <2> HIDE DEF items
  <2> QED BY <2>1, <2>2 DEF TodoStep, TypeOK
<1>3. ASSUME NEW e \in Execs, ReadDocTasks(e) PROVE TodoStep
  <2> DEFINE items == {[task |-> i.task, restarts |-> i.restarts, verdict |-> Verdict(i.task)] :
                        i \in checker[e].todo}
  <2>1. checker' = [checker EXCEPT ![e] = [pc |-> "deciding", todo |-> items]]
    BY <1>3 DEF ReadDocTasks
  <2>2. \A i \in items : /\ \E j \in checker[e].todo : j.task = i.task
                         /\ i.verdict = Verdict(i.task)
    OBVIOUS
  <2>3. UNCHANGED batches
    BY <1>3 DEF ReadDocTasks, docVars
  <2> HIDE DEF items
  <2> QED BY <2>1, <2>2, <2>3 DEF TodoStep, TypeOK
<1>4. ASSUME NEW e \in Execs, NEW i \in checker[e].todo,
             RefreshWaiting(e, i) \/ CompleteVersion(e, i)
      PROVE  TodoStep
  <2>1. Done(e, i)
    BY <1>4 DEF RefreshWaiting, CompleteVersion
  <2> QED BY <2>1, DoneTyped DEF TodoStep
<1>5. ASSUME NEW e \in Execs, NEW i \in checker[e].todo, CheckerPanics(e, i)
      PROVE  TodoStep
  BY <1>5 DEF CheckerPanics, TodoStep, TypeOK
<1>6. ASSUME NEW e \in Execs, Crash(e) PROVE TodoStep
  BY <1>6, Values DEF Crash, TodoStep, TypeOK
<1>7. ASSUME NEW t \in VTasks, Documents(t) PROVE TodoStep
  BY <1>1, <1>7, DocumentsCases DEF SaveLintResult, BatchBecomes
<1> QED BY <1>1, <1>2, <1>3, <1>4, <1>5, <1>6, <1>7
        DEF Next, vars, FindFreeVersionTask, TakeVersionTask, FailVersionTask, AdoptWaitingTask,
            FindNoVersionTask, ProcessVersionLintTask, LoadTask, SavePlan, CheckDocReady,
            HandleProcessingFailed, Expire

LEMMA NextRetryStep == TypeOK /\ [Next]_vars => RetryStep
<1> SUFFICES ASSUME TypeOK, [Next]_vars PROVE RetryStep
  OBVIOUS
<1>1. CASE UNCHANGED retry
  BY <1>1 DEF RetryStep
<1>2. ASSUME NEW e \in Execs, LoadTask(e) PROVE RetryStep
  <2>1. worker[e].task \in VTasks /\ task[worker[e].task].restarts \in Nat
    BY <1>2 DEF LoadTask, TypeOK, Row
  <2>2. UNCHANGED retry \/ ProcessingFailed(e, "acquire", worker[e].task, task[worker[e].task].restarts)
    BY <1>2 DEF LoadTask
  <2> QED BY <1>2, <2>1, <2>2, FailedTyped DEF RetryStep
<1>3. ASSUME NEW e \in Execs, SavePlan(e) PROVE RetryStep
  <2>1. worker[e].task \in VTasks /\ worker[e].restarts \in Nat
    BY <1>3 DEF SavePlan, TypeOK, Worker
  <2>2. UNCHANGED retry \/ ProcessingFailed(e, "acquire", worker[e].task, worker[e].restarts)
    BY <1>3 DEF SavePlan
  <2> QED BY <1>3, <2>1, <2>2, FailedTyped DEF RetryStep
<1>4. ASSUME NEW e \in Execs, NEW i \in checker[e].todo, CompleteVersion(e, i)
      PROVE  RetryStep
  <2>1. i.task \in VTasks /\ i.restarts \in Nat
    BY <1>4 DEF TypeOK, Checker, Item
  <2>2. UNCHANGED retry \/ ProcessingFailed(e, "check", i.task, i.restarts)
    BY <1>4 DEF CompleteVersion
  <2> QED BY <1>4, <2>1, <2>2, FailedTyped DEF RetryStep
<1>5. ASSUME NEW l \in Loops, VersionLintFailed(l) \/ IncRestartRead(l) \/ IncRestartWrite(l)
      PROVE  RetryStep
  <2> DEFINE r == [pc |-> "write", task |-> retry[l].task, restarts |-> retry[l].restarts,
                   row |-> task[retry[l].task]]
  <2>1. \/ retry' = [retry EXCEPT ![l] = NoRetry]
        \/ retry' = [retry EXCEPT ![l] = r] /\ retry[l].task \in VTasks
    BY <1>5 DEF VersionLintFailed, IncRestartRead, IncRestartWrite, TypeOK
  <2>2. r.task = retry[l].task /\ r.row = task[retry[l].task]
    OBVIOUS
  <2> HIDE DEF r
  <2> QED BY <2>1, <2>2, Values DEF RetryStep, TypeOK
<1>6. ASSUME NEW e \in Execs, Crash(e) PROVE RetryStep
  BY <1>6, Values DEF Crash, RetryStep
<1>7. \A e \in Execs : <<e, "acquire">> \in Loops /\ <<e, "check">> \in Loops
  BY DEF Loops
<1>8. ASSUME NEW t \in VTasks, Documents(t) PROVE RetryStep
  BY <1>1, <1>8, DocumentsCases DEF SaveLintResult, BatchBecomes
<1> QED BY <1>1, <1>2, <1>3, <1>4, <1>5, <1>6, <1>7, <1>8
        DEF Next, vars, FindFreeVersionTask, TakeVersionTask, FailVersionTask, AdoptWaitingTask,
            FindNoVersionTask, ProcessVersionLintTask, CheckDocReady, ListWaiting, ReadDocTasks,
            RefreshWaiting, CheckerPanics, HandleProcessingFailed, Expire

LEMMA NextPlanStep == TypeOK /\ [Next]_vars => PlanStep
<1> SUFFICES ASSUME TypeOK, [Next]_vars PROVE PlanStep
  OBVIOUS
<1>1. CASE UNCHANGED <<hasDocs, worker>>
  BY <1>1 DEF PlanStep
<1>2. ASSUME NEW e \in Execs, LoadTask(e) PROVE PlanStep
  <2> DEFINE Loaded(p) == [pc |-> "saving", task |-> worker[e].task,
                           restarts |-> task[worker[e].task].restarts, plan |-> p]
  <2>1. /\ hasDocs' = hasDocs
        /\ \/ worker' = [worker EXCEPT ![e] = IdleWorker]
           \/ \E p \in {"empty", "pending", "error"} :
                 worker' = [worker EXCEPT ![e] = Loaded(p)] /\ (p = "empty" => ~hasDocs)
    BY <1>2 DEF LoadTask
  <2>2. \A p : Loaded(p).plan = p
    OBVIOUS
  <2> HIDE DEF Loaded
  <2> QED BY <2>1, <2>2, Values DEF PlanStep, TypeOK
<1>3. ASSUME NEW e \in Execs, NEW t \in VTasks, TakeVersionTask(e, t) PROVE PlanStep
  BY <1>3 DEF TakeVersionTask, PlanStep, TypeOK
<1>4. ASSUME NEW e \in Execs, SavePlan(e) \/ Crash(e) PROVE PlanStep
  BY <1>4, Values DEF SavePlan, Crash, PlanStep, TypeOK
<1>5. ASSUME NEW t \in VTasks, Documents(t) PROVE PlanStep
  BY <1>1, <1>5, DocumentsCases DEF SaveLintResult, BatchBecomes
<1> QED BY <1>1, <1>2, <1>3, <1>4, <1>5
        DEF Next, vars, FindFreeVersionTask, FailVersionTask, AdoptWaitingTask,
            FindNoVersionTask, ProcessVersionLintTask, CheckDocReady, ListWaiting, ReadDocTasks,
            RefreshWaiting, CompleteVersion, CheckerPanics, HandleProcessingFailed, Expire

-----------------------------------------------------------------------------
(* The invariants                                                           *)

\* A row IncRestartCount remembers as success had its version by then.
RetryHasVersion ==
  \A l \in Loops : retry[l].row.status = "success" => linted # "none"

\* A batch that reads success is remembered.
PassedRecorded == \A t \in VTasks : "success" \in BatchStatuses(t) => t \in passed

\* A readiness loop decides success only for a task with a success to show.
VerdictHasEvidence ==
  \A e \in Execs : \A i \in checker[e].todo :
     i.task \in VTasks /\ i.verdict = "success" => i.task \in passed

\* Only a version without documents is completed without any.
EmptyPlan ==
  \A e \in Execs : worker[e].pc = "saving" /\ worker[e].plan = "empty" => ~hasDocs

IInv == /\ TypeOK
        /\ WaitingHasDocs
        /\ SuccessHasVersion /\ RetryHasVersion
        /\ SuccessHasEvidence /\ PassedRecorded /\ VerdictHasEvidence /\ EmptyPlan

LEMMA InitIInv == Init => IInv
<1> SUFFICES ASSUME Init PROVE IInv
  OBVIOUS
<1>1. \A t \in VTasks : BatchStatuses(t) = {}
  <2>1. DOMAIN <<>> = {}
    OBVIOUS
  <2> QED BY <2>1 DEF Init, BatchStatuses
<1> QED BY <1>1, InitTypeOK, Values
        DEF Init, IInv, WaitingHasDocs, SuccessHasVersion, RetryHasVersion,
            SuccessHasEvidence, PassedRecorded, VerdictHasEvidence, EmptyPlan

LEMMA NextIInv == IInv /\ [Next]_vars => IInv'
<1> SUFFICES ASSUME IInv, [Next]_vars PROVE IInv'
  OBVIOUS
<1>1. TypeOK /\ TypeOK'
  BY NextTypeOK DEF IInv
<1>2. TaskStep /\ BatchStep /\ LintedStep /\ TodoStep /\ RetryStep /\ PlanStep
  BY <1>1, NextTaskStep, NextBatchStep, NextLintedStep, NextTodoStep, NextRetryStep, NextPlanStep
<1>3. WaitingHasDocs'
  <2> SUFFICES ASSUME NEW t \in VTasks, batches'[t] = <<>>
               PROVE  /\ task'[t].status # "waiting_for_docs"
                      /\ \A e \in Execs : \A i \in checker'[e].todo : i.task # t
                      /\ \A l \in Loops : retry'[l].task = t =>
                            retry'[l].row.status # "waiting_for_docs"
    BY DEF WaitingHasDocs
  <2>1. /\ task[t].status # "waiting_for_docs"
        /\ \A e \in Execs : \A i \in checker[e].todo : i.task # t
        /\ \A l \in Loops : retry[l].task = t => retry[l].row.status # "waiting_for_docs"
    BY <1>2 DEF IInv, WaitingHasDocs, BatchStep
  <2>2. task'[t].status # "waiting_for_docs"
    BY <1>2, <2>1 DEF TaskStep
  <2>3. \A e \in Execs : \A i \in checker'[e].todo : i.task # t
    BY <1>2, <2>1 DEF TodoStep, Waiting
  <2>4. \A l \in Loops : retry'[l].task = t => retry'[l].row.status # "waiting_for_docs"
    BY <1>2, <2>1, Values DEF RetryStep
  <2> QED BY <2>2, <2>3, <2>4
<1>4. linted # "none" => linted' # "none"
  BY <1>2 DEF LintedStep
<1>5. SuccessHasVersion'
  BY <1>2, <1>4 DEF IInv, SuccessHasVersion, RetryHasVersion, TaskStep
<1>6. RetryHasVersion'
  BY <1>2, <1>4, Values DEF IInv, SuccessHasVersion, RetryHasVersion, RetryStep
<1>7. VerdictHasEvidence'
  <2> SUFFICES ASSUME NEW e \in Execs, NEW i \in checker'[e].todo, i.verdict = "success"
               PROVE  i.task \in passed'
    BY DEF VerdictHasEvidence
  <2>1. i.task \in VTasks
    BY <1>1 DEF TypeOK, Checker, Item
  <2>2. CASE i \in checker[e].todo
    BY <1>2, <2>1, <2>2 DEF IInv, VerdictHasEvidence, BatchStep
  <2>3. ASSUME NEW j \in checker[e].todo, j.task = i.task, i.verdict = Verdict(i.task)
        PROVE  i.task \in passed'
    <3>1. batches[i.task] # <<>>
      BY <2>1, <2>3 DEF IInv, WaitingHasDocs
    <3>2. batches[i.task] \in Seq({"pending"} \cup Outcomes)
      BY <1>1, <2>1 DEF TypeOK
    <3>3. 1 \in DOMAIN batches[i.task] /\ batches[i.task][1] \in {"pending"} \cup Outcomes
      BY <3>1, <3>2
    <3>4. "success" \in BatchStatuses(i.task)
      BY <2>3, <3>3 DEF Verdict, BatchStatuses, Outcomes
    <3>5. i.task \in passed
      BY <2>1, <3>4 DEF IInv, PassedRecorded
    <3> QED BY <1>2, <3>5 DEF BatchStep
  <2> QED BY <1>2, <2>2, <2>3 DEF TodoStep
<1>8. EmptyPlan'
  BY <1>2 DEF IInv, EmptyPlan, PlanStep
<1>9. SuccessHasEvidence'
  <2> SUFFICES ASSUME linted' = "success", hasDocs'
               PROVE  passed' # {}
    BY DEF SuccessHasEvidence
  <2>1. hasDocs
    BY <1>2 DEF PlanStep
  <2>2. passed # {}
    BY <1>2, <2>1 DEF IInv, SuccessHasEvidence, VerdictHasEvidence, EmptyPlan, LintedStep
  <2> QED BY <1>2, <2>2 DEF BatchStep
<1>10. PassedRecorded'
  BY <1>2 DEF IInv, PassedRecorded, BatchStep
<1> QED BY <1>1, <1>3, <1>5, <1>6, <1>7, <1>8, <1>9, <1>10 DEF IInv

LEMMA IInvHolds == Spec => []IInv
BY InitIInv, NextIInv, PTL DEF Spec

-----------------------------------------------------------------------------
(* The batches of document tasks                                            *)

BatchOf(t, b) == INSTANCE Batch WITH outcome <- batches[t][b], row <- linted

\* Of batch b of t: what may happen to it, and to what the version side keeps of it.
DocumentStep(t, b) ==
    /\ BatchOf(t, b)!Next
    /\ batches' = [batches EXCEPT ![t][b] = batches'[t][b]]
    /\ passed' = IF batches'[t][b] = "success" THEN passed \cup {t} ELSE passed
    /\ IF batches[t][b] = "pending" THEN UNCHANGED faults ELSE Fault
    /\ UNCHANGED <<task, hasDocs, worker, checker, retry, alive>>

LEMMA BatchUpdates ==
  ASSUME TypeOK, NEW t \in VTasks, NEW b \in DOMAIN batches[t]
  PROVE  /\ \A o : batches' = [batches EXCEPT ![t][b] = o] =>
                 batches'[t][b] = o /\ batches' = [batches EXCEPT ![t][b] = batches'[t][b]]
         /\ batches[t][b] \in {"pending"} \cup Outcomes
         /\ batches = [batches EXCEPT ![t][b] = batches[t][b]]
BY DEF TypeOK

\* The version side reckons with everything its documents may do: what it lets
\* happen to a batch are the steps of Batch, all of them and no others.  By
\* QueueMakesABatch of DocLintProofs the document queue takes only such steps.
THEOREM DocumentsAreBatches ==
  ASSUME TypeOK, NEW t \in VTasks
  PROVE  [Documents(t)]_vars <=> [\E b \in DOMAIN batches[t] : DocumentStep(t, b)]_vars
<1>1. ASSUME NEW b \in DOMAIN batches[t], DocumentStep(t, b)
      PROVE  [Documents(t)]_vars
  <2>1. CASE BatchOf(t, b)!Save
    BY <1>1, <2>1, BatchUpdates DEF DocumentStep, BatchOf!Save, Documents, SaveLintResult, vars
  <2>2. CASE BatchOf(t, b)!Settle
    BY <1>1, <2>2, BatchUpdates DEF DocumentStep, BatchOf!Settle, BatchOf!Outcomes, Outcomes,
       Documents, FinishBatch, BatchBecomes
  <2>3. CASE BatchOf(t, b)!Reopen
    BY <1>1, <2>3, BatchUpdates DEF DocumentStep, BatchOf!Reopen, BatchOf!Outcomes, Outcomes,
       Documents, ReopenBatch, BatchBecomes
  <2>4. CASE BatchOf(t, b)!Rewrite
    BY <1>1, <2>4, BatchUpdates DEF DocumentStep, BatchOf!Rewrite, BatchOf!Outcomes, Outcomes,
       Documents, RewriteBatch, BatchBecomes
  <2> QED BY <1>1, <2>1, <2>2, <2>3, <2>4 DEF DocumentStep, BatchOf!Next
<1>2. ASSUME NEW b \in DOMAIN batches[t], SaveLintResult(t, b)
      PROVE  DocumentStep(t, b)
  BY <1>2, BatchUpdates DEF SaveLintResult, DocumentStep, BatchOf!Next, BatchOf!Save
<1>3. ASSUME NEW b \in DOMAIN batches[t], FinishBatch(t, b)
      PROVE  DocumentStep(t, b)
  BY <1>3, BatchUpdates DEF FinishBatch, BatchBecomes, Outcomes, DocumentStep, BatchOf!Next,
     BatchOf!Settle, BatchOf!Outcomes
<1>4. ASSUME NEW b \in DOMAIN batches[t], ReopenBatch(t, b)
      PROVE  DocumentStep(t, b)
  BY <1>4, BatchUpdates DEF ReopenBatch, BatchBecomes, Outcomes, DocumentStep, BatchOf!Next,
     BatchOf!Reopen, BatchOf!Outcomes
<1>5. ASSUME NEW b \in DOMAIN batches[t], RewriteBatch(t, b)
      PROVE  DocumentStep(t, b)
  <2>1. PICK o \in Outcomes : BatchBecomes(t, b, o)
    BY <1>5 DEF RewriteBatch
  <2>2. batches[t][b] \in Outcomes /\ batches'[t][b] = o
    BY <1>5, <2>1, BatchUpdates DEF RewriteBatch, BatchBecomes
  <2>3. BatchOf(t, b)!Next
    BY <1>5, <2>2 DEF RewriteBatch, Outcomes, BatchOf!Next, BatchOf!Rewrite, BatchOf!Outcomes
  <2>4. IF batches[t][b] = "pending" THEN UNCHANGED faults ELSE Fault
    BY <1>5, <2>2 DEF RewriteBatch, Outcomes
  <2> QED BY <2>1, <2>2, <2>3, <2>4 DEF BatchBecomes, DocumentStep
<1> QED BY <1>1, <1>2, <1>3, <1>4, <1>5 DEF Documents

-----------------------------------------------------------------------------
(* Theorems                                                                 *)

\* No readiness loop of any replica works on a task that has no documents.
THEOREM WaitingOnDocs == Spec => []WaitingHasDocs
<1>1. IInv => WaitingHasDocs
  BY DEF IInv
<1> QED BY <1>1, IInvHolds, PTL

\* A finished version task always has its linted version.
THEOREM VersionRecorded == Spec => []SuccessHasVersion
<1>1. IInv => SuccessHasVersion
  BY DEF IInv
<1> QED BY <1>1, IInvHolds, PTL

\* No version with documents passes without one of its batches having passed.
THEOREM VerdictEarned == Spec => []SuccessHasEvidence
<1>1. IInv => SuccessHasEvidence
  BY DEF IInv
<1> QED BY <1>1, IInvHolds, PTL
=============================================================================
